---- MODULE Spec2Model ----
(***************************************************************************)
(* A model of the quality-metrics and aggregation engine of the            *)
(* descheduler's result-analysis scripts:                                  *)
(*   src/analyze_optimization_results.py  (OptimizationAnalyzer)           *)
(*   src/pkg/framework/plugins/multiobjective/visualize_pareto_front.py    *)
(*                                                                         *)
(* Numbers.  Objective values are integers (a fixed-point grid); Python's  *)
(* float('inf') is the value Inf below, larger than every grid value.      *)
(* Python dicts are functions; a key that is absent from a dict is absent  *)
(* from the function's DOMAIN.                                             *)
(***************************************************************************)
EXTENDS Integers, Sequences, FiniteSets, TLC

VARIABLES
    results,        \* OptimizationAnalyzer.results: the loaded run documents
    phase,          \* "loading" (inside __init__) | "loaded" | "plotted"
    scenario_data,  \* plot_academic_bar_comparison: node_count -> summary
    report,         \* the "best values found in" lines it prints, in order
    algorithm_data, \* objective -> short algorithm name -> node_count -> value
    outcome,        \* how plot_academic_bar_comparison ended
    comparison_records, \* plot_algorithm_comparison: its list algorithm_data
    compared,       \* how plot_algorithm_comparison ended ("none": not called)
    improvement_data,   \* plot_performance_comparison: its list improvement_data
    performance_data,   \* plot_performance_comparison: its list performance_data
    performed,      \* plot_performance_comparison has run
    style_data,     \* plot_academic_style_comparison: its local scenario_data
    styled,         \* how plot_academic_style_comparison ended ("none": not called)
    convergence_data,   \* plot_convergence_behavior: node_count -> its entry
    markers,        \* node_count -> the x positions of the 'PDB Blocked' lines drawn
    converged,      \* how plot_convergence_behavior ended ("none": not called)
    rng,            \* the state of numpy's process-global generator np.random
    front,          \* the pareto_front argument under test
    reference_point,\* the reference_point argument under test ("None" if omitted)
    returned,       \* what the calls of calculate_hypervolume made so far returned
    perturbed,      \* other code has used the global generator
    grown,          \* a solution was added to front after the first call on it
    cpc,            \* per thread: where its call of calculate_hypervolume stands
    cfront,         \* per thread: its pareto_front argument
    cref,           \* per thread: its reference_point argument
    cpoints,        \* per thread: its local random_points
    cvalue,         \* per thread: the value its call returned
    data,           \* the run document given to calculate_metrics_over_time
    metrics,        \* the metrics dict it returned
    global_reference, \* its local reference_point, shared by the rounds
    raw_sparsity,   \* what calculate_sparsity returned to it, round by round
    mpc             \* "start" | "done": whether it has returned

viewVars == <<style_data, styled, convergence_data, markers, converged>>
cmpVars == <<comparison_records, compared, improvement_data, performance_data, performed,
             viewVars>>
aggVars == <<results, phase, scenario_data, report, algorithm_data, outcome, cmpVars>>
hvVars == <<rng, front, reference_point, returned, perturbed, grown>>
concVars == <<cpc, cfront, cref, cpoints, cvalue>>
metVars == <<data, metrics, global_reference, raw_sparsity, mpc>>
vars == <<aggVars, hvVars, concVars, metVars>>

----------------------------------------------------------------------------
(* Bounds of the model. *)

MaxRuns == 2
MaxRounds == 2
MaxBaselines == 1
MaxFront == 2
MaxCalls == 2

\* The longest round list of a document given to plot_convergence_behavior.
MaxMoveRounds == 4

\* The most doubles other code has drawn from the global generator since it
\* was last seeded.
MaxDraws == 1

(* float('inf'): above every value of the grid. *)
Inf == 1000000

----------------------------------------------------------------------------
(* Input documents. *)

\* len(test_case['nodes']) of the loaded documents.
NodeCounts == {3, 5}

\* bestSolution records of a round (the fields the aggregator reads).
Solutions ==
    { [rawCost |-> 12, rawBalance |-> 1, disruption |-> 2],
      [rawCost |-> 8,  rawBalance |-> 3, disruption |-> 0] }

\* BaselineResult records; executionTimeMs and disruption are optional keys.
BaselineRecords ==
    { [algorithm |-> "Best Fit Decreasing", rawCost |-> 10, rawBalance |-> 4,
       disruption |-> 3],
      [algorithm |-> "Best Fit Decreasing", rawCost |-> 7, rawBalance |-> 0,
       disruption |-> 0, executionTimeMs |-> 0],
      [algorithm |-> "Custom", rawCost |-> 9, rawBalance |-> 2,
       executionTimeMs |-> 1500] }

SeqsUpTo(S, n) == UNION { [1..k -> S] : k \in 0..n }

Round(sol) == [bestSolution |-> sol]

\* Documents whose rounds vary and that carry no 'baselineResults' key.
RoundRuns ==
    { [nodes |-> nc, rounds |-> [i \in DOMAIN sols |-> Round(sols[i])]] :
        nc \in NodeCounts, sols \in SeqsUpTo(Solutions, MaxRounds) }

\* Documents whose baselines vary.
BaselineRuns ==
    { [nodes |-> nc,
       rounds |-> << Round([rawCost |-> 12, rawBalance |-> 1, disruption |-> 2]) >>,
       baselineResults |-> bs] :
        nc \in NodeCounts, bs \in SeqsUpTo(BaselineRecords, MaxBaselines) }

\* Two documents with non-monotone cost sequences, [12, 8, 9] and [12, 11].
ScenarioRuns ==
    { [nodes |-> 3,
       rounds |-> << Round([rawCost |-> 12, rawBalance |-> 1, disruption |-> 2]),
                     Round([rawCost |-> 8, rawBalance |-> 3, disruption |-> 0]),
                     Round([rawCost |-> 9, rawBalance |-> 2, disruption |-> 1]) >>],
      [nodes |-> 5,
       rounds |-> << Round([rawCost |-> 12, rawBalance |-> 1, disruption |-> 2]),
                     Round([rawCost |-> 11, rawBalance |-> 1, disruption |-> 2]) >>] }

Runs == RoundRuns \cup BaselineRuns \cup ScenarioRuns

Has(d, k) == k \in DOMAIN d

----------------------------------------------------------------------------
(* Pareto fronts and reference points.  A coordinate of a solution is a   *)
(* whole number of grid steps of 0.1; a solution is a dict with cost,     *)
(* disruption and balance.                                                *)

Sol(c, d, b) == [cost |-> c, disruption |-> d, balance |-> b]

FrontSolutions == { Sol(0, 3, 3), Sol(3, 0, 0), Sol(3, 3, 3) }

\* Every list of at most MaxFront solutions, in every order, duplicates and
\* dominated solutions included: the estimators do not filter.
Fronts == SeqsUpTo(FrontSolutions, MaxFront)

\* reference_point=None, the default of the argument.
NoReference == <<>>

\* A coordinate of a reference point is a double: <<steps, ulps>> is the
\* double of steps grid steps (the one nearest to steps / 10) when ulps is 0,
\* and the double ulps units in the last place above it otherwise
\* (np.nextafter; below it when ulps is negative).  Near is the point of these
\* coordinates and OnGrid the point on the grid.
Near(steps, ulps) == << <<steps[1], ulps[1]>>, <<steps[2], ulps[2]>>, <<steps[3], ulps[3]>> >>
OnGrid(steps) == IF steps = NoReference THEN NoReference ELSE Near(steps, <<0, 0, 0>>)

\* Caller-supplied reference points, and the omitted argument.
ReferencePoints ==
    { NoReference, OnGrid(<<3, 20, 20>>), OnGrid(<<20, 20, 20>>), OnGrid(<<0, 20, 20>>),
      OnGrid(<<0, 0, 20>>), OnGrid(<<3, 3, 3>>), OnGrid(<<6, 4, 4>>),
      Near(<<3, 20, 20>>, <<-1, 0, 0>>), Near(<<3, 3, 20>>, <<-1, -1, 0>>),
      Near(<<3, 3, 3>>, <<1, 1, 1>>), Near(<<3, 20, 20>>, <<1, 0, 0>>) }

\* The calls under test: fronts with reference points of ReferencePoints,
\* one for every shape of the front (empty, one solution, two solutions that
\* do not dominate each other, a dominated solution, a duplicate) and of the
\* box (the default one, a box wider than the front, a box of width 0 in one
\* dimension, a box inverted by some grid steps in two dimensions or by one
\* ulp in one, a box one ulp wide in one dimension or in all).
HvCases ==
    { [front |-> <<>>, ref |-> NoReference],
      [front |-> << Sol(3, 3, 3) >>, ref |-> NoReference],
      [front |-> << Sol(3, 3, 3) >>, ref |-> OnGrid(<<20, 20, 20>>)],
      [front |-> << Sol(3, 3, 3) >>, ref |-> OnGrid(<<3, 20, 20>>)],
      [front |-> << Sol(3, 3, 3) >>, ref |-> OnGrid(<<0, 0, 20>>)],
      [front |-> << Sol(3, 3, 3) >>, ref |-> Near(<<3, 20, 20>>, <<-1, 0, 0>>)],
      [front |-> << Sol(3, 3, 3) >>, ref |-> Near(<<3, 3, 3>>, <<1, 1, 1>>)],
      [front |-> << Sol(3, 5, 5), Sol(5, 3, 3) >>, ref |-> Near(<<3, 20, 20>>, <<1, 0, 0>>)],
      [front |-> << Sol(0, 3, 3), Sol(3, 0, 0) >>, ref |-> NoReference],
      [front |-> << Sol(0, 3, 3), Sol(3, 0, 0) >>, ref |-> OnGrid(<<6, 4, 4>>)],
      [front |-> << Sol(3, 3, 3), Sol(0, 3, 3) >>, ref |-> OnGrid(<<20, 20, 20>>)],
      [front |-> << Sol(3, 0, 0), Sol(3, 0, 0) >>, ref |-> OnGrid(<<6, 4, 4>>)] }

\* The arguments of the calls that run concurrently.
ConcurrentCalls ==
    { [front |-> <<>>, ref |-> NoReference],
      [front |-> << Sol(0, 3, 3) >>, ref |-> OnGrid(<<3, 20, 20>>)],
      [front |-> << Sol(0, 3, 3), Sol(3, 0, 0) >>, ref |-> OnGrid(<<3, 20, 20>>)] }

Threads == {1, 2}

\* The fronts of the rounds of the run documents given to
\* calculate_metrics_over_time.
TimelineFronts ==
    { <<>>,
      << Sol(3, 3, 3) >>,
      << Sol(0, 3, 3), Sol(3, 0, 0) >>,
      << Sol(0, 3, 3), Sol(3, 0, 0), Sol(3, 3, 3) >>,
      << Sol(3, 3, 3), Sol(0, 3, 3), Sol(3, 3, 3) >>,
      << Sol(3, 1, 1), Sol(3, 0, 2), Sol(3, 2, 0) >>,
      << Sol(0, 6, 6), Sol(2, 4, 3), Sol(4, 2, 4), Sol(6, 0, 0) >> }

\* The fronts of the rounds after the first.
LaterFronts ==
    { <<>>, << Sol(3, 3, 3) >>,
      << Sol(0, 6, 6), Sol(2, 4, 3), Sol(4, 2, 4), Sol(6, 0, 0) >> }

\* Run documents of at most MaxRounds rounds: any front in the first round,
\* and one front of LaterFronts in all the rounds after it.
RunDocuments ==
    { [rounds |-> [i \in DOMAIN fs |-> [paretoFront |-> fs[i]]]] :
        fs \in { gs \in SeqsUpTo(TimelineFronts, MaxRounds) :
                    \A i \in 2..Len(gs) : gs[i] \in LaterFronts /\ gs[i] = gs[2] } }

\* Documents whose two rounds hold the same front in two different orders;
\* two of its solutions tie for the highest value of every dimension.
ReorderedDocuments ==
    { [rounds |-> << [paretoFront |-> << Sol(0, 3, 3), Sol(3, 0, 0), Sol(3, 3, 3) >>],
                     [paretoFront |-> << Sol(3, 3, 3), Sol(0, 3, 3), Sol(3, 0, 0) >>] >>],
      [rounds |-> << [paretoFront |-> << Sol(3, 3, 3), Sol(3, 0, 0), Sol(0, 3, 3) >>],
                     [paretoFront |-> << Sol(3, 0, 0), Sol(3, 3, 3), Sol(0, 3, 3) >>] >>] }

\* The fronts a caller evaluates and then extends by one solution, the
\* solutions it adds, and the reference points it passes to both calls.
BaseFronts ==
    { << Sol(0, 3, 15) >>, << Sol(3, 3, 3) >>, << Sol(3, 0, 0), Sol(0, 3, 3) >> }

ExtraSolutions == { Sol(19, 19, 1), Sol(0, 3, 3), Sol(3, 3, 3), Sol(0, 19, 19) }

GrowReferences == { OnGrid(<<20, 20, 20>>), OnGrid(<<5, 20, 20>>) }
----------------------------------------------------------------------------
(* Documents for the comparisons of plot_algorithm_comparison and          *)
(* plot_performance_comparison.  'name' is testCase.name; 'finalResults',  *)
(* 'comparisonMetrics' and 'baselineResults' are optional keys, and so are *)
(* the keys inside comparisonMetrics.                                      *)

FirstFit ==
    [algorithm |-> "First Fit", rawCost |-> 11, rawBalance |-> 5, disruption |-> 4,
     weightedScore |-> 6, movements |-> 3, feasible |-> TRUE, executionTimeMs |-> 4]

BestFit ==
    [algorithm |-> "Best Fit Decreasing", rawCost |-> 10, rawBalance |-> 4,
     disruption |-> 3, weightedScore |-> 5, movements |-> 2, feasible |-> FALSE,
     executionTimeMs |-> 7]

OneRound == << Round([rawCost |-> 12, rawBalance |-> 1, disruption |-> 2]) >>

ComparisonRuns ==
    { \* a complete document
      [name |-> "small", nodes |-> 3, rounds |-> OneRound,
       finalResults |-> << "solution" >>,
       comparisonMetrics |->
          [nsgaiiBest |-> [rawCost |-> 8, rawBalance |-> 3, disruption |-> 1,
                           weightedScore |-> 2, movements |-> 1],
           improvementRatio |-> 3, costImprovement |-> 2, balanceImprovement |-> 1,
           performanceComparison |->
              [nsgaiiExecutionTime |-> 2, fastestBaselineTime |-> 4,
               speedupRatio |-> 2, fastestBaseline |-> "First Fit"]],
       baselineResults |-> << FirstFit, BestFit >>],
      \* no 'finalResults' key
      [name |-> "unfinished", nodes |-> 5, rounds |-> OneRound,
       comparisonMetrics |-> [improvementRatio |-> 2],
       baselineResults |-> << BestFit >>],
      \* empty finalResults, no other optional key
      [name |-> "empty", nodes |-> 5, finalResults |-> <<>>],
      \* zero weighted score and zero execution time, no ratio in the document
      [name |-> "zero", nodes |-> 5, rounds |-> OneRound,
       finalResults |-> << "solution" >>,
       comparisonMetrics |->
          [nsgaiiBest |-> [rawCost |-> 8, rawBalance |-> 3, disruption |-> 0,
                           weightedScore |-> 0, movements |-> 0],
           performanceComparison |->
              [nsgaiiExecutionTime |-> 0, fastestBaselineTime |-> 4,
               fastestBaseline |-> "First Fit"]],
       baselineResults |-> << FirstFit >>],
      \* comparisonMetrics is an empty dict
      [name |-> "bare", nodes |-> 3, rounds |-> OneRound,
       finalResults |-> << "solution" >>,
       comparisonMetrics |-> <<>>,
       baselineResults |-> << BestFit, FirstFit >>],
      \* a baseline without 'disruption' and 'executionTimeMs'
      [name |-> "partial", nodes |-> 3, rounds |-> OneRound,
       finalResults |-> << "solution" >>,
       baselineResults |->
          << FirstFit,
             [algorithm |-> "Custom", rawCost |-> 9, rawBalance |-> 2,
              weightedScore |-> 4, movements |-> 1, feasible |-> TRUE] >>] }
----------------------------------------------------------------------------
(* Input documents of plot_convergence_behavior. *)

\* The forms of a round: a nested 'feasibleMoves' object with a zero or a
\* positive count, one with no keys, a round with only a bestSolution (the
\* fallback), and a round with neither.
MoveRounds ==
    { [feasibleMoves |-> [feasibleMoves |-> 0, totalTargetMoves |-> 4]],
      [feasibleMoves |-> [feasibleMoves |-> 5, totalTargetMoves |-> 6]],
      [feasibleMoves |-> <<>>],
      [bestSolution |-> [rawCost |-> 8, rawBalance |-> 3, disruption |-> 2]],
      [round |-> 1] }

\* Values of finalResults.convergenceReason, and those of them that contain
\* the text 'PDB-blocked'.
Reasons == { "PDB-blocked: no feasible moves left", "Maximum rounds reached" }

PdbBlockedReasons == { "PDB-blocked: no feasible moves left" }

\* Documents with and without a 'finalResults' key.
ConvergenceRuns ==
    { [nodes |-> nc, rounds |-> rs, finalResults |-> [convergenceReason |-> r]] :
        nc \in NodeCounts, rs \in SeqsUpTo(MoveRounds, MaxMoveRounds), r \in Reasons }
    \cup
    { [nodes |-> nc, rounds |-> rs] :
        nc \in NodeCounts, rs \in SeqsUpTo(MoveRounds, MaxMoveRounds) }
----------------------------------------------------------------------------
(* plot_academic_bar_comparison: the aggregation loop (lines 109-171). *)

\* The accumulators before the first round (lines 125-130).
BestInit ==
    [best_cost |-> Inf, best_balance |-> Inf, best_disruption |-> Inf,
     best_cost_round |-> 0, best_balance_round |-> 0, best_disruption_round |-> 0]

\* An iteration that compares with <=, so that a later round of equal value
\* replaces the recorded one.
ScanRoundLatest(acc, solution, i) ==
    LET c == IF solution.rawCost <= acc.best_cost
             THEN [acc EXCEPT !.best_cost = solution.rawCost,
                              !.best_cost_round = i + 1]
             ELSE acc
        b == IF solution.rawBalance <= c.best_balance
             THEN [c EXCEPT !.best_balance = solution.rawBalance,
                            !.best_balance_round = i + 1]
             ELSE c
    IN  IF solution.disruption <= b.best_disruption
        THEN [b EXCEPT !.best_disruption = solution.disruption,
                       !.best_disruption_round = i + 1]
        ELSE b

\* One iteration of "for i, round_data in enumerate(result['rounds'])";
\* i is the 0-based index, so rounds[i + 1] is the round and i + 1 its number.
ScanRound(acc, solution, i) ==
    LET c == IF solution.rawCost < acc.best_cost
             THEN [acc EXCEPT !.best_cost = solution.rawCost,
                              !.best_cost_round = i + 1]
             ELSE acc
        b == IF solution.rawBalance < c.best_balance
             THEN [c EXCEPT !.best_balance = solution.rawBalance,
                            !.best_balance_round = i + 1]
             ELSE c
    IN  IF solution.disruption < b.best_disruption
        THEN [b EXCEPT !.best_disruption = solution.disruption,
                       !.best_disruption_round = i + 1]
        ELSE b

RECURSIVE ScanFrom(_, _, _)
ScanFrom(rounds, i, acc) ==
    IF i >= Len(rounds) THEN acc
    ELSE ScanFrom(rounds, i + 1, ScanRound(acc, rounds[i + 1].bestSolution, i))

\* A scan that trusts the final round: the last round's bestSolution.
ScanRoundsFinalOnly(rounds) ==
    IF rounds = <<>> THEN BestInit
    ELSE LET s == rounds[Len(rounds)].bestSolution
         IN  [best_cost |-> s.rawCost, best_balance |-> s.rawBalance,
              best_disruption |-> s.disruption,
              best_cost_round |-> Len(rounds), best_balance_round |-> Len(rounds),
              best_disruption_round |-> Len(rounds)]

\* The whole scan of one run's rounds (lines 125-145).
ScanRounds(rounds) == ScanFrom(rounds, 0, BestInit)

\* The summary stored for the run's group (lines 152-157).
NsgaSummary(rounds) ==
    LET best == ScanRounds(rounds)
    IN  [cost |-> best.best_cost, balance |-> best.best_balance,
         disruption |-> best.best_disruption, rounds_completed |-> Len(rounds)]

\* The lines printed for the run (lines 147-150).
ReportLine(node_count, rounds) ==
    LET best == ScanRounds(rounds)
    IN  [node_count |-> node_count,
         best_cost |-> best.best_cost, best_cost_round |-> best.best_cost_round,
         best_balance |-> best.best_balance,
         best_balance_round |-> best.best_balance_round,
         best_disruption |-> best.best_disruption,
         best_disruption_round |-> best.best_disruption_round]

\* baseline.get('executionTimeMs', 0) / 1000.0, as the exact fraction num/den.
ExecutionTime(baseline) ==
    [num |-> IF Has(baseline, "executionTimeMs") THEN baseline.executionTimeMs ELSE 0,
     den |-> 1000]

\* The entry written for one baseline (lines 166-171).
BaselineSummary(baseline) ==
    [cost |-> baseline.rawCost,
     balance |-> baseline.rawBalance,
     disruption |-> 0,
     execution_time |-> ExecutionTime(baseline)]

\* d[k] = v on a dict.
Put(d, k, v) == [x \in (DOMAIN d) \cup {k} |-> IF x = k THEN v ELSE d[x]]

RECURSIVE MergeBaselines(_, _, _)
MergeBaselines(baselines, list, j) ==
    IF j > Len(list) THEN baselines
    ELSE MergeBaselines(Put(baselines, list[j].algorithm, BaselineSummary(list[j])),
                        list, j + 1)

\* The new value of scenario_data[node_count]['nsga_ii'] (lines 123, 152-157).
StoreNsga(old, result) ==
    IF Has(result, "rounds") /\ result.rounds # <<>>
    THEN NsgaSummary(result.rounds)
    ELSE old

\* An iteration that keeps one baselines dict for all the groups: the
\* baselines of the run are merged into every group's entry.
AggregateRunSharedBaselines(sd, result) ==
    LET node_count == result.nodes
        sd1 == IF node_count \in DOMAIN sd THEN sd
               ELSE Put(sd, node_count, [nsga_ii |-> <<>>, baselines |-> <<>>])
        list == IF Has(result, "baselineResults") THEN result.baselineResults ELSE <<>>
    IN  [nc \in DOMAIN sd1 |->
            [nsga_ii |-> IF nc = node_count THEN StoreNsga(sd1[nc].nsga_ii, result)
                         ELSE sd1[nc].nsga_ii,
             baselines |-> MergeBaselines(sd1[nc].baselines, list, 1)]]

\* One iteration of "for result in self.results" on scenario_data.
AggregateRun(sd, result) ==
    LET node_count == result.nodes
        sd1 == IF node_count \in DOMAIN sd THEN sd
               ELSE Put(sd, node_count, [nsga_ii |-> <<>>, baselines |-> <<>>])
        entry == sd1[node_count]
        nsga == StoreNsga(entry.nsga_ii, result)
        base == IF Has(result, "baselineResults")
                THEN MergeBaselines(entry.baselines, result.baselineResults, 1)
                ELSE entry.baselines
    IN  Put(sd1, node_count, [nsga_ii |-> nsga, baselines |-> base])

RECURSIVE AggregateFrom(_, _, _)
AggregateFrom(runs, k, sd) ==
    IF k > Len(runs) THEN sd
    ELSE AggregateFrom(runs, k + 1, AggregateRun(sd, runs[k]))

\* scenario_data after the loop of lines 111-171.
Aggregate(runs) == AggregateFrom(runs, 1, <<>>)

RECURSIVE ReportFrom(_, _)
ReportFrom(runs, k) ==
    IF k > Len(runs) THEN <<>>
    ELSE LET r == runs[k]
             rest == ReportFrom(runs, k + 1)
         IN  IF Has(r, "rounds") /\ r.rounds # <<>>
             THEN <<ReportLine(r.nodes, r.rounds)>> \o rest
             ELSE rest

\* A guard that lets a single group through.
InsufficientScenariosOffByOne(sd) == Cardinality(DOMAIN sd) < 1

\* Lines 173-175.
InsufficientScenarios(sd) == Cardinality(DOMAIN sd) < 2

----------------------------------------------------------------------------
(* plot_academic_bar_comparison: the comparison data (lines 182-241, 266). *)

\* algorithm_name_mapping (lines 186-192), in insertion order.
MappingOrder ==
    << "Best Fit Decreasing", "First Fit Decreasing", "Random Placement",
       "Greedy Cost Scheduler", "NSGA-II (Proposed)" >>

ShortOf(orig) ==
    CASE orig = "Best Fit Decreasing" -> "BFD"
      [] orig = "First Fit Decreasing" -> "FFD"
      [] orig = "Random Placement" -> "Random"
      [] orig = "Greedy Cost Scheduler" -> "Greedy"
      [] orig = "NSGA-II (Proposed)" -> "NSGA-II"

\* algorithm_name_mapping.get(name, name)
ShortName(name) ==
    IF \E i \in DOMAIN MappingOrder : MappingOrder[i] = name THEN ShortOf(name) ELSE name

\* Lines 231-235: the first original name whose short name is alg, or "None".
OriginalName(alg) ==
    LET hits == { i \in DOMAIN MappingOrder : ShortOf(MappingOrder[i]) = alg }
    IN  IF hits = {} THEN "None"
        ELSE MappingOrder[CHOOSE i \in hits : \A j \in hits : i <= j]

\* Lines 210-217.
AllAlgorithms(sd) ==
    {"NSGA-II"} \cup
    { ShortName(name) : name \in UNION { DOMAIN sd[nc].baselines : nc \in DOMAIN sd } }

\* Lines 224-241: the value appended for (alg, nc) and objective obj.
AlgorithmValue(sd, obj, alg, nc) ==
    IF alg = "NSGA-II"
    THEN IF Has(sd[nc].nsga_ii, obj) THEN sd[nc].nsga_ii[obj] ELSE 0
    ELSE LET original_name == OriginalName(alg)
         IN  IF /\ original_name # "None"
                /\ Has(sd[nc].baselines, original_name)
                /\ Has(sd[nc].baselines[original_name], obj)
             THEN sd[nc].baselines[original_name][obj]
             ELSE 0

Objectives == {"cost", "balance"}

\* Line 266: max() of an empty list raises when no algorithm has a value > 0.
HasPositive(ad, obj) ==
    \E alg \in DOMAIN ad[obj] : \E nc \in DOMAIN ad[obj][alg] : ad[obj][alg][nc] > 0

\* algorithm_data of the passes of the loop of line 206 that were built, keyed
\* by node count (the code's lists follow sorted(scenario_data.keys())): the
\* cost pass, and the balance pass unless line 266 raised in the cost pass.
AlgorithmData(sd) ==
    LET pass == [obj \in Objectives |->
                    [alg \in AllAlgorithms(sd) |->
                        [nc \in DOMAIN sd |-> AlgorithmValue(sd, obj, alg, nc)]]]
    IN  IF HasPositive(pass, "cost") THEN pass
        ELSE [obj \in {"cost"} |-> pass[obj]]

PlotOutcome(sd) ==
    IF InsufficientScenarios(sd) THEN "insufficient"
    ELSE IF /\ DOMAIN AlgorithmData(sd) = Objectives
            /\ \A obj \in Objectives : HasPositive(AlgorithmData(sd), obj)
         THEN "saved" ELSE "ValueError"

----------------------------------------------------------------------------
(* plot_algorithm_comparison (lines 441-488) and plot_performance_comparison *)
(* (lines 1006-1033) of analyze_optimization_results.py.                    *)

\* d.get(k, default) on a dict.
Get(d, k, default) == IF Has(d, k) THEN d[k] ELSE default

\* Line 457: 'finalResults' in result and result['finalResults'].
HasFinalResults(result) == Has(result, "finalResults") /\ result.finalResults # <<>>

\* Lines 458-469: the record of the proposed algorithm.
NsgaRecord(result) ==
    LET comparison_metrics == Get(result, "comparisonMetrics", <<>>)
        nsga_best == Get(comparison_metrics, "nsgaiiBest", <<>>)
    IN  [test_case |-> result.name,
         algorithm |-> "NSGA-II",
         cost |-> Get(nsga_best, "rawCost", 0),
         balance |-> Get(nsga_best, "rawBalance", 0),
         disruption |-> Get(nsga_best, "disruption", 0),
         weighted_score |-> Get(nsga_best, "weightedScore", 0),
         movements |-> Get(nsga_best, "movements", 0),
         feasible |-> TRUE,
         execution_time |->
            Get(Get(comparison_metrics, "performanceComparison", <<>>),
                "nsgaiiExecutionTime", 0)]

\* The keys lines 474-482 index a baseline with; a missing one raises KeyError.
BaselineKeys ==
    { "algorithm", "rawCost", "rawBalance", "disruption", "weightedScore",
      "movements", "feasible", "executionTimeMs" }

\* Lines 473-483: the record of one baseline.
BaselineRecord(test_name, baseline) ==
    [test_case |-> test_name,
     algorithm |-> baseline.algorithm,
     cost |-> baseline.rawCost,
     balance |-> baseline.rawBalance,
     disruption |-> baseline.disruption,
     weighted_score |-> baseline.weightedScore,
     movements |-> baseline.movements,
     feasible |-> baseline.feasible,
     execution_time |-> baseline.executionTimeMs]

\* Lines 472-483: the loop over the baselines of one document, from the j-th
\* on; raised tells that a KeyError ended it.
RECURSIVE AppendBaselines(_, _, _, _)
AppendBaselines(acc, test_name, baseline_results, j) ==
    IF j > Len(baseline_results) THEN [records |-> acc, raised |-> FALSE]
    ELSE IF ~(BaselineKeys \subseteq DOMAIN baseline_results[j])
         THEN [records |-> acc, raised |-> TRUE]
    ELSE AppendBaselines(Append(acc, BaselineRecord(test_name, baseline_results[j])),
                         test_name, baseline_results, j + 1)

\* Lines 451-483: the loop over self.results, from the k-th document on.
RECURSIVE CollectComparison(_, _, _)
CollectComparison(runs, k, acc) ==
    IF k > Len(runs) THEN [records |-> acc, raised |-> FALSE]
    ELSE LET result == runs[k]
             with_nsga == IF HasFinalResults(result)
                          THEN Append(acc, NsgaRecord(result)) ELSE acc
             done == AppendBaselines(with_nsga, result.name,
                                     Get(result, "baselineResults", <<>>), 1)
         IN  IF done.raised THEN done ELSE CollectComparison(runs, k + 1, done.records)

\* How the call ends: the exception of the call of line 446 or of the loop,
\* the early return of lines 485-487, or the plots.
ComparisonOutcome(runs) ==
    IF PlotOutcome(Aggregate(runs)) = "ValueError" THEN "ValueError"
    ELSE IF CollectComparison(runs, 1, <<>>).raised THEN "KeyError"
    ELSE IF CollectComparison(runs, 1, <<>>).records = <<>> THEN "no data"
    ELSE "plotted"

\* Lines 1019-1024: the improvement entry of one document.
ImprovementEntry(result) ==
    LET comparison == result.comparisonMetrics
    IN  [test_case |-> result.name,
         improvement_ratio |-> Get(comparison, "improvementRatio", 1),
         cost_improvement |-> Get(comparison, "costImprovement", 0),
         balance_improvement |-> Get(comparison, "balanceImprovement", 0)]

\* Lines 1026-1033: the performance entry of one document.
PerformanceEntry(result) ==
    LET perf_comp == Get(result.comparisonMetrics, "performanceComparison", <<>>)
    IN  [test_case |-> result.name,
         nsga_time |-> Get(perf_comp, "nsgaiiExecutionTime", 0),
         baseline_time |-> Get(perf_comp, "fastestBaselineTime", 0),
         speedup_ratio |-> Get(perf_comp, "speedupRatio", 1),
         fastest_baseline |-> Get(perf_comp, "fastestBaseline", "Unknown")]

\* Lines 1016-1018: result.get('comparisonMetrics', {}) is not empty.
HasComparison(result) == Get(result, "comparisonMetrics", <<>>) # <<>>

\* Lines 1014-1033: the documents that get an entry, in order.
Compared(runs) == SelectSeq(runs, HasComparison)

ImprovementData(runs) == [n \in DOMAIN Compared(runs) |-> ImprovementEntry(Compared(runs)[n])]

PerformanceData(runs) == [n \in DOMAIN Compared(runs) |-> PerformanceEntry(Compared(runs)[n])]
----------------------------------------------------------------------------
(* plot_academic_style_comparison: the grouping loop (lines 662-699). *)

\* The new value of scenario_data[node_count]['nsga_ii'] (lines 676-685): the
\* bestSolution of the last round, result['rounds'][-1].
StyleNsga(old, result) ==
    IF Has(result, "rounds") /\ result.rounds # <<>>
    THEN LET final_round == result.rounds[Len(result.rounds)]
             best_solution == final_round.bestSolution
         IN  [cost |-> best_solution.rawCost,
              balance |-> best_solution.rawBalance,
              disruption |-> best_solution.disruption,
              rounds_completed |-> Len(result.rounds)]
    ELSE old

\* The entry written for one baseline (lines 694-699); baseline['disruption'] is indexed.
StyleBaseline(baseline) ==
    [cost |-> baseline.rawCost,
     balance |-> baseline.rawBalance,
     disruption |-> baseline.disruption,
     execution_time |-> ExecutionTime(baseline)]

\* The loop of lines 689-699 from baseline j on: the baselines dict it leaves
\* and whether it raised.  A baseline without 'disruption' raises KeyError at
\* line 697, after line 692 put the placeholder {} for a name not yet there.
RECURSIVE StyleMergeBaselines(_, _, _)
StyleMergeBaselines(baselines, list, j) ==
    IF j > Len(list) THEN [baselines |-> baselines, failed |-> FALSE]
    ELSE IF ~Has(list[j], "disruption")
    THEN [baselines |-> IF Has(baselines, list[j].algorithm) THEN baselines
                        ELSE Put(baselines, list[j].algorithm, <<>>),
          failed |-> TRUE]
    ELSE StyleMergeBaselines(Put(baselines, list[j].algorithm, StyleBaseline(list[j])),
                             list, j + 1)

\* One iteration of "for result in self.results" (lines 664-699): scenario_data
\* after it and whether it raised.
StyleRun(sd, result) ==
    LET node_count == result.nodes
        sd1 == IF node_count \in DOMAIN sd THEN sd
               ELSE Put(sd, node_count, [nsga_ii |-> <<>>, baselines |-> <<>>])
        entry == sd1[node_count]
        nsga == StyleNsga(entry.nsga_ii, result)
        base == IF Has(result, "baselineResults")
                THEN StyleMergeBaselines(entry.baselines, result.baselineResults, 1)
                ELSE [baselines |-> entry.baselines, failed |-> FALSE]
    IN  [sd |-> Put(sd1, node_count, [nsga_ii |-> nsga, baselines |-> base.baselines]),
         failed |-> base.failed]

\* The loop from run k on; it stops at the run that raises.
RECURSIVE StyleFrom(_, _, _)
StyleFrom(runs, k, sd) ==
    IF k > Len(runs) THEN [sd |-> sd, failed |-> FALSE]
    ELSE LET step == StyleRun(sd, runs[k])
         IN  IF step.failed THEN step ELSE StyleFrom(runs, k + 1, step.sd)

\* Some baseline of some run has no 'disruption' key: line 697 raises KeyError.
StyleKeyError(runs) == StyleFrom(runs, 1, <<>>).failed

\* How the call ends: the KeyError, the early return of lines 701-703, or the plot.
StyleOutcome(runs) ==
    IF StyleKeyError(runs) THEN "KeyError"
    ELSE IF Cardinality(DOMAIN StyleFrom(runs, 1, <<>>).sd) < 2 THEN "no plot"
    ELSE "plotted"
----------------------------------------------------------------------------
(* plot_convergence_behavior: the extraction loop and the zero-streak scan. *)

\* A round contributes to the two lists (lines 826-838).
HasMovement(round_data) ==
    Has(round_data, "feasibleMoves") \/ Has(round_data, "bestSolution")

\* What the round appends to feasible_movements_per_round.
FeasibleCount(round_data) ==
    IF Has(round_data, "feasibleMoves")
    THEN Get(round_data.feasibleMoves, "feasibleMoves", 0)
    ELSE Get(round_data.bestSolution, "disruption", 0)

\* What the round appends to movements_per_round.
TotalTarget(round_data) ==
    IF Has(round_data, "feasibleMoves")
    THEN Get(round_data.feasibleMoves, "totalTargetMoves", 0)
    ELSE Get(round_data.bestSolution, "disruption", 0)

\* The rounds that contribute, in order.
MovementRounds(rounds) == SelectSeq(rounds, HasMovement)

\* result.get('finalResults', {}).get('convergenceReason', 'Unknown')
ConvergenceReason(result) ==
    IF Has(result, "finalResults")
    THEN Get(result.finalResults, "convergenceReason", "Unknown")
    ELSE "Unknown"

\* The entry written for one run (lines 840-845).
ConvergenceEntry(result) ==
    LET kept == MovementRounds(result.rounds)
    IN  [movements |-> [i \in DOMAIN kept |-> TotalTarget(kept[i])],
         feasible_movements |-> [i \in DOMAIN kept |-> FeasibleCount(kept[i])],
         rounds |-> Len(kept),
         convergence_reason |-> ConvergenceReason(result)]

\* convergence_data after the loop of lines 816-845.
RECURSIVE ConvergenceFrom(_, _, _)
ConvergenceFrom(runs, k, cd) ==
    IF k > Len(runs) THEN cd
    ELSE ConvergenceFrom(runs, k + 1,
            IF Has(runs[k], "rounds") /\ runs[k].rounds # <<>>
            THEN Put(cd, runs[k].nodes, ConvergenceEntry(runs[k]))
            ELSE cd)

\* One iteration of "for j, moves in enumerate(...)" (lines 874-880); j is the
\* 0-based index, acc holds zero_streaks and current_streak.
ScanMoves(acc, j, moves) ==
    IF moves = 0
    THEN [acc EXCEPT !.current_streak = acc.current_streak + 1]
    ELSE [zero_streaks |->
              IF acc.current_streak >= 3
              THEN Append(acc.zero_streaks, <<j - acc.current_streak + 1, j>>)
              ELSE acc.zero_streaks,
          current_streak |-> 0]

RECURSIVE ScanMovesFrom(_, _, _)
ScanMovesFrom(feasible_movements, j, acc) ==
    IF j >= Len(feasible_movements) THEN acc
    ELSE ScanMovesFrom(feasible_movements, j + 1,
                       ScanMoves(acc, j, feasible_movements[j + 1]))

\* zero_streaks after the loop (lines 872-880).
ZeroStreaks(feasible_movements) ==
    ScanMovesFrom(feasible_movements, 0,
                  [zero_streaks |-> <<>>, current_streak |-> 0]).zero_streaks

\* conv_start, from a non-empty list of streaks (line 884).
ConvStart(zero_streaks) == zero_streaks[Len(zero_streaks)][1] + 1

\* The x positions of the vertical lines drawn for one entry (lines 870-885).
MarkersOf(entry) ==
    IF entry.convergence_reason \in PdbBlockedReasons
          /\ ZeroStreaks(entry.feasible_movements) # <<>>
    THEN << ConvStart(ZeroStreaks(entry.feasible_movements)) >>
    ELSE <<>>
----------------------------------------------------------------------------
(* calculate_hypervolume (visualize_pareto_front.py, lines 31-81). *)

\* A double of the generator is k / 2^53 for a whole number k of 53 bits,
\* held as three numbers: the high 17 bits, the middle 18 and the low 18.
HighBase == 131072
LowBase == 262144

\* The process-global generator.  Its state is the number of doubles drawn
\* since np.random.seed(42), and Stream holds the doubles that seed yields, in
\* order and three numbers each (0.3745401188473625 is 49091, 189387, 239862;
\* then 0.9507143064099162, 0.7319939418114051, ...): the first values of the
\* MT19937 stream, which does not repeat.  The table covers the draws of two
\* calls of calculate_hypervolume that follow each other without a seed
\* between them; the guards of the actions keep the state inside it.
Stream ==
    << 49091, 189387, 239862, 124612, 6702, 251476, 95943, 238535, 157521, 78467, 95640, 208048, 20449, 177010, 34913,
       20446, 134681, 155603, 7613, 35445, 148823, 113531, 115285, 112565, 78789, 90916, 150445, 92808, 128166, 164482,
       2698, 13326, 115700, 127128, 6328, 218021, 109109, 241648, 70646, 27831, 186624, 52262, 23832, 42494, 1614,
       24039, 51358, 19730, 39877, 167580, 152884, 68780, 229377, 212067, 56615, 235269, 236973, 38171, 258438, 89735,
       80196, 205158, 95527, 18283, 193803, 248095, 38291, 257785, 73770, 48019, 204347, 154524, 59778, 1303, 51182,
       102914, 152990, 80430, 26171, 168289, 238621, 67401, 193019, 185363, 77648, 252279, 128791, 6088, 91356, 37943,
       79632, 31150, 41610, 22350, 245875, 85933, 8526, 115971, 103764, 124372, 85233, 53385, 126567, 84368, 52896,
       105958, 67426, 174751, 39926, 88068, 22901, 12802, 20795, 28526, 89683, 207421, 184161, 57691, 175022, 239982,
       15995, 208540, 41718, 64903, 217045, 78092, 4507, 97580, 99968, 119186, 116324, 29233, 33918, 212270, 171032,
       86838, 31681, 97654, 40856, 155756, 220175, 68166, 93237, 61096, 71658, 107409, 86844, 24229, 63752, 4247,
       127085, 103895, 163814, 101598, 54899, 35928, 123142, 1381, 41539, 117286, 212461, 58895, 78367, 247994, 47613,
       120831, 235859, 155828, 11598, 233106, 8823, 25687, 226949, 87443, 5928, 8182, 15738, 42641, 182744, 52603,
       50944, 186047, 82299, 35566, 68234, 42253, 108624, 74134, 54604, 46760, 97527, 27619, 36822, 169883, 105058,
       71132, 68422, 171911, 18471, 57675, 221778, 105145, 147498, 80828, 9771, 131588, 765, 129353, 64108, 102440,
       101219, 174693, 23506, 26046, 16203, 34858, 723, 208387, 158448, 106884, 42034, 236887, 92649, 53942, 27142,
       95552, 112074, 74694, 101091, 248219, 32965, 9705, 47341, 34871, 46984, 214950, 177135, 15187, 49642, 60208,
       113128, 181465, 159875, 81696, 244339, 15564, 43371, 122136, 111408, 8330, 188766, 243655, 40761, 19627, 58552,
       42622, 112298, 124812, 95630, 246679, 97578, 83565, 244550, 86187, 116288, 196239, 177816, 61894, 40546, 7675,
       15675, 119800, 198782, 93486, 110297, 84394, 99717, 161976, 199952, 73567, 190012, 108039, 101052, 55105, 145094,
       64722, 203530, 92012, 68515, 167093, 243715, 56038, 172060, 101725, 3331, 192880, 123245, 14141, 142899, 167802,
       4119, 127461, 82701, 83415, 153465, 182131, 41203, 70032, 52047, 66659, 98994, 13662, 118956, 144931, 175335,
       32675, 60570, 191587, 53789, 186250, 52250, 99031, 156979, 257864, 29989, 8689, 97128, 10089, 238745, 81149,
       37978, 79281, 226739, 21131, 156385, 104796, 121857, 86687, 218794, 105921, 250187, 178840, 83021, 130331, 1711,
       114224, 21620, 228812, 105338, 237623, 241369, 24454, 29034, 164245, 116989, 129250, 31390, 70692, 174675, 8473,
       105832, 208671, 66719, 117452, 125531, 55639, 41681, 92136, 38818, 14424, 190277, 174550, 29875, 240549, 211988,
       55981, 228608, 34921, 107218, 217946, 67535, 112817, 177998, 6292, 911, 60202, 39819, 66944, 175752, 190550,
       54710, 234620, 30532, 29112, 30129, 69107, 15710, 260420, 254163, 44251, 234814, 130058, 123589, 15915, 21628,
       42362, 224056, 954, 67998, 242318, 229143, 92146, 26471, 100154, 47661, 172816, 160540, 127373, 110401, 614,
       126149, 233791, 52500, 33001, 159666, 66556, 65175, 93366, 89462, 39436, 189221, 238617, 37334, 160767, 110510,
       4834, 221764, 77578, 79896, 214010, 3520, 65887, 37993, 59107, 6747, 110856, 120845, 36522, 196440, 88667,
       119048, 59298, 103270, 31399, 224430, 68313, 18991, 173191, 240976, 64153, 144754, 165803, 129191, 46221, 141723,
       31726, 175255, 191459, 88098, 39444, 183094, 99827, 1630, 165554, 31147, 164669, 260294, 95448, 202701, 158276,
       48206, 18552, 104061, 82877, 154619, 198265, 83038, 1638, 25967, 70225, 15569, 1719, 11834, 120780, 98658,
       109484, 201510, 153011, 42045, 74626, 25922, 24447, 92850, 33575, 5344, 125659, 193948, 77449, 136275, 116779,
       88809, 187704, 100062, 2174, 52406, 14229, 67121, 16079, 60887, 29687, 66649, 67762, 84564, 23064, 162843,
       22854, 145904, 202887, 90562, 154981, 204062, 50690, 45956, 142696, 122779, 19158, 118957, 18025, 38060, 256028,
       44704, 65212, 56446, 14873, 52789, 136926, 121201, 115850, 160086, 114994, 163506, 31668, 33808, 242490, 133380,
       86505, 112428, 206690, 107114, 248571, 114057, 72771, 73604, 67839, 69422, 94530, 202445, 31700, 16639, 10734,
       12203, 43511, 38627, 117599, 226446, 241991, 118019, 156129, 250322, 82981, 229168, 81007, 44437, 81991, 102515,
       45771, 156595, 76442, 95152, 121304, 195363, 117586, 9435, 57414, 116272, 50279, 145248, 102219, 222179, 70554,
       84152, 97497, 219593, 11028, 103151, 136985, 21184, 261833, 12374, 117775, 77227, 68417, 79485, 227988, 171907,
       1205, 124767, 79793, 13300, 20464, 176727, 86966, 132089, 67618, 663, 113224, 179246, 21077, 113486, 45389,
       71923, 166524, 83131, 90688, 22898, 208818, 85453, 227070, 152334, 29395, 111917, 9663, 93346, 197892, 164441,
       31096, 186750, 114502, 42650, 206893, 204108, 97844, 31837, 213911, 85148, 179134, 133078, 111309, 107704, 146963,
       86194, 166990, 226377, 74489, 90506, 233386, 12278, 36482, 67214, 48197, 64418, 236231, 34760, 158528, 30992,
       31980, 55191, 1818, 127534, 115194, 156387, 51524, 27516, 158856, 116922, 85479, 251996, 82724, 157807, 53728,
       104177, 132953, 162548, 65881, 170149, 38393, 75615, 247979, 64109, 64555, 73181, 59479, 25590, 233018, 243119,
       94693, 63871, 208012, 36801, 103570, 113528, 3187, 37316, 196562, 84603, 90379, 42615, 23214, 65790, 158578,
       123267, 206456, 80162, 125033, 85575, 148752, 119913, 27618, 45736, 48517, 115647, 109053, 2025, 243699, 258576,
       121676, 149588, 176181, 56122, 249741, 133124, 126701, 99730, 132873, 126303, 156666, 252938, 111805, 171795, 75665,
       38594, 1358, 67747, 50475, 138800, 228910, 111560, 48708, 191250, 41539, 157564, 60725, 22215, 197471, 106912,
       72981, 14437, 10751, 122703, 177880, 31080, 91230, 4590, 22101, 74719, 15122, 6954, 12737, 30773, 126665,
       80610, 59563, 213054, 129768, 88667, 213274, 18361, 24129, 17273, 67938, 132171, 155815, 114999, 11346, 150207,
       97094, 6361, 68017, 91359, 64802, 255606, 92075, 260533, 126147, 47119, 58765, 136816, 38481, 175691, 237658,
       106084, 153451, 121608, 106183, 47937, 154396, 113648, 236700, 143526, 119700, 69652, 232812, 67022, 175873, 85806,
       65734, 194976, 194240, 104634, 38193, 192448, 85192, 18962, 42172, 92008, 53093, 151167, 104306, 35852, 261290,
       116654, 204514, 255325, 44301, 183815, 18322, 49228, 107156, 49653, 12318, 105072, 65372, 75796, 87724, 10142,
       4711, 6740, 1856, 61026, 226343, 181050, 71125, 135675, 92082, 37557, 140246, 201058, 77441, 182748, 69096,
       3997, 191040, 16868, 4895, 79113, 246858, 107819, 236109, 166716, 47210, 237961, 129263, 16654, 19795, 163241,
       68451, 122835, 244964, 100924, 155973, 135000, 28288, 24567, 27385, 81643, 131189, 15697, 11186, 173783, 146252,
       6774, 6961, 199567, 69645, 187241, 80373, 70862, 33203, 19693, 83549, 55587, 109678, 95170, 63777, 257642,
       127906, 231672, 52805, 67672, 136118, 245457, 42330, 144394, 134554, 104226, 169062, 25729, 35498, 137582, 257244,
       57536, 225982, 124496, 10283, 113984, 57749, 3322, 202543, 49655, 126176, 66324, 184412, 109573, 153709, 170001,
       91222, 191664, 67102, 53602, 73486, 235290, 22714, 8682, 77257, 20504, 135281, 63483, 32799, 219453, 101073,
       71988, 62232, 8273, 93663, 135470, 213305, 86533, 102383, 68467, 36691, 129955, 104142, 125156, 26756, 71890,
       96717, 163752, 57802, 72660, 77167, 139529, 80179, 121018, 233325, 54997, 214796, 56447, 32470, 156304, 237378,
       46658, 13352, 160822, 99332, 106270, 199793, 1886, 152919, 136628, 15213, 228887, 131219, 6029, 172568, 27312,
       5338, 106319, 189217, 112126, 243706, 197838, 92229, 220972, 231879, 62150, 239108, 103086, 12823, 83651, 110439,
       64437, 19918, 149349, 62058, 233816, 171417, 22701, 239990, 250739, 56865, 210598, 89669, 52232, 213004, 79451,
       80720, 184562, 257243, 83242, 260834, 259569, 5938, 22850, 206770, 49101, 58883, 240638, 82032, 186350, 251578,
       65947, 19840, 69785, 112261, 219274, 21135, 86336, 76463, 24831, 21356, 37021, 172464, 9249, 153841, 166789,
       84203, 47089, 190948, 3474, 233438, 767, 76778, 203682, 240994, 123237, 224973, 11277, 75428, 144557, 93086,
       50878, 54674, 204986, 84317, 19232, 234904, 60064, 32207, 175182, 71515, 21970, 21942, 123399, 177056, 63060,
       50607, 64210, 7673, 125985, 44454, 204498, 118666, 31284, 238864, 25662, 192838, 35140, 9091, 85046, 245056,
       13209, 45664, 151604, 2388, 97289, 255475, 12378, 216990, 71563, 89523, 16726, 41387, 9330, 219815, 226753,
       41808, 202850, 173417, 110739, 130222, 129263, 3050, 78423, 52399, 106754, 3394, 193409, 36943, 70526, 258366,
       15488, 26289, 99596, 91322, 192345, 45657, 82436, 208879, 204977, 115012, 3082, 8309, 96347, 60778, 260619,
       105313, 223479, 183663, 36966, 219020, 73610, 23257, 93292, 107101, 98384, 151185, 141870, 105753, 116115, 114475,
       129827, 128443, 79121, 54082, 163616, 180504, 48761, 40512, 1103, 101765, 262036, 162337, 44669, 210141, 257386,
       121996, 58767, 219643, 112513, 229693, 21180, 56229, 27566, 10554, 98418, 45245, 109220, 98899, 116284, 259117,
       13516, 170848, 183132, 118299, 108680, 206525, 66224, 115071, 31369, 108325, 113507, 194571, 41949, 141900, 51014,
       117378, 5401, 156272, 51013, 115981, 181465, 1420, 134389, 101350, 118670, 59352, 227710, 11965, 33370, 224324,
       41853, 20212, 246684, 124526, 136877, 66347, 124597, 256891, 137720, 75161, 170622, 56247, 82816, 43797, 84098,
       58778, 170775, 124849, 38431, 189338, 58950, 43078, 188557, 196078, 88148, 88886, 120151, 98615, 61426, 59192,
       103753, 222408, 3090, 103496, 217373, 12304, 11954, 148462, 83322, 64804, 172537, 106834, 7544, 89598, 251238,
       72027, 222734, 79433, 57872, 74940, 178546, 116353, 42635, 197771, 45995, 34740, 181629, 15344, 54519, 255563,
       18742, 53936, 35568, 99812, 189142, 68878, 81031, 20445, 240750, 13254, 92118, 170675, 11024, 12397, 20818,
       91877, 111672, 256786, 9537, 50533, 142294, 107722, 220644, 85356, 92568, 152357, 139155, 10662, 143491, 107872,
       11119, 222523, 185174, 129320, 215700, 213434, 49056, 110556, 252565, 48580, 211681, 97557, 106535, 69436, 155034,
       124157, 200680, 96885, 129237, 34455, 137236, 98746, 205913, 171932, 49317, 25269, 77171, 10944, 158843, 80412,
       101862, 52576, 200493, 73191, 42420, 131490, 55603, 164415, 176523, 118797, 178772, 142776, 14574, 229743, 57585,
       64569, 93760, 247106, 1488, 37991, 191819, 61428, 75410, 77881, 7379, 205245, 180698, 15573, 184004, 105351,
       15404, 104914, 166285, 85093, 76734, 135838, 97785, 155822, 90726, 76463, 81468, 210149, 126113, 230758, 119815,
       49135, 9594, 77335, 37448, 224021, 57718, 113849, 6535, 68878, 29307, 40303, 184017, 126251, 132301, 89120,
       1593, 29178, 89802, 127123, 251022, 88418, 5657, 14674, 159308, 116803, 238603, 28993, 69166, 220140, 185779,
       130149, 231147, 76971, 9672, 173888, 200666, 72594, 206770, 6618, 127048, 110611, 81590, 68563, 125994, 144480,
       82496, 141111, 131892, 91193, 45131, 102354, 59577, 158974, 244536, 82255, 76722, 108216, 76587, 64354, 93236,
       118116, 152764, 182919, 5956, 196074, 79983, 36826, 106741, 112149, 124572, 87566, 213164, 116688, 171620, 261509,
       59723, 220699, 86390, 81282, 5205, 243525, 36356, 237611, 114833, 24657, 109221, 155498, 60777, 229987, 103994,
       46314, 152890, 190068, 76500, 255300, 21000, 10188, 218716, 65101, 127715, 229698, 143435, 129264, 161140, 7774,
       91509, 118536, 71534, 70267, 58439, 162387, 40570, 105833, 70495, 106665, 194202, 81831, 89749, 22085, 95723,
       21314, 138274, 25006, 119397, 12563, 132984, 107811, 157680, 203462, 124492, 45674, 172909, 95121, 133012, 203851,
       80401, 145899, 81054, 54819, 249365, 48128, 122254, 154080, 111500, 113516, 190349, 54131, 5926, 236330, 51792,
       3455, 254825, 73743, 49343, 211399, 17349, 106240, 221818, 255522, 129404, 67324, 61139, 19715, 116064, 116700,
       77873, 236223, 233844, 49924, 33124, 158675, 127128, 162516, 69740, 110378, 55441, 179530, 109881, 110096, 67902,
       61432, 144137, 111777, 54371, 58146, 69767, 35836, 3075, 131078, 7389, 65299, 76524, 113340, 233649, 20679,
       106548, 147080, 207787, 131034, 260799, 256154, 130631, 48105, 201964, 72801, 142741, 209264, 100792, 188345, 232504,
       123832, 87489, 213067, 111364, 257632, 191297, 32420, 107581, 188145, 59053, 188980, 128871, 16929, 47936, 96800,
       125049, 98630, 86858, 79452, 136757, 13180, 29968, 175584, 216135, 88041, 39873, 207559, 81019, 79884, 1440,
       46945, 27204, 204513, 14884, 57861, 178072, 88024, 115839, 139011, 68197, 202105, 238534, 101229, 82900, 217868,
       68178, 228174, 207348, 111697, 35024, 260767, 72339, 139767, 210051, 73523, 68630, 165807, 114904, 194250, 184907,
       52885, 80279, 7526, 17565, 168826, 233771, 3772, 158059, 172270, 98977, 91848, 229395, 81305, 55971, 177342,
       92285, 37582, 23969, 27913, 167399, 54177, 17874, 126366, 5114, 1906, 104442, 261739, 45952, 55707, 175764,
       77321, 181154, 257149, 51412, 55438, 8597, 57340, 186903, 77734, 118509, 232889, 251039, 45646, 141708, 38339,
       67369, 165235, 113527, 102714, 253673, 21141, 51975, 171852, 72776, 81538, 38790, 11057, 113031, 192946, 156321,
       124455, 148683, 235084, 19277, 56437, 155394, 121449, 181719, 150838, 64502, 174788, 220972, 33848, 159504, 250717,
       60179, 220683, 194113, 128454, 217502, 242812, 64568, 115032, 245847, 43090, 34357, 140897, 83021, 30612, 102336,
       31476, 96087, 115391, 9943, 146313, 141409, 16892, 137077, 207226, 16783, 58773, 183533, 19910, 49766, 125023,
       18196, 93106, 158046, 84000, 192558, 25486, 23839, 101298, 79790, 45307, 79209, 100996, 117543, 222943, 216349,
       62123, 26243, 236042, 87498, 33529, 30474, 22586, 81306, 25024, 25203, 185145, 80048, 5356, 191698, 99196,
       22142, 172120, 89431, 36515, 103000, 259658, 23201, 30984, 37224, 11626, 109708, 123501, 15811, 258184, 212970,
       60395, 51035, 35080, 27044, 150244, 241072, 47745, 151840, 251550, 65983, 238164, 132507, 90491, 112978, 85246,
       5152, 188951, 164204, 104780, 83835, 45408, 82300, 41904, 19107, 10716, 83842, 258000, 114501, 182824, 48833,
       120700, 153952, 153408, 8005, 160000, 174149, 36290, 237790, 74732, 105670, 108565, 166816, 98075, 234392, 236765,
       24185, 141308, 126298, 27439, 218761, 96260, 48558, 136172, 145408, 63507, 103996, 116872, 81035, 233154, 143808,
       48354, 65160, 1057, 60625, 91832, 118518, 97972, 133903, 251498, 4808, 36901, 215274, 33087, 108834, 20429,
       93500, 41135, 239696, 117336, 144344, 46350, 67066, 153535, 236389, 69745, 46855, 209943, 14047, 65502, 1844,
       58643, 61274, 173420, 69811, 55141, 176669, 31781, 24602, 221906, 35290, 65212, 203353, 49451, 102190, 174240,
       2630, 202384, 98320, 42215, 146903, 58132, 27714, 239382, 219233, 42925, 192137, 12033, 15697, 121147, 184392,
       116723, 50263, 206904, 77803, 91769, 88160, 89011, 78426, 237686, 103438, 66214, 25859, 65331, 213882, 202642,
       11392, 213909, 145507, 70399, 164796, 164247, 76918, 115086, 205001, 97706, 63638, 40126, 56578, 125840, 131435,
       16722, 53856, 253176, 37195, 19798, 101289, 47589, 241894, 81194, 84661, 174235, 140020, 74813, 14142, 145334,
       46674, 81279, 144548, 129304, 138068, 149215, 79400, 30703, 6581, 31093, 207105, 243478, 13340, 218169, 179620,
       20035, 144989, 139289, 32238, 44924, 230505, 21060, 217305, 212149, 24453, 186902, 130870, 37367, 260558, 79013,
       22724, 111118, 64826, 117540, 219607, 165778, 10516, 104205, 57326, 68748, 198404, 175656, 53791, 139698, 110659,
       128762, 86527, 77966, 14685, 42725, 139520, 52147, 191123, 119431, 127070, 112362, 223681, 113443, 196609, 93533,
       107095, 70905, 161793, 33803, 220029, 165593, 22398, 151481, 16095, 87640, 105938, 36840, 121815, 44471, 242499,
       72976, 6792, 254123, 74922, 109690, 3824, 36697, 110038, 177506, 100858, 256308, 131034, 24516, 51959, 211414,
       42425, 74678, 1005, 55762, 210995, 19339, 66533, 133052, 125640, 31773, 33671, 167522, 15051, 233909, 13344,
       80035, 49860, 144586, 37831, 100630, 90776, 76184, 14721, 147485, 20232, 165102, 156151, 63063, 260946, 22125,
       69807, 147352, 8932, 6792, 161118, 137102, 44119, 103796, 76703, 17618, 140, 115972, 8306, 179340, 137370,
       129756, 17715, 168558, 42251, 147631, 65618, 106151, 226326, 129561, 33376, 68131, 141332, 89325, 242432, 181925,
       99644, 153629, 229164, 78071, 147065, 34222, 61810, 113819, 42488, 53980, 212939, 88630, 45726, 225819, 82577,
       121835, 63961, 206105, 108870, 248254, 254142, 126488, 1896, 152222, 16291, 232174, 218141, 95796, 68605, 177719,
       122990, 42036, 125950, 23754, 152161, 21631, 8715, 209389, 44840, 97140, 43448, 191028, 75297, 89100, 81848,
       110340, 47560, 17749, 18320, 64211, 249788, 104237, 72640, 33683, 26427, 182476, 178652, 21450, 186579, 61332,
       21530, 169519, 188658, 106767, 245820, 88365, 87188, 191394, 63489, 68559, 60648, 108456, 47032, 164944, 248073,
       114976, 112534, 158992, 51438, 148142, 221094, 107033, 84339, 183197, 57558, 76214, 190921, 49406, 225510, 82540,
       60644, 95647, 201849, 39502, 52618, 48221, 97990, 172144, 83528, 65892, 148627, 219279, 30436, 152666, 255010,
       117909, 10084, 57519, 50317, 102280, 40767, 71244, 146961, 14284, 118813, 29498, 165281, 81820, 32138, 254128,
       15322, 15726, 123523, 123185, 177237, 52649, 82274, 249019, 5394, 43896, 196273, 155112, 18254, 175402, 179063,
       104074, 123104, 243545, 81274, 46206, 217172, 69921, 212925, 213383, 117164, 75666, 190478, 103363, 3583, 107298,
       19880, 86464, 161270, 40858, 9140, 258735, 32569, 253895, 82422, 97510, 138532, 167972, 4395, 42804, 95267,
       74696, 152246, 209821, 99936, 258174, 120392, 114919, 111553, 48925, 44837, 88858, 90833, 107643, 219529, 88926,
       14500, 189536, 256460, 110946, 51060, 260061, 16710, 50842, 160750, 52073, 62848, 153568, 104503, 25738, 53562,
       19649, 256124, 133042, 30048, 115048, 181541, 94667, 23237, 157754, 94376, 164867, 32502, 84036, 131737, 52777,
       90957, 55184, 201886, 71135, 256439, 89612, 33003, 211353, 92148, 45311, 17107, 173146, 23802, 98549, 137139,
       119072, 113239, 179885, 76466, 86330, 52914, 52540, 104044, 115552, 60556, 6473, 186117, 124162, 84381, 112005,
       20100, 19689, 113827, 76838, 82979, 160889, 66307, 220441, 210611, 80144, 138817, 141551, 2373, 193465, 230809,
       114311, 6551, 209322, 122174, 159258, 43631, 74073, 35819, 52463, 91311, 109258, 68594, 120913, 219909, 234300,
       92699, 47782, 196609, 19993, 156613, 115119, 75535, 70239, 224252, 79523, 92945, 168798, 55591, 171795, 208192,
       96527, 57370, 180151, 122469, 92631, 39988, 121316, 30441, 35564, 59092, 109599, 115228, 14842, 88380, 102745,
       129085, 27690, 97845, 109956, 13103, 183014, 16339, 206294, 104239, 120696, 153941, 7728, 114019, 14671, 191294,
       68005, 37178, 55909, 77499, 171419, 162782, 52298, 21601, 26806, 7177, 188094, 138388, 43934, 255028, 164739,
       105231, 159177, 176740, 607, 33690, 144890, 43712, 105757, 66172, 52188, 201066, 29667, 70437, 135389, 15897,
       120567, 82668, 72828, 45396, 68727, 57470, 45475, 222843, 24711, 96665, 200171, 32613, 59273, 28822, 75881,
       29439, 105736, 107150, 59302, 39913, 174027, 18462, 107839, 143122, 23119, 103571, 229056, 65322, 15914, 97362,
       54909, 103944, 176439, 119910, 178767, 193234, 47499, 181703, 211524, 76098, 229703, 16335, 82872, 37944, 90410,
       1716, 82998, 116989, 86971, 44675, 231856, 23335, 139001, 193613, 125969, 107125, 131381, 19485, 136590, 175682,
       54345, 160732, 84357, 11186, 249480, 256336, 130662, 79151, 58325, 65823, 184652, 182597, 78038, 79951, 90139,
       8791, 222309, 187023, 98298, 214637, 67622, 27512, 195532, 195086, 117709, 202329, 116148, 26888, 16503, 227370,
       24993, 215199, 260532, 4790, 167264, 182935, 61874, 198870, 42098, 74034, 224662, 101744, 8612, 147531, 72204,
       101649, 250550, 209493, 59413, 124295, 20399, 68732, 231048, 215143, 57771, 171643, 41553, 52528, 213887, 61619,
       73353, 46531, 244110, 20347, 170266, 95226, 23845, 179285, 156468, 112955, 252947, 86208, 124009, 64448, 217850,
       48930, 104517, 185932, 35487, 12005, 194559, 84410, 80774, 210786, 53573, 158668, 260031, 3327, 115450, 158976,
       20467, 61142, 258460, 93843, 239069, 249142, 86366, 125544, 116400, 3551, 137869, 63172, 29094, 87872, 260957,
       30287, 114226, 53727, 88066, 85377, 107483, 2583, 130968, 87173, 13645, 188758, 223723, 104846, 157585, 203827,
       23402, 53987, 49776, 85556, 193422, 136505, 31219, 24504, 138452, 13033, 257486, 42108, 31873, 17149, 30033,
       94668, 254618, 109716, 112157, 222158, 145132, 108818, 151542, 114878, 52059, 167665, 201559, 87567, 66852, 30658,
       26867, 183912, 9550, 38423, 120402, 246796, 117484, 138518, 66271, 1704, 49314, 28741, 11207, 202940, 102650,
       27248, 17625, 31665, 3477, 164895, 112953, 23781, 27616, 96910, 76420, 111012, 154388, 55236, 251316, 55105,
       117004, 69865, 31390, 107143, 252319, 246123, 44802, 179285, 257336, 34003, 38867, 59631, 49767, 11356, 247243,
       77371, 36360, 199857, 35135, 167124, 169752, 81808, 116824, 96780, 53662, 105926, 26643, 72357, 243292, 227022,
       57163, 255964, 113616, 38596, 56632, 51037, 124315, 176121, 126903, 100087, 88775, 162069, 18364, 239645, 64201,
       113831, 218768, 219890, 63888, 152572, 66592, 117250, 196472, 155387, 104838, 164654, 162379, 55733, 153212, 27069,
       2945, 25475, 49587, 35216, 20669, 228552, 70993, 20914, 237119, 83031, 67431, 13844, 33801, 224055, 213363,
       18265, 178085, 35092, 109435, 255851, 250663, 129027, 147489, 226154, 68903, 69094, 143264, 22502, 91056, 249769,
       35691, 226990, 234636, 2410, 131794, 152429, 119838, 255111, 155553, 15433, 228048, 171424, 75565, 43903, 134016,
       35920, 253201, 51616, 72637, 57447, 194906, 85382, 255103, 92015, 108755, 240568, 97481, 27056, 12827, 74489,
       1441, 64291, 221445, 17941, 228931, 131872, 117967, 63812, 58612, 114542, 136379, 115147, 78304, 34112, 49033,
       78710, 247970, 19163, 87167, 180094, 140012, 22986, 69266, 200110, 119853, 210390, 145590, 54889, 23655, 136751,
       50218, 192197, 92618, 68015, 152428, 10808, 6155, 242010, 154946, 21795, 24565, 107100, 96735, 142127, 52155,
       10852, 153879, 33098, 79056, 92613, 97621, 32158, 104465, 123712, 51025, 197846, 76604, 37839, 174447, 241568,
       46618, 192490, 97386, 94246, 205752, 186754, 38944, 88476, 69099, 74239, 206835, 5908, 62396, 230245, 142144,
       86988, 185332, 64554, 122792, 38690, 146886, 96019, 180859, 220532, 28172, 174405, 25499, 4087, 61834, 52363,
       34375, 123945, 124663, 77998, 14295, 113139, 6740, 126936, 178365, 65059, 187892, 141687, 78229, 101159, 156255,
       43810, 3999, 150243, 101045, 1145, 106103, 13972, 12120, 42529, 9848, 120409, 260644, 95445, 41065, 176986,
       64945, 9908, 120832, 90230, 73113, 42265, 56993, 180597, 177856, 32296, 106771, 115068, 107361, 99347, 238007,
       104781, 9984, 156993, 91055, 67063, 191638, 35670, 159233, 90433, 77362, 187162, 102760, 47313, 149584, 140697,
       12003, 221646, 184062, 120234, 32758, 77932, 17933, 24010, 63824, 124549, 133808, 205368, 58458, 227717, 118743,
       24265, 194838, 51520, 71028, 10741, 76473, 114418, 198338, 38917, 95974, 47267, 149695, 105717, 152770, 82097,
       86348, 14009, 97111, 90738, 19363, 34415, 111305, 202491, 7251, 32724, 127207, 68455, 64149, 238245, 143188,
       28994, 95409, 118712, 129455, 162829, 54663, 123739, 195499, 130776, 5167, 196875, 80308, 92481, 39062, 156112,
       121274, 38655, 218758, 23668, 97422, 75100, 74441, 188025, 37169, 119994, 231248, 23814, 4449, 96286, 223813,
       91412, 70587, 37240, 38974, 33841, 80045, 121162, 120093, 134269, 127278, 143211, 254604, 123766, 235211, 159255,
       62156, 53950, 193075, 112989, 171534, 13093, 110696, 204148, 135471, 41825, 35973, 194838, 108647, 159653, 1033,
       4850, 174246, 116088, 78154, 74845, 95026, 30147, 188303, 139817, 15802, 247163, 39804, 10086, 107490, 146690,
       91263, 252295, 196050, 44548, 23920, 237039, 94996, 165223, 143727, 8566, 101266, 141952, 41325, 192717, 214461,
       70712, 53129, 217784, 103641, 174761, 100591, 41779, 138428, 233590, 82036, 218757, 42738, 116126, 229485, 69511,
       80722, 110048, 111761, 30534, 121706, 231095, 3198, 67958, 67467, 114045, 157181, 138248, 2787, 216064, 15939,
       114648, 235311, 126108, 69328, 222306, 77268, 123085, 126190, 194777, 104698, 30481, 243165, 130801, 57602, 112268,
       45968, 130829, 127680, 100556, 236822, 174879, 52681, 232969, 163780, 62898, 67450, 216011, 82248, 103828, 176644,
       114514, 159045, 144667, 128985, 206693, 252069, 100699, 34839, 124526, 54757, 138326, 29055, 55228, 27525, 200517,
       96676, 101563, 121001, 31296, 261632, 224570, 14480, 16503, 165558, 46481, 9292, 8581, 37648, 259290, 84511,
       38837, 182967, 47618, 30619, 114070, 212804, 5517, 62534, 256902, 2342, 202473, 12270, 129462, 196363, 143071,
       56069, 21020, 6214, 50374, 121188, 67453, 89082, 191007, 224399, 28606, 255220, 220834, 124513, 81868, 74780,
       103067, 213314, 78527, 11719, 73110, 175605, 54733, 38651, 124940, 115227, 208354, 93044, 123827, 240025, 210869,
       61263, 65767, 92624, 80401, 15101, 60643, 21893, 124094, 78203, 129914, 119056, 166860, 30365, 176486, 210905,
       123565, 193750, 126717, 85150, 127291, 6740, 79657, 72660, 168947, 67199, 28446, 211477, 30234, 92684, 4721,
       23137, 231266, 85772, 28899, 149001, 105742, 24436, 219125, 16039, 102181, 182483, 133341, 45891, 161996, 261368,
       7581, 145569, 58496, 127022, 57655, 99339, 115839, 152964, 176856, 121602, 91032, 236496, 130404, 146310, 106971,
       22792, 209218, 162461, 51936, 61315, 236838, 99383, 218493, 194957, 91228, 213503, 16242, 20171, 116453, 194944,
       106932, 230518, 163963, 29417, 229279, 123724, 29336, 58303, 119309, 70382, 81672, 242609, 77717, 215781, 26185,
       76033, 15580, 50453, 11991, 95093, 26900, 115010, 144228, 36558, 34812, 191045, 230057, 16975, 204410, 7672,
       116489, 259083, 94483, 125259, 40154, 42347, 113000, 207369, 17858, 106104, 233556, 62167, 85883, 229870, 127640,
       72201, 256188, 56214, 11401, 138568, 9459, 53536, 204352, 177777, 48849, 7681, 78912, 34046, 117426, 26963,
       94820, 31756, 128082, 64995, 111240, 90766, 10622, 233206, 79488, 28859, 223516, 6298, 89556, 24292, 258700,
       9978, 163581, 214351, 111569, 102927, 196177, 64899, 221666, 6292, 62991, 116356, 30468, 77648, 19176, 17697,
       108092, 152978, 67541, 45588, 12713, 131248, 88868, 244619, 54368, 74151, 162525, 81311, 34999, 243643, 230932,
       115163, 206981, 116035, 104520, 58590, 65317, 86304, 156990, 207905, 111487, 117544, 73192, 113677, 258345, 16364,
       92846, 144725, 132716, 109709, 2877, 27432, 91418, 256750, 27034, 89147, 107803, 24517, 81082, 165298, 246842,
       98660, 19760, 115530, 20788, 180449, 183266, 115457, 129014, 25352, 114274, 72055, 42027, 3833, 131041, 11088,
       108241, 118785, 83142, 16891, 60625, 237610, 43924, 183098, 138422, 97453, 29928, 164504, 21071, 31744, 75169,
       107212, 150414, 100276, 109069, 128705, 183177, 66514, 212546, 58776, 837, 2353, 115871, 37622, 173589, 138712,
       80861, 221523, 148634, 128606, 9103, 83923, 82813, 16413, 171973, 34052, 255584, 113773, 83100, 103682, 84550,
       70776, 252625, 152549, 102215, 234784, 231439, 14022, 43592, 140455, 99749, 117764, 188087, 70944, 234094, 171347,
       126221, 75479, 18639, 44809, 227684, 102422, 82919, 4397, 249381, 122162, 206528, 248224, 13436, 40649, 244996,
       122844, 108076, 126062, 90162, 146117, 88775, 8891, 141298, 133237, 39447, 235050, 155362, 92821, 139461, 97512,
       8827, 203957, 103398, 76306, 64633, 61581, 45335, 153102, 216960, 81384, 167443, 31921, 5995, 131034, 57187,
       114234, 18941, 125300, 127597, 38317, 18186, 126992, 198770, 43339, 98258, 95653, 204171, 17050, 173976, 43342,
       99387, 19298, 53671, 3222, 172048, 209792, 2899, 203986, 80560, 42416, 62559, 49645, 64047, 115409, 159678,
       100978, 220480, 168359, 89560, 233728, 69087, 58445, 94248, 180407, 35864, 208247, 248011, 130695, 26865, 194440,
       55860, 114202, 42353, 59164, 52442, 177655, 21446, 131462, 240692, 104177, 72659, 114220, 90922, 83020, 100625,
       28936, 187351, 6940, 10797, 222405, 220890, 89194, 106042, 234289, 85788, 24609, 162999, 35816, 176350, 58171,
       124631, 154358, 154293, 19799, 120584, 3510, 56666, 258747, 53775, 123681, 164072, 219748, 55014, 130779, 126925,
       83692, 228854, 240449, 52113, 129218, 153114, 35941, 245105, 59895, 128971, 240719, 225367, 53652, 59474, 28872,
       117191, 97209, 118542, 30140, 159934, 244914, 27932, 15667, 76530, 4080, 211422, 62767, 85415, 71863, 5388,
       48303, 127120, 16796, 113293, 43128, 186727, 62024, 149131, 17720, 126903, 12840, 201040, 24317, 52532, 38671,
       113852, 46103, 88633, 101790, 26919, 88200, 101046, 70260, 38160, 110727, 112007, 202040, 99748, 245508, 150115,
       82079, 249035, 256965, 17202, 138571, 80478, 4263, 71145, 112728, 120697, 96759, 179013, 80825, 154671, 125166,
       104403, 192886, 77832, 63114, 25600, 82667, 15375, 214681, 45031, 16408, 92315, 123325, 89858, 108351, 97053,
       56401, 14222, 249992, 26283, 46393, 193534, 64434, 73513, 44910, 8415, 260518, 206827, 76280, 40787, 114535,
       35257, 131991, 28198, 104537, 174702, 238857, 40679, 199931, 260560, 59666, 161318, 76715, 1523, 33398, 245692,
       9495, 198830, 51615, 51444, 239973, 68037, 62906, 142329, 137143, 78645, 234168, 210562, 38228, 209064, 49248,
       91092, 174529, 211595, 112737, 252403, 230175, 102216, 164840, 105270, 5192, 240825, 109324, 62981, 1727, 205882,
       13753, 107045, 93336, 31725, 85018, 82537, 129323, 220050, 39728, 18677, 46084, 184055, 65390, 70267, 126676,
       81022, 238133, 222689, 92073, 128088, 152106, 73354, 71366, 158862, 1280, 179440, 250819, 42789, 245522, 141181,
       67857, 131208, 200803, 11516, 219617, 243419, 45957, 97813, 32030, 4351, 261587, 19817, 10299, 115547, 156538,
       52025, 138322, 119601, 17395, 83706, 60658, 74388, 187187, 110081, 90369, 144817, 119969, 104934, 131026, 75714,
       26234, 24330, 142337, 21952, 72619, 162182, 13705, 240115, 156445, 83418, 48671, 209796, 92599, 48869, 113417,
       4140, 15512, 68896, 122711, 55453, 223025, 6811, 256924, 239523, 70948, 207948, 131592, 92937, 257007, 107915,
       114159, 174322, 136765, 93596, 210336, 20445, 105084, 27080, 145809, 44492, 108956, 193473, 106800, 198524, 1573,
       10500, 213161, 44551, 117285, 107149, 148995, 71774, 7320, 250038, 107124, 223688, 173312, 59286, 68731, 29197,
       84355, 4106, 113521, 68996, 170281, 257914, 95890, 236400, 74304, 10699, 106169, 145647, 7910, 122775, 230512,
       32388, 82598, 124600, 20911, 220282, 182296, 114266, 108957, 165139, 28732, 213844, 59890, 127908, 160120, 96139,
       44157, 158654, 140362, 23870, 146655, 49595, 103507, 95087, 4132, 86338, 38155, 46500, 65299, 133417, 101756,
       72792, 160261, 89247, 94267, 56487, 61691, 29944, 5205, 19016, 130591, 125578, 229252, 127768, 23422, 73104,
       85239, 128020, 228270, 26154, 112231, 61579, 89158, 229688, 121542, 9463, 49771, 28926, 4017, 179508, 30419,
       33775, 3031, 40846, 60636, 240172, 155580, 113806, 56053, 251611, 95311, 132202, 123806, 97348, 7640, 167456,
       55770, 68768, 252652, 45342, 102588, 65451, 48632, 207812, 140853, 129453, 53377, 62990, 5257, 50315, 22264,
       113643, 144771, 152814, 75848, 37526, 142329, 57490, 52487, 137619, 95060, 254821, 66029, 63788, 176027, 48315,
       114481, 86681, 4517, 118056, 208330, 261294, 55275, 211111, 178884, 36284, 97789, 258507, 77640, 142152, 174786,
       119585, 75611, 247113, 27611, 239714, 69434, 81653, 124791, 65032, 82779, 225750, 4064, 96090, 154684, 95099,
       17244, 220102, 171980, 93824, 159847, 199073, 119148, 186266, 19655, 23551, 111265, 243892, 31135, 73055, 117768,
       127322, 182915, 60160, 23721, 2921, 192932, 111985, 252433, 182974, 64523, 221039, 239688, 32405, 18712, 244503,
       114130, 244071, 179653, 58367, 13207, 206336, 67478, 36756, 86563, 47085, 114345, 165425, 77719, 66584, 101435,
       21433, 105126, 247346, 51259, 219983, 238525, 127062, 212838, 40832, 33834, 17115, 168946, 86079, 206594, 81732,
       42623, 81814, 166103, 101380, 175513, 70983, 17153, 228709, 142842, 127116, 100668, 178030, 59479, 26940, 20068,
       30939, 158946, 60208, 9633, 95857, 41481, 22250, 133204, 185513, 68127, 212594, 232537, 44171, 178347, 95405,
       108643, 104997, 82229, 56477, 75891, 14434, 32599, 125078, 130652, 80890, 112114, 219503, 92638, 184384, 169636,
       21894, 135515, 253805, 21970, 48737, 30356, 4806, 156571, 4657, 96521, 179547, 84778, 87006, 49032, 151795,
       62210, 214472, 36260, 110647, 28596, 151705, 105600, 209266, 70876, 76723, 148701, 62741, 113806, 13966, 231710,
       26980, 5002, 56595, 14669, 138504, 197150, 35356, 162812, 155557, 7482, 128031, 125967, 69621, 118587, 44436,
       122762, 204813, 61444, 5156, 219299, 220400, 16005, 49977, 137232, 59270, 165422, 21671, 122404, 227094, 175696,
       41439, 55834, 117202, 66484, 73621, 177130, 5449, 9904, 47504, 19443, 167781, 191108, 129319, 152954, 223779,
       126500, 9903, 159315, 647, 129284, 117761, 124755, 229202, 189123, 83770, 190969, 29628, 113759, 206228, 133360,
       59603, 173633, 21362, 67580, 53125, 147558, 64074, 25943, 188558, 87407, 60808, 66772, 18304, 96800, 49762,
       3928, 183073, 255577, 40360, 260388, 195780, 92363, 240368, 155678, 26457, 87995, 163085, 88268, 35625, 149360,
       127128, 81712, 56981, 12307, 197819, 24207, 88159, 79911, 256362, 58163, 59964, 12501, 113789, 37110, 161687,
       23219, 98881, 93970, 90783, 227753, 99059, 109853, 117242, 138833, 123812, 124511, 214950, 89554, 179716, 126902,
       65165, 181054, 131519, 80982, 124116, 184696, 113889, 29917, 89092, 74790, 251844, 194237, 3982, 234012, 250639,
       122021, 80587, 170565, 90377, 170475, 47583, 88671, 252313, 198192, 28268, 255216, 226516, 86361, 114387, 175834,
       51624, 156074, 195220, 85358, 107155, 199077, 13971, 94809, 61566, 86225, 26152, 203839, 130995, 40858, 227594,
       6319, 65105, 114440, 128080, 45789, 211890, 53334, 62974, 77137, 114131, 103872, 162924, 102548, 217623, 42811,
       74319, 250441, 236850, 96790, 3867, 244335, 115148, 207526, 139193, 52971, 125891, 233009, 42864, 233452, 255002,
       87502, 209776, 45120, 105885, 257766, 197175, 99914, 62176, 194022, 104571, 8017, 52980, 57092, 203486, 114965,
       107195, 43616, 45114, 15756, 10827, 261759, 71367, 72102, 42759, 754, 209492, 17195, 42544, 29857, 87409,
       48032, 221852, 30655, 51927, 38544, 63010, 91156, 72801, 101566, 50929, 22924, 109033, 58811, 44696, 183574,
       31135, 100747, 182411, 48922, 225137, 202212, 29788, 179459, 197857, 9593, 245398, 75444, 79095, 56107, 31919,
       87583, 258980, 130927, 81197, 219842, 102799, 60751, 23936, 29884, 49779, 73866, 221537, 113158, 227571, 151653,
       68037, 23000, 229335, 62807, 85738, 11678, 3360, 250832, 84979, 44728, 9243, 231498, 49833, 38, 37202,
       52274, 130950, 213828, 76044, 92478, 260527, 69940, 92538, 8923, 79679, 88164, 251008, 100254, 204172, 170405,
       106559, 174783, 52476, 94125, 217015, 43429, 125242, 105349, 114278, 2389, 204754, 139648, 25661, 3182, 78825,
       991, 73701, 146501, 84865, 211218, 64945, 117706, 173044, 103014, 31913, 186535, 157660, 121508, 71265, 78400,
       7899, 96306, 123589, 122478, 104570, 175874, 46087, 233009, 211532, 13293, 112938, 152277, 63684, 48030, 11023,
       33656, 57221, 238469, 37338, 225707, 142759, 40277, 28909, 256666, 105254, 55176, 67794, 70668, 248212, 188378,
       40803, 189462, 247553, 79997, 175543, 187370, 93867, 78950, 98496, 35733, 97786, 10921, 54204, 185554, 192033,
       15975, 223877, 197957, 23743, 159263, 142868, 89275, 125660, 2737, 23781, 127692, 195024, 68834, 56367, 66530,
       92936, 29259, 154990, 14008, 149963, 29427, 74358, 195887, 109702, 33628, 51690, 247630, 126212, 196972, 178001,
       63379, 77334, 73917, 105643, 14544, 218012, 72119, 76895, 162130, 5690, 43910, 205466, 82988, 109340, 196584,
       124702, 88832, 173410, 78854, 121763, 84990, 107372, 189315, 231956, 115894, 186007, 247955, 29894, 228555, 52016,
       27793, 37029, 139228, 80082, 131116, 194511, 53874, 84828, 93785, 110082, 78823, 238058, 117967, 217797, 27746,
       46323, 169614, 130832, 31047, 25665, 116685, 102305, 10573, 85849, 36019, 98747, 99946, 107821, 184537, 236089,
       55540, 57771, 231922, 87497, 26319, 62829, 12522, 1220, 69198, 81770, 128294, 84991, 59214, 24428, 138902,
       76887, 247591, 42953, 22021, 251196, 57752, 96583, 135134, 139057, 113088, 141177, 15818, 28408, 136073, 13546,
       12545, 130605, 178826, 3098, 93519, 246828, 84144, 128058, 247206, 79573, 7732, 205431, 71656, 189603, 83352,
       30401, 201793, 199823, 51236, 217761, 208657, 77919, 53006, 252806, 65112, 59172, 77134, 129471, 6214, 74004,
       17883, 113048, 221252, 91113, 258733, 4026, 52994, 227953, 87960, 56124, 256882, 32105, 94056, 255417, 124862,
       90758, 259844, 13159, 129925, 237399, 83636, 16828, 234961, 154404, 13645, 225434, 111193, 94940, 140886, 86545,
       75810, 86503, 213476, 35934, 206277, 207465, 10409, 171843, 213184, 11227, 104357, 50907, 117203, 101272, 134266,
       25148, 113766, 184577, 42384, 250973, 246613, 29708, 80727, 249425, 46530, 19869, 260015, 9099, 136817, 67356,
       68034, 53716, 250860, 8862, 29867, 109646, 104904, 86033, 236582, 30633, 28835, 231490, 70780, 115781, 108460,
       115353, 190359, 199195, 85311, 209326, 29825, 69855, 220987, 24188, 42511, 19316, 250560, 43647, 59440, 189573,
       87750, 260621, 104530, 130303, 218720, 233298, 86748, 153692, 239529, 73109, 206590, 220988, 95767, 215922, 69783,
       60975, 112725, 103233, 7882, 256148, 157706, 73701, 96534, 189910, 125517, 225782, 48871, 22977, 80546, 144119,
       90440, 84161, 62516, 26336, 204587, 168388, 70232, 1640, 216617, 12671, 150892, 54634, 59031, 5074, 100256,
       99111, 220160, 82992, 45556, 234573, 4822, 87151, 81147, 51514, 104261, 56953, 149672, 121527, 13409, 242936,
       30755, 1822, 177268, 52339, 35577, 101225, 19977, 123653, 33225, 130086, 209084, 188255, 121503, 228292, 199635,
       70773, 68414, 98597, 110366, 258987, 240900, 68283, 1047, 207057, 81734, 163393, 210790, 11681, 188105, 184263,
       98994, 210909, 94284, 16739, 173467, 202511, 108274, 88193, 196775, 102501, 258344, 204951, 92896, 153360, 40871,
       4739, 160798, 30972, 39731, 167738, 53338, 34486, 181079, 122859, 47203, 209505, 134437, 11487, 133720, 172588,
       122808, 245309, 51947, 72587, 253570, 128295, 40045, 178899, 71629, 52033, 42311, 158362, 58615, 191729, 65818,
       78721, 26335, 150519, 67591, 35113, 107908, 120506, 142793, 75142, 65137, 261523, 24738, 130044, 35473, 11348,
       111597, 254820, 28035, 27329, 233344, 77376, 121974, 255845, 177672, 15252, 98698, 44970, 107144, 201376, 197974,
       49889, 14764, 162994, 115077, 222856, 82623, 113777, 242872, 179319, 105634, 66596, 43825, 103550, 227894, 70128,
       39934, 237009, 156280, 10606, 66130, 148678, 52819, 109573, 225658, 22744, 53799, 97133, 91088, 164921, 64302,
       45363, 257781, 19571, 127875, 47250, 183135, 84013, 129006, 204228, 107804, 45203, 63391, 17370, 71802, 187363,
       112985, 252240, 82388, 120947, 165275, 60545, 63840, 47139, 166381, 79462, 205797, 250341, 100245, 39380, 81027,
       22916, 117585, 75510, 65872, 89331, 240167, 52253, 146899, 65902, 19185, 139434, 150618, 48173, 123679, 44839,
       8935, 126074, 112174, 3383, 57217, 147727, 17716, 135227, 139761, 126237, 111124, 123506, 72027, 245190, 220528,
       126592, 63519, 63169, 56688, 94872, 36289, 40870, 95471, 191624, 66341, 6880, 74168, 57607, 177223, 27439,
       13849, 178649, 254502, 83994, 101376, 22314, 28316, 145924, 138432, 81210, 165786, 66482, 85223, 41309, 101802,
       19926, 52834, 244836, 8041, 57232, 130264, 102335, 257585, 25246, 60266, 251958, 54885, 7623, 169084, 15205,
       130399, 30913, 23306, 7573, 108446, 155038, 91099, 172364, 32215, 128932, 200302, 43599, 31349, 213547, 180926,
       18644, 238355, 27586, 15910, 43720, 97042, 39750, 230723, 246199, 13244, 72493, 133220, 90722, 254641, 14214,
       8164, 186270, 57993, 66770, 256162, 25308, 130639, 13114, 156504, 106688, 186427, 146081, 80638, 11064, 137749,
       40141, 71980, 126003, 81775, 72103, 226822, 69080, 99289, 24134, 55847, 157625, 111482, 17132, 123338, 203415,
       116208, 258919, 164730, 58954, 45479, 116235, 25509, 147290, 179431, 48202, 249990, 138722, 54280, 213627, 78255,
       108467, 12333, 74215, 96156, 79715, 24159, 100834, 86774, 193594, 1445, 233279, 166866, 54546, 35874, 66520,
       63090, 194155, 41062, 2515, 149450, 85579, 34054, 62101, 7850, 99652, 185518, 86391, 17971, 63792, 147293,
       70164, 44446, 118158, 28206, 246354, 213936, 1588, 181973, 152479, 31614, 198561, 26343, 127909, 190002, 237818,
       105059, 18960, 142047, 125773, 165130, 239626, 63944, 1375, 21127, 14383, 89924, 15175, 71822, 38309, 104614,
       59556, 38271, 217438, 110671, 149828, 26459, 12855, 230694, 53705, 63994, 194592, 147623, 19667, 46813, 92552,
       42555, 241982, 86601, 96646, 227238, 219657, 62392, 169935, 140403, 49268, 112541, 53691, 51704, 208348, 12766,
       60220, 159076, 118696, 102893, 180468, 207848, 116927, 85026, 22313, 125217, 164634, 39394, 103141, 168, 163889,
       41341, 3313, 95622, 90195, 50383, 19442, 57357, 135443, 147512, 33380, 49223, 135825, 110214, 188654, 42371,
       5036, 162112, 205247, 118195, 196039, 256803, 60486, 202963, 61300, 83519, 71294, 219083, 86422, 219490, 237324,
       117324, 228723, 60779, 83449, 149050, 26990, 80469, 131811, 179326, 8736, 56691, 94013, 67948, 203489, 238450,
       19682, 249371, 15081, 96656, 240892, 261742, 67137, 249457, 125281, 89158, 213772, 64144, 5462, 39433, 192307,
       11113, 225215, 7617, 93889, 246184, 186934, 9448, 62413, 90550, 9339, 199706, 255351, 1587, 21513, 27824,
       125370, 144514, 51458, 96666, 182371, 58819, 46301, 96630, 67742, 38867, 134141, 221939, 45836, 79096, 134214,
       101535, 101617, 61011, 86687, 44232, 173991, 24273, 249946, 220040, 22820, 225129, 132518, 12896, 239756, 183948,
       86547, 51924, 161695, 100187, 223761, 154792, 34740, 43372, 162530, 2745, 78101, 39353, 10770, 106115, 197221,
       126859, 91878, 31093, 38724, 141000, 82874, 100823, 161594, 85893, 81875, 236793, 223781, 50061, 155306, 220647,
       26959, 220418, 175503, 15910, 94529, 101148, 80610, 256834, 194669, 101532, 209425, 191129, 84397, 214517, 187587,
       69507, 199546, 113601, 5498, 165349, 86123, 126941, 199506, 127708, 104689, 17440, 15674, 38380, 201849, 112733,
       128446, 175901, 45324, 78889, 215932, 110092, 76339, 79339, 156258, 98051, 117381, 83006, 106400, 75933, 215988,
       86045, 252712, 26067, 16789, 200715, 51464, 44337, 104476, 96164, 121645, 204185, 58742, 29440, 214296, 84671,
       48780, 177248, 66631, 56633, 47500, 215885, 57593, 181091, 129791, 80339, 56873, 236729, 123610, 219206, 23743,
       31548, 19693, 170207, 15925, 112301, 13490, 25882, 223358, 259062, 116251, 5379, 66849, 84647, 187390, 15294,
       37474, 98219, 233953, 106947, 208977, 34643, 112901, 127969, 24320, 110954, 85826, 41548, 120445, 141195, 70318,
       33061, 192674, 218658, 98964, 224312, 155247, 60363, 218362, 123129, 110362, 113855, 140804, 95484, 191374, 209763,
       101770, 136238, 60874, 86004, 116493, 206491, 23255, 247377, 245187, 71437, 201408, 213898, 129062, 165700, 248725,
       122865, 86154, 33133, 5658, 227514, 92924, 21602, 159259, 166092, 17265, 250031, 114371, 95155, 167447, 136038,
       107188, 198903, 19192, 27985, 94845, 7575, 66303, 32550, 150230, 110192, 164439, 170448, 96049, 200297, 218788,
       71072, 30146, 24998, 77378, 13758, 82965, 66631, 218524, 172168, 39000, 70939, 31001, 74058, 147494, 210176,
       90293, 150552, 464, 114468, 47507, 198241, 83399, 256992, 143508, 99761, 189295, 13875, 20980, 238377, 46434,
       60497, 68494, 225138, 1223, 29903, 211961, 32332, 181437, 230237, 95218, 207073, 170760, 129998, 134727, 37470,
       12999, 123697, 170967, 52624, 173793, 61084, 104866, 236456, 87933, 26743, 94031, 156711, 72756, 24766, 10774,
       96085, 31696, 175716, 80738, 116637, 113883, 24644, 203952, 25777, 46580, 253280, 17441, 102733, 41097, 237526,
       72643, 151430, 48430, 685, 119513, 26275, 99744, 152279, 8068, 4628, 86485, 43568, 97744, 214530, 216031,
       26539, 139455, 231641, 125576, 159170, 57974, 48226, 191405, 174320, 42851, 152257, 158270, 19515, 14295, 142715,
       40056, 40824, 105297, 114904, 96640, 137587, 130591, 140063, 242954, 48275, 17506, 172025, 58800, 76708, 183890,
       94643, 73927, 205086, 116155, 118839, 158735, 77731, 132899, 74098, 51318, 14761, 193659, 54083, 44544, 126156,
       91176, 16173, 173901, 421, 216071, 115939, 81210, 213290, 189422, 46595, 47150, 109506, 104097, 8547, 64078,
       12188, 122982, 261028, 77096, 222175, 212649, 63042, 20610, 154163, 84190, 233657, 50232, 8500, 128538, 172795,
       76019, 166457, 186730, 73594, 238003, 249959, 73486, 220173, 135741, 79100, 87932, 149160, 88666, 1433, 114938,
       105511, 135834, 39134, 35365, 246789, 228274, 108140, 229714, 120494, 65307, 96674, 246836, 10100, 47910, 37731,
       7674, 101554, 6922, 43809, 74686, 250833, 102878, 4347, 100692, 92757, 40757, 188625, 103365, 89299, 61197,
       67799, 128389, 51360, 57697, 200031, 158970, 19326, 235295, 86101, 43016, 230844, 75873, 56887, 206140, 99495,
       11613, 9311, 22028, 28916, 13072, 2833, 78410, 153549, 39303, 96424, 219076, 64660, 130855, 106171, 211196,
       122305, 8012, 172369, 84222, 80172, 107714, 55213, 216227, 56003, 83385, 10367, 4874, 102976, 243501, 165840,
       15510, 147119, 155526, 53727, 14077, 190936, 110074, 148159, 75553, 50309, 197309, 114429, 74956, 115955, 73417,
       77040, 27699, 249485, 24179, 176016, 204679, 47478, 242170, 206978, 43845, 16682, 82652, 3433, 171699, 69337,
       3170, 226197, 253597, 109012, 51094, 36345, 35791, 245682, 158251, 67905, 162541, 257407, 39154, 146376, 89384,
       123296, 186126, 97214, 33986, 142810, 78216, 56315, 256313, 193614, 114390, 130912, 128457, 110353, 240246, 53372,
       24392, 179579, 29343, 105204, 16751, 106478, 60055, 123631, 252298, 63303, 182452, 194213, 17495, 127649, 151961,
       10564, 157708, 199113, 95412, 120807, 105332, 65072, 40936, 210734, 57258, 234695, 192556, 95618, 26881, 209577,
       100337, 80398, 173996, 20828, 107833, 172298, 79983, 112929, 163957, 17741, 34150, 26744, 98484, 61676, 50201,
       86108, 111736, 222159, 125385, 102659, 113003, 9038, 121928, 100374, 7478, 72459, 109129, 36986, 216073, 75925,
       34302, 75334, 153166, 32372, 1350, 145950, 118784, 157385, 132228, 32708, 136185, 146190, 35644, 260703, 7606,
       99535, 222573, 208415, 58948, 78808, 69755, 101805, 1604, 168713, 8567, 176424, 8845, 63906, 244186, 102483,
       4405, 210187, 237017, 8212, 21150, 168573, 118808, 149391, 228109, 18251, 44376, 145656, 69785, 116304, 180490,
       53883, 32197, 156127, 45526, 258070, 32689, 117942, 250684, 161686, 2860, 114363, 132874, 87004, 63372, 97011,
       126274, 9248, 200535, 73422, 95457, 216718, 122791, 50788, 189438, 6849, 142803, 244922, 54892, 20425, 171581,
       34099, 105375, 223586, 95790, 43390, 153922, 128620, 150010, 200544, 33623, 238117, 29113, 85743, 255161, 167737,
       25965, 13872, 247678, 74098, 253526, 156068, 60808, 146511, 7045, 127402, 178930, 115661, 79760, 232439, 168606,
       45810, 130862, 223334, 14954, 199941, 168034, 19824, 58808, 84425, 29532, 194155, 1421, 32894, 184086, 194799,
       111491, 248495, 10761, 73560, 155531, 143396, 68601, 234235, 3226, 15042, 258362, 56840, 112740, 60263, 109664,
       94740, 187786, 233760, 8869, 112074, 176998, 92777, 94860, 131778, 71242, 168092, 236569, 10711, 237113, 234263,
       60070, 100056, 212649, 63530, 29293, 191213, 21728, 104996, 22456, 123954, 143530, 8416, 111407, 254775, 83664,
       87690, 25112, 255853, 60594, 988, 175282, 53970, 244597, 210118, 85324, 103359, 214074, 71490, 221770, 102345,
       8162, 68297, 121727, 67174, 195868, 171860, 105696, 245083, 33864, 60193, 128250, 100617, 6810, 13771, 68515,
       103059, 14719, 77992, 26393, 40278, 257696, 33897, 249055, 69924, 21588, 102539, 126098, 43281, 248770, 41105,
       99188, 244673, 13517, 68076, 247300, 155738, 26854, 52000, 84139, 115058, 247464, 226785, 115288, 144937, 98217,
       114108, 119361, 106508, 31299, 130290, 88949, 59144, 221071, 106602, 129104, 147904, 48956, 101189, 57486, 221005,
       3560, 232845, 116257, 8546, 130072, 26971, 60808, 108375, 256318, 119173, 81480, 79248, 70608, 189284, 6936,
       65249, 73676, 98595, 13824, 170079, 56298, 86085, 126323, 166300, 107754, 184933, 191269, 49862, 107799, 239190,
       101660, 261232, 239723, 126415, 231730, 19916, 26708, 20271, 210020, 68593, 225816, 19200, 37635, 195675, 80679,
       103921, 3777, 239956, 75706, 83270, 201607, 83175, 258639, 252017, 104584, 53668, 137550, 51900, 168242, 35454,
       119942, 179685, 162851, 69865, 41861, 44243, 20703, 119154, 153708, 91212, 233102, 210231, 103974, 92202, 132326,
       41518, 153757, 12877, 112352, 52316, 250029, 118770, 2277, 178180, 36294, 111403, 59421, 128912, 33153, 211047,
       18443, 89497, 30627, 26478, 156680, 143183, 24146, 188253, 27640, 117177, 5051, 145390, 85759, 113618, 4362,
       19936, 160592, 44425, 57714, 18636, 115311, 80648, 89847, 195429, 10939, 210907, 94300, 115660, 20510, 30634,
       105329, 241853, 97246, 66218, 121169, 218813, 126763, 57597, 9042, 54756, 201084, 66033, 128989, 80671, 89935,
       87545, 159929, 169738, 83187, 165970, 181106, 21752, 10495, 66062, 115596, 9210, 216087, 56031, 243367, 254360,
       21264, 67361, 61753, 1652, 129199, 219261, 73368, 77847, 213858, 69127, 84743, 135587, 94287, 30930, 177566,
       116687, 236853, 182650, 10407, 256865, 8111, 95878, 185593, 53763, 24564, 120150, 60599, 112482, 257611, 236292,
       107356, 76779, 16055, 70882, 240924, 92170, 93092, 247490, 118776, 41202, 130556, 247669, 61756, 240870, 191831,
       107693, 155046, 216789, 60196, 211792, 104743, 46897, 87617, 27899, 64777, 108497, 191183, 108560, 74977, 61449,
       43936, 102022, 134044, 22775, 73278, 144447, 93325, 26652, 239458, 108262, 161558, 83347, 13190, 198072, 21974,
       31440, 204395, 144282, 18608, 144871, 202408, 45605, 98749, 93284, 59028, 105776, 252357, 98150, 43421, 33297,
       85347, 56687, 128292, 81386, 91539, 203405, 46186, 128188, 247908, 110290, 56014, 101225, 61772, 144599, 261293,
       128333, 63553, 4605, 83118, 72967, 253124, 16549, 202429, 68013, 88627, 247835, 58718, 42612, 8784, 162375,
       89958, 72960, 256163, 9128, 1198, 133008, 22922, 15658, 205991, 112163, 50855, 197210, 29776, 230397, 232288,
       109712, 171538, 158267, 36605, 72211, 191881, 84263, 214359, 35993, 90983, 184541, 208390, 67194, 179255, 46044,
       40017, 178524, 67298, 27871, 189713, 140872, 4350, 51139, 96404, 39838, 226152, 137998, 85611, 92610, 96383,
       122985, 128231, 84831, 114190, 134715, 153974, 100409, 168398, 181766, 103343, 97039, 33563, 87160, 236262, 27507,
       34116, 83622, 156433, 118907, 227295, 210250, 87914, 59136, 12643, 73458, 19499, 74646, 14547, 160355, 204053,
       58596, 121697, 40040, 60340, 20794, 11266, 113320, 21345, 181575, 71650, 72224, 258282, 49859, 225641, 174810,
       128031, 45261, 105567, 14512, 96890, 168279, 55384, 70148, 159389, 5508, 67691, 233222, 96980, 186886, 250820,
       120334, 34039, 93929, 36705, 13856, 164682, 112504, 146869, 44095, 38301, 164601, 8057, 119376, 122323, 122158,
       98823, 77235, 6484, 105500, 194262, 236452, 2360, 40699, 89250, 126197, 125599, 16827, 95246, 57743, 39665,
       39944, 87968, 217305, 108710, 109448, 95689, 36899, 143266, 152780, 114393, 154995, 41839, 14756, 35895, 241553,
       92233, 138526, 205334, 70870, 112913, 129834, 12652, 253251, 107175, 31705, 133131, 211716, 1625, 215441, 51306,
       61442, 93000, 173036, 39487, 115411, 21210, 78427, 239123, 1484, 38959, 145209, 247983, 39310, 261562, 247205,
       97411, 214681, 77312, 6310, 46608, 133631, 118344, 66272, 150287, 111707, 243936, 151784, 87530, 129876, 153209,
       77754, 193367, 37721, 116955, 228861, 50137, 24291, 156576, 78931, 10350, 169352, 4464, 31393, 20182, 148624,
       104146, 252745, 8998, 4544, 78957, 228260, 76389, 172356, 144396, 130473, 258506, 6599, 112157, 209298, 203799,
       68346, 243624, 172810, 8341, 141888, 154836, 108969, 206904, 99005, 78509, 81533, 6266, 15064, 130492, 214127,
       12302, 16262, 120947, 119226, 158984, 93662, 87713, 109278, 91536, 108696, 73232, 146759, 115209, 136948, 181159,
       74943, 90630, 114384, 67822, 190897, 204293, 56416, 257301, 11798, 41542, 215785, 34918, 56963, 94838, 234594,
       101433, 250147, 54024, 78895, 80727, 65226, 116984, 213034, 51148, 58114, 184875, 175366, 79572, 116722, 187624,
       82746, 194929, 257688, 77554, 243913, 244679, 92095, 160931, 193730, 31120, 230573, 43292, 67156, 142881, 187045,
       13660, 249915, 249356, 50398, 175305, 106977, 63919, 130552, 135305, 85488, 88643, 64215, 124588, 1605, 136735,
       78728, 140665, 16165, 97464, 89595, 226261, 66357, 79940, 223737, 83113, 74344, 48446, 9297, 59620, 57379,
       33343, 160768, 196027, 47428, 211978, 47208, 61930, 170138, 168388, 5983, 71400, 75844, 18353, 62525, 38615,
       36282, 158584, 59845, 127340, 192115, 83654, 43430, 82553, 21145, 63182, 22431, 95693, 25702, 241016, 66690,
       80056, 43378, 144662, 36789, 186233, 109533, 27130, 244119, 68698, 67708, 54409, 124234, 721, 171994, 172704,
       1004, 141580, 175949, 28713, 206293, 86290, 4813, 37336, 11718, 14159, 39752, 245485, 44415, 37494, 128476,
       105196, 133744, 69691, 74979, 146743, 246026, 67196, 100709, 152041, 38468, 43787, 95228, 122126, 215879, 32099,
       52037, 145617, 18517, 11415, 110920, 222284, 80880, 37329, 120824, 14921, 6792, 23452, 45249, 23009, 64184,
       66507, 130451, 37634, 114586, 24839, 155992, 64690, 36012, 237914, 92046, 120843, 126487, 130130, 128115, 92494,
       17234, 142061, 244641, 36009, 160042, 76600, 51717, 229475, 211634, 55289, 226234, 221312, 53873, 92897, 224969,
       118962, 102059, 199598, 93589, 180034, 24209, 79679, 92332, 183398, 40550, 26443, 252254, 107975, 223671, 240617,
       125181, 181236, 60943, 107636, 26552, 177399, 205, 37084, 235250, 83414, 104960, 141186, 6702, 109239, 183098,
       33765, 24532, 98150, 7802, 5642, 100410, 79140, 177631, 33821, 89992, 186945, 187098, 15006, 32426, 82517,
       50310, 138956, 233530, 59799, 218025, 168326, 48372, 135703, 163815, 15862, 259224, 172571, 54912, 85132, 181774,
       98458, 107238, 126417, 9307, 30567, 127237, 10509, 93010, 51579, 46500, 152767, 252128, 123433, 228713, 169052,
       87631, 40357, 105020, 88954, 164773, 128771, 47437, 151267, 88604, 77812, 80537, 69535, 1327, 239744, 144526,
       83374, 99875, 144456, 119706, 90909, 164843, 80291, 60199, 132728, 114517, 110635, 260364, 94892, 156323, 77735,
       15801, 218301, 181193, 118286, 94343, 177689, 8708, 243156, 59910, 69988, 48381, 200117, 18630, 51665, 242020,
       1534, 107185, 233278, 55316, 229256, 83396, 38671, 150898, 237603, 63701, 14869, 158452, 75654, 194918, 62495,
       5732, 253672, 260693, 16122, 75470, 223816, 73222, 98615, 81041, 44979, 165495, 118382, 95574, 59601, 21270,
       85497, 44817, 65652, 110835, 14435, 45220, 90766, 110042, 18705, 56351, 242791, 104294, 88207, 21267, 227894,
       36094, 199562, 232993, 40149, 32220, 158879, 103413, 226199, 29648, 58513, 25913, 243125, 104645, 80738, 95772,
       107796, 142963, 60707, 112402, 107668, 76594, 120145, 56002, 103248, 56490, 24857, 81696, 41794, 134115, 196849,
       76309, 250115, 39658, 48650, 81758, 192255, 78783, 260359, 5137, 92482, 144228, 157653, 90230, 163206, 159390,
       49093, 103810, 259636, 21870, 183594, 105082, 56430, 89509, 81152, 18690, 26123, 121446, 116666, 209347, 12621,
       45334, 222962, 89384, 20245, 91222, 257116, 3335, 128132, 108339, 84649, 60769, 270, 83480, 15873, 188182,
       44643, 175458, 205487, 9399, 110282, 178359, 53690, 230296, 150246, 40791, 235801, 241837, 88751, 145880, 227464,
       79400, 182919, 251094, 47788, 7639, 126138, 28559, 160660, 140694, 129503, 222863, 73463, 59506, 236058, 248080,
       90213, 125994, 221273, 18422, 146424, 219798, 63647, 55866, 129134, 3609, 76794, 59701, 66251, 3464, 44473,
       126355, 180770, 199752, 50358, 194585, 110458, 5111, 74805, 122998, 4057, 114668, 252485, 50854, 52586, 5887,
       20974, 206693, 60600, 3060, 211280, 47396, 99118, 112933, 169825, 60099, 138364, 233283, 37911, 233505, 76606,
       117975, 184277, 231457, 15222, 148318, 215384, 125294, 50527, 248961, 41152, 64377, 90608, 116444, 221809, 182634,
       79028, 243454, 179212, 108358, 49035, 161891, 128976, 150294, 151948, 37801, 230043, 94528, 125977, 249126, 211177,
       51050, 44807, 241182, 50529, 214008, 133691, 44615, 57286, 6804, 70963, 99066, 238001, 20204, 25978, 88311,
       72576, 18824, 67614, 71002, 87339, 24709, 99863, 260671, 54604, 109268, 43990, 175269, 57729, 138587, 48110,
       39627, 111059, 174229, 33991, 142517, 133041, 25509, 192813, 93259, 7555, 257921, 237573, 44885, 89517, 107781,
       35421, 237372, 44440, 126670, 68052, 172034, 73100, 2955, 124749, 45518, 77610, 79158, 76083, 12949, 63966,
       18244, 207103, 242937, 58201, 184102, 139854, 82081, 205777, 23533, 64080, 214069, 18639, 52661, 249288, 76391,
       130265, 182460, 13617, 115384, 161612, 242557, 81711, 17235, 107667, 74629, 112586, 232122, 81351, 55158, 34092,
       26386, 99771, 23439, 51791, 129573, 231720, 5172, 10458, 66792, 62330, 201909, 258601, 71175, 83432, 46493,
       29851, 160801, 232607, 126357, 49559, 212785, 119204, 9113, 98269, 94652, 198746, 127388, 69912, 13685, 96312,
       114028, 156681, 189603, 17124, 226494, 246459, 103613, 183436, 164247, 16360, 134670, 204920, 104098, 204462, 71698,
       36145, 106615, 130078, 114962, 4360, 215503, 123737, 127224, 57561, 19502, 258290, 254989, 60643, 214147, 79434,
       128579, 256279, 256937, 63361, 47041, 47980, 113186, 236157, 244937, 77166, 57165, 111818, 49195, 63357, 210515,
       37458, 58245, 195481, 26636, 224656, 14206, 99850, 108144, 249894, 50664, 167067, 19230, 67013, 235243, 51402,
       64530, 22364, 194151, 75665, 30649, 205367, 113452, 243172, 256862, 128547, 122484, 191547, 53422, 230001, 137545,
       108464, 146842, 37210, 100208, 49047, 104891, 75173, 153806, 127630, 125311, 2937, 256834, 26276, 156159, 1959,
       14321, 125455, 58909, 111930, 131840, 212590, 57560, 64163, 233509, 111013, 236364, 104683, 117059, 31293, 141005,
       8186, 115791, 221816, 115797, 129345, 143701, 58762, 19719, 231277, 66903, 106744, 186766, 82128, 192312, 133914,
       121422, 215227, 238975, 2505, 153283, 58897, 62500, 216813, 233280, 90141, 27143, 215131, 94726, 169439, 64061,
       90771, 160134, 254254, 17620, 178593, 244132, 39242, 99236, 258052, 47017, 147153, 227603, 105439, 50773, 92346,
       36537, 160955, 173304, 27617, 136583, 82836, 125494, 164299, 28539, 1161, 190973, 151986, 130786, 98355, 96117,
       88712, 84222, 165164, 108589, 33558, 260023, 38616, 92672, 155528, 1876, 87051, 80073, 96714, 8791, 130100,
       109333, 162, 6296, 97055, 180241, 176046, 18723, 176385, 118082, 98753, 79855, 234698, 100784, 64722, 108322,
       86316, 58319, 39555, 100416, 91106, 108164, 110876, 161203, 54728, 80426, 83482, 190698, 11613, 156518, 44472,
       63914, 92345, 33100, 10177, 171335, 200703, 53417, 125871, 255860, 53360, 68614, 71199, 8652, 11086, 97297,
       45720, 158604, 151353, 14548, 194721, 213646, 105937, 1427, 189375, 124215, 95666, 163999, 9478, 174337, 146464,
       125188, 225561, 220449, 68495, 41950, 117893, 39264, 176302, 138321, 10074, 122140, 238682, 65617, 216023, 149698,
       104138, 194366, 2933, 92679, 62586, 113909, 6583, 58661, 44645, 9555, 102069, 206615, 52805, 106666, 187362,
       38704, 82742, 11742, 30459, 20445, 8020, 36831, 215398, 192503, 105314, 23626, 231699, 121795, 204326, 261193,
       53097, 162628, 36440, 118765, 204805, 167481, 42139, 22165, 82291, 62447, 143831, 160188, 29626, 19084, 141294,
       83948, 124728, 35162, 128317, 3336, 162348, 79101, 12342, 247670, 46899, 106858, 138172, 84910, 190914, 120724,
       16111, 120368, 23008, 116478, 84664, 69890, 65940, 57565, 245096, 58897, 44404, 55153, 76790, 123090, 75127,
       81891, 175757, 260120, 9407, 209315, 24970, 89472, 1158, 190653, 31710, 122998, 150002, 93579, 52284, 18685,
       107811, 73549, 161920, 105376, 117834, 60909, 72417, 106640, 52944, 68179, 185630, 185636, 18727, 9962, 183152,
       101626, 44728, 127852, 35574, 44646, 201872, 65102, 226088, 159326, 37260, 98017, 207092, 17541, 39634, 232571,
       82517, 101304, 199417, 7121, 107077, 135277, 98126, 112231, 6904, 41626, 193050, 79574, 17, 171568, 103315,
       66994, 188360, 118557, 6140, 255159, 13084, 36198, 25239, 244411, 92664, 215525, 80227, 8216, 223893, 82897,
       110013, 203127, 142556, 500, 179543, 35366, 32351, 183024, 197870, 97111, 203541, 45916, 41454, 42222, 80522,
       13355, 62675, 167497, 47216, 152097, 68697, 35440, 259216, 166722, 110455, 244957, 219226, 41071, 36242, 100439,
       103406, 250856, 63741, 116899, 122097, 105868, 56861, 83052, 34193, 119268, 17760, 155267, 49455, 218095, 183032,
       126363, 179884, 219114, 11703, 93469, 183974, 90048, 259338, 216711, 64725, 50832, 142878, 50809, 237038, 32444,
       82930, 212696, 33467, 92255, 250797, 4462, 571, 236579, 160866, 21882, 229441, 21819, 93460, 97504, 34307,
       87344, 122926, 209361, 126621, 204103, 73528, 99750, 195361, 46600, 124619, 178349, 21943, 92083, 101873, 172876,
       39066, 78404, 224347, 13810, 102521, 184573, 102475, 56994, 102491, 84429, 242943, 226324, 6315, 219418, 217806,
       47192, 140159, 166231, 125409, 174434, 154861, 65588, 151773, 170383, 56718, 176505, 222229, 59991, 157980, 107543,
       27378, 177314, 108155, 48327, 48837, 83843, 48472, 42752, 193357, 6862, 72667, 234071, 100606, 163631, 163024,
       54592, 18061, 86443, 107764, 199786, 116433, 111456, 213176, 60654, 27786, 127071, 4554, 86160, 166622, 172850,
       61902, 241339, 1852, 115363, 236965, 213535, 28277, 147403, 219569, 88842, 86977, 7837, 79659, 75017, 52507,
       38705, 197989, 13630, 17904, 145134, 75148, 85411, 190496, 48604, 96809, 116924, 182640, 41369, 237817, 129893,
       84519, 130829, 95118, 51790, 156846, 168200, 93481, 118647, 222156, 26111, 142740, 70481, 116682, 68373, 222136,
       37671, 91915, 2563, 48206, 116650, 188184, 7614, 59858, 201120, 14616, 33736, 51360, 67615, 13451, 56168,
       35073, 237849, 148348, 109508, 16816, 36537, 1925, 233789, 242104, 49688, 161257, 61233, 44216, 145622, 156220,
       2533, 81589, 157821, 16301, 56306, 237126, 54216, 254984, 11530, 64600, 195772, 122502, 52991, 17236, 142121,
       69591, 16615, 249788, 78005, 25924, 70477, 1300, 192697, 147656, 60829, 230880, 177638, 126287, 202506, 174101,
       68030, 157029, 209133, 88806, 214979, 39613, 40876, 162420, 120385, 101448, 156740, 109228, 101308, 95544, 70823,
       68327, 82721, 175289, 127928, 21979, 111455, 16456, 30867, 76279, 2221, 95507, 145370, 100946, 46433, 246562,
       105795, 128606, 36651, 15755, 210222, 137686, 34810, 124015, 128438, 2300, 163413, 4571, 38444, 143191, 131530,
       101337, 65981, 50016, 67890, 32057, 40744, 45625, 153508, 82876, 48724, 160658, 22624, 177, 110737, 113163,
       39295, 119209, 191333, 84732, 167820, 101135, 127689, 160993, 23411, 111025, 250796, 248644, 3092, 167564, 5922,
       117776, 35540, 109932, 102655, 100251, 45487, 102285, 120394, 139703, 60030, 110133, 4272, 52167, 91686, 261072,
       39703, 201958, 68297, 8610, 198325, 208318, 29915, 69615, 253986, 32322, 218010, 116051, 63448, 248953, 49971,
       97969, 8719, 75345, 62103, 52907, 246526, 7581, 206485, 11912, 125539, 111357, 129361, 123564, 199741, 58889,
       102916, 95367, 227740, 129935, 86694, 169103, 71366, 101797, 4021, 126191, 255119, 181180, 9909, 184518, 234244,
       47930, 132916, 124568, 29541, 45497, 199377, 25668, 61342, 170931, 18455, 84965, 103606, 81581, 216, 231152,
       102409, 109648, 177639, 75798, 190790, 187893, 19262, 182523, 79495, 106315, 161158, 256871, 83355, 224232, 11473,
       50877, 171817, 249965, 88359, 158884, 147231, 34066, 69583, 84989, 45245, 8690, 139770, 120256, 184662, 94129,
       38077, 1721, 156022, 61602, 79241, 245400, 116672, 151823, 136578, 92762, 118704, 167754, 8153, 26544, 174252,
       19307, 79854, 61693, 1027, 213119, 81785, 82696, 47418, 247525, 58677, 118283, 107043, 17599, 176490, 106010,
       125558, 89421, 76198, 69423, 146626, 219835, 31705, 114778, 181547, 65615, 29170, 252241, 89079, 51446, 92120,
       9992, 216734, 249718, 36005, 256493, 193208, 105770, 152258, 204134, 60249, 50827, 261113, 71640, 251438, 41636,
       56730, 15477, 105139, 5754, 13967, 153056, 21725, 40669, 45656, 58398, 8827, 58024, 27418, 93669, 210951,
       6550, 223148, 166025, 110578, 222499, 18811, 128606, 227326, 187493, 103958, 215686, 254688, 111907, 77924, 82765,
       31716, 111784, 192183, 125911, 78363, 229818, 25811, 116898, 250057, 124705, 211839, 143763, 130392, 250216, 28458,
       93286, 244211, 255098, 128600, 123525, 201894, 74650, 188216, 24661, 34018, 173173, 129669, 57277, 242411, 95204,
       77799, 57389, 21087, 9578, 248118, 202637, 81571, 203523, 87967, 128604, 246787, 165846, 24917, 207060, 85001,
       103887, 7099, 110988, 119000, 29018, 233441, 123692, 224178, 201236, 125846, 234341, 45276, 68348, 198643, 246829,
       128097, 184055, 148238, 99262, 42852, 145544, 21190, 156890, 178469, 62508, 65733, 238759, 94153, 27215, 94367,
       32419, 102203, 105433, 83966, 186997, 80758, 87372, 172488, 6633, 21325, 99829, 210489, 74066, 225987, 124843,
       101138, 178906, 244577, 65391, 66202, 100784, 1586, 99541, 226598, 1184, 180936, 212792, 46796, 144224, 133247,
       121398, 28557, 81138, 29973, 32206, 4403, 83147, 83211, 207231, 29107, 243406, 227618, 42161, 243501, 141389,
       111154, 150147, 198968, 95533, 85710, 240782, 12504, 45632, 256428, 56190, 217918, 242930, 3823, 88935, 28229,
       63031, 61157, 7485, 86826, 144384, 29714, 15532, 98534, 197675, 37864, 190503, 98198, 52145, 63485, 121139,
       120524, 201972, 115560, 130187, 241534, 166946, 5886, 160899, 67209, 99746, 217723, 72517, 48722, 161698, 176573,
       51440, 73239, 58918, 98863, 4872, 91801, 120379, 259342, 202361, 124640, 29553, 198581, 75644, 160326, 141629,
       46808, 153247, 63472, 103225, 166142, 17098, 32899, 66402, 235597, 73934, 81554, 236810, 46999, 156266, 103441,
       86065, 248536, 236335, 31509, 148454, 254940, 25112, 123360, 158082, 120355, 113657, 115158, 13343, 160519, 11773,
       66316, 239830, 260292, 28947, 161472, 118928, 5102, 164666, 143070, 4721, 15348, 214419, 22966, 175141, 244724,
       113609, 84909, 252911, 37025, 14137, 149918, 124578, 153198, 113625, 76234, 104120, 27507, 57227, 234640, 55340,
       76033, 105837, 115466, 67724, 181075, 142249, 99454, 84182, 249789, 37027, 85028, 214033, 46275, 5486, 27875,
       117190, 190951, 94879, 124053, 248536, 140898, 116989, 102758, 168058, 54977, 232643, 93255, 102284, 17618, 191148,
       62434, 72675, 145537, 65213, 142475, 103147, 26827, 217908, 89649, 77480, 165441, 94142, 24397, 53579, 182933,
       43458, 222360, 3521, 112070, 135944, 104664, 27141, 220322, 216759, 9326, 225117, 72007, 9044, 252491, 152541,
       123310, 133345, 39615, 66443, 19829, 199390, 53662, 120344, 87445, 106283, 125139, 169652, 109553, 98572, 51422,
       43540, 247226, 12530, 90913, 237510, 31455, 101072, 159834, 69800, 85806, 98259, 38192, 19869, 227972, 2308,
       114803, 195958, 158118, 70660, 52747, 163378, 37024, 59210, 64873, 55735, 133358, 88749, 4924, 135780, 80461,
       16759, 198539, 250434, 100341, 194952, 51786, 1, 137623, 39415, 54600, 30479, 183690, 68486, 119132, 187989,
       7161, 11193, 31676, 127543, 78899, 90026, 29638, 183348, 30425, 39871, 244994, 152881, 39838, 92527, 260931,
       30201, 45281, 256901, 193, 46349, 75141, 95596, 178480, 242847, 126726, 97871, 100045, 29398, 156091, 84287,
       86906, 241572, 710, 97241, 218986, 126258, 111204, 212674, 84318, 55394, 223900, 17180, 39705, 199141, 101304,
       42637, 21969, 108749, 93404, 184384, 188817, 107056, 240709, 127998, 23804, 132640, 23922, 48619, 256854, 68935,
       118219, 27647, 231536, 105734, 244583, 228667, 129087, 94520, 116664, 98860, 217027, 51280, 51536, 231050, 228740,
       77416, 21542, 78111, 86640, 120673, 119684, 10283, 94570, 27327, 71368, 80064, 257006, 92972, 26117, 76512,
       21931, 36164, 227810, 102318, 251780, 132291, 76516, 69700, 216207, 124809, 160928, 230455, 5560, 98427, 93867,
       34776, 216924, 156716, 78846, 228082, 261464, 38870, 183713, 218321, 93641, 1057, 69465, 99484, 89231, 100525,
       13436, 254919, 227371, 67351, 244405, 97874, 66701, 79404, 14376, 48402, 96760, 246289, 122280, 85874, 234957,
       108462, 238120, 186227, 91384, 164654, 34108, 93628, 57881, 38838, 60518, 15309, 183667, 120716, 155679, 62863,
       91042, 3104, 8405, 95549, 1497, 188935, 112943, 144216, 57316, 35923, 29191, 235830, 105784, 104205, 74762,
       25590, 151076, 103713, 45264, 173110, 164809, 43989, 34986, 72725, 128257, 76072, 72227, 112268, 12318, 113205,
       91903, 192963, 201352, 95296, 205483, 207133, 73672, 1391, 116129, 124137, 17804, 163394, 65045, 164431, 227517,
       49875, 56955, 136343, 21369, 96385, 185649, 103049, 143459, 34797, 96265, 9192, 21623, 50378, 48132, 29317,
       3302, 39624, 61824, 109969, 15135, 220726, 1496, 151500, 45121, 92235, 88477, 176540, 127173, 141527, 230474,
       57365, 38168, 252619, 30798, 113807, 25963, 92388, 223616, 73006, 107102, 162484, 205902, 71621, 187272, 204047,
       126751, 64906, 112210, 6772, 84589, 255999, 66164, 149071, 16151, 94169, 51323, 120501, 113068, 3102, 87567,
       23495, 102646, 38643, 104858, 14774, 233086, 72444, 110579, 217994, 51977, 22074, 11065, 17264, 39905, 29176,
       113416, 11983, 13169, 20614, 29869, 92017, 40604, 134816, 1958, 38016, 222289, 9624, 114217, 256977, 304,
       88172, 138112, 101700, 104422, 163602, 38861, 32829, 86096, 24371, 81903, 130543, 114309, 74939, 233177, 202937,
       109160, 194811, 96431, 118762, 168608, 200882, 1593, 108095, 95047, 88345, 36393, 178429, 6794, 58159, 222847,
       71940, 773, 17744, 37700, 156516, 3832, 40209, 215601, 1438, 46262, 256105, 100610, 81434, 11503, 93998,
       43784, 156526, 57224, 96036, 86496, 200286, 53022, 55963, 2417, 8959, 49983, 69645, 102728, 254299, 25904,
       37454, 239893, 126720, 56723, 162645, 96055, 89842, 131245, 118091, 43575, 181778, 120701, 7416, 208436, 152767,
       49010, 151905, 170106, 123790, 200443, 106084, 84113, 107720, 242385, 88012, 30139, 202534, 82874, 127517, 195267,
       26082, 78023, 245091, 54831, 224457, 7553, 98427, 47513, 231287, 13287, 38909, 139622, 36418, 188499, 69468,
       36217, 183024, 253164, 56625, 153322, 44869, 128498, 233730, 246166, 8847, 181875, 60248, 67987, 46330, 36355,
       23509, 180250, 104613, 127228, 135308, 61048, 14850, 240378, 160726, 52900, 207246, 54218, 96716, 15920, 155377,
       92347, 93845, 10199, 55407, 232756, 88286, 45419, 161413, 11610, 52115, 222738, 250297, 34639, 57243, 934,
       26913, 104580, 78177, 63312, 256701, 126172, 35197, 67233, 120408, 37678, 45964, 183292, 86082, 86704, 152930,
       126948, 32804, 222594, 79119, 245144, 108022, 10089, 223532, 15811, 9906, 234732, 244759, 124704, 247569, 129376,
       38966, 130670, 46120, 12067, 105906, 32546, 78517, 254837, 66502, 81742, 234007, 151095, 85000, 215949, 174333,
       35048, 240804, 67572, 1980, 154036, 44782, 126486, 129631, 145362, 32885, 13968, 77844, 88608, 30835, 98497,
       92619, 102316, 12149, 79954, 233877, 102389, 41013, 104326, 155606, 35533, 33599, 230224, 78337, 151296, 135460,
       113520, 232492, 148087, 124090, 74269, 253993, 13881, 74866, 253151, 20293, 182428, 193484, 123828, 123446, 144116,
       96539, 38128, 104494, 115735, 200961, 186286, 26559, 121797, 185875, 77016, 14496, 13741, 91899, 201567, 165158,
       89143, 163852, 242527, 53497, 67744, 166871, 2017, 220002, 187972, 76405, 74479, 179408, 33174, 137610, 196466,
       59015, 189936, 144385, 125512, 15416, 116346, 52302, 93625, 206001, 110074, 124830, 4128, 24712, 103357, 75630,
       88140, 194614, 250340, 128058, 66986, 62546, 13355, 87167, 130637, 1090, 134078, 42780, 56830, 147795, 189642,
       12140, 159203, 224027, 98092, 61205, 152341, 119871, 189390, 167894, 56887, 261340, 130501, 33909, 223441, 56778,
       56938, 29315, 67621, 94823, 197232, 59390, 1186, 195839, 11310, 77260, 239418, 175117, 80385, 96396, 64,
       83583, 19371, 181648, 31722, 83379, 110654, 93592, 83508, 60375, 11978, 226727, 110752, 26118, 199633, 131755,
       115011, 197644, 210961, 96825, 241385, 91606, 1801, 172295, 144975, 32555, 45403, 33707, 28102, 179972, 12629,
       35495, 33299, 196388, 32448, 40425, 67916, 8195, 117082, 221347, 60154, 65900, 194382, 96040, 220727, 33596,
       79525, 141720, 224530, 88194, 166552, 70680, 10636, 100959, 74265, 124713, 207189, 67351, 109902, 210146, 144405,
       105524, 209250, 31657, 107870, 34942, 88146, 122252, 60744, 137892, 71336, 119497, 108263, 26251, 95589, 195750,
       80843, 16003, 126989, 97370, 252480, 225295, 96720, 80892, 220425, 68347, 96074, 163292, 8973, 5573, 81287,
       48642, 135021, 115051, 120686, 188980, 207527, 76604, 232652, 190841, 70560, 64085, 105732, 35239, 43997, 128318,
       48293, 88298, 80173, 117354, 210396, 30120, 87354, 168968, 252189, 103204, 102857, 148786, 59551, 252521, 79404,
       82607, 200159, 176440, 32556, 35747, 82913, 92466, 42453, 108171, 56046, 147327, 224010, 58005, 85384, 253369,
       85107, 255780, 252505, 122720, 45512, 183701, 8389, 115307, 95352, 108100, 195456, 5376, 38323, 62664, 258215,
       58185, 107673, 79802, 2872, 58675, 126163, 39458, 186519, 26099, 65880, 231272, 92802, 7363, 29048, 52045,
       64368, 235783, 64929, 121518, 64053, 201199, 13814, 26183, 247922, 100196, 203190, 135728, 53696, 105986, 246958,
       85874, 243560, 169601, 34109, 191724, 144409, 20904, 254236, 168149, 21032, 40836, 53646, 9239, 136393, 91679,
       24333, 22257, 75501, 87060, 147647, 45827, 115564, 249528, 121839, 106709, 21459, 152292, 89801, 242290, 59641,
       14474, 137678, 77647, 37904, 98818, 10194, 40607, 1772, 180258, 32762, 93553, 127524, 67502, 215437, 174411,
       70196, 28737, 65498, 46777, 198846, 23040, 46371, 223507, 162205, 108600, 115167, 103485, 103454, 50387, 261595,
       40343, 108855, 81628, 119772, 20687, 49032, 124887, 96969, 80630, 42826, 209313, 222153, 46455, 48991, 162834,
       66274, 125765, 132036, 123354, 153915, 88237, 114860, 246609, 147821, 13443, 206567, 81516, 51476, 1043, 229648,
       72531, 122836, 50081, 65946, 151897, 82800, 25410, 5253, 138790, 112566, 218059, 101796, 88727, 257506, 104961,
       109826, 85592, 69217, 112559, 249462, 60799, 98088, 130666, 30438, 57568, 55555, 102829, 80025, 153163, 199591,
       21019, 108661, 144819, 88296, 13673, 62905, 23495, 21688, 213354, 90957, 94562, 133621, 30093, 233341, 73497,
       15407, 179309, 256848, 21664, 44221, 157363, 261, 29660, 241417, 94206, 167560, 42887, 95997, 70858, 24809,
       67493, 90187, 256217, 21150, 38026, 154827, 10951, 166232, 99318, 2507, 71274, 9289, 21724, 247739, 130534,
       116766, 56801, 184967, 31658, 187935, 26953, 46435, 13474, 122591, 13807, 221077, 7553, 29145, 89374, 82378,
       68055, 210486, 64211, 79659, 94287, 161648, 32158, 214570, 192506, 7567, 18238, 103480, 51253, 120644, 132593,
       30697, 132181, 244449, 28777, 97471, 221237, 125811, 35986, 107354, 80779, 193276, 125605, 72991, 44906, 45186,
       54496, 124352, 259380, 56222, 155103, 25143, 70897, 131245, 214563, 91282, 117353, 114654, 92031, 181696, 241231,
       22504, 69172, 36382, 65550, 204115, 223701, 53996, 44939, 249410, 114101, 186259, 79902, 82761, 89349, 175169,
       69796, 97777, 248835, 15125, 1714, 88232, 79382, 44414, 235971, 15362, 39406, 230836, 44198, 89200, 107076,
       18722, 152570, 259917, 90711, 125059, 37984, 27033, 229917, 67412, 51361, 207555, 206844, 117397, 231853, 209143,
       26780, 41157, 231892, 66559, 6643, 149201, 54954, 203206, 204803, 2375, 145308, 131640, 103908, 102619, 123490,
       9049, 258220, 92035, 62161, 145256, 125430, 73489, 59106, 188392, 82369, 29496, 211423, 90260, 85174, 248556,
       33196, 240609, 178322, 1307, 245947, 56892, 94823, 54450, 131729, 70209, 152512, 177052, 109591, 162423, 14193,
       107661, 4063, 206489, 110536, 117300, 20902, 63582, 85792, 160149, 43729, 89417, 23657, 103751, 30600, 21971,
       59152, 5762, 184502, 24044, 35538, 19210, 112063, 40551, 149310, 115678, 232827, 260092, 61120, 39939, 110658,
       9922, 30056, 234158, 50833, 37029, 217632, 105321, 75523, 254314, 118197, 85319, 237445, 26669, 151861, 62083,
       8778, 95754, 196154, 114996, 20602, 181032, 51040, 22062, 136619, 71009, 181694, 59997, 126886, 84441, 18229,
       8724, 202379, 175585, 84976, 88571, 83120, 9713, 38259, 84545, 49213, 121475, 110693, 105357, 152061, 62847,
       56816, 19003, 72456, 130702, 179697, 76483, 73277, 4874, 253339, 42095, 95858, 72101, 28850, 113169, 241408,
       45943, 112058, 179331, 48828, 178587, 197312, 9006, 115124, 235502, 48440, 217439, 227274, 60848, 175966, 153976,
       94730, 178955, 157741, 86078, 222041, 153591, 92899, 87021, 235361, 1096, 64097, 21494, 28530, 26580, 217614,
       86728, 74199, 166547, 63437, 119135, 144110, 696, 117409, 206858, 105446, 189208, 108823, 101293, 182554, 142007,
       71882, 103948, 119632, 8711, 126100, 193950, 100468, 173165, 19443, 76508, 133004, 77668, 102493, 15237, 103477,
       98532, 257369, 170908, 105251, 22957, 113559, 67896, 92610, 46263, 18392, 161283, 195253, 87969, 249653, 14163,
       81326, 193974, 154240, 97288, 159842, 255528, 22266, 168617, 156209, 25555, 206936, 215597, 116707, 198244, 8734,
       98301, 23592, 162998, 119043, 85058, 28086, 99446, 87706, 258319, 78270, 89198, 233244, 85738, 127430, 58061,
       116539, 203226, 68615, 75865, 94090, 173403, 82888, 208578, 30520, 20509, 187726, 148781, 62117, 210282, 60982,
       93899, 157878, 123492, 35513, 354, 228136, 26509, 225430, 172297, 41133, 237871, 119388, 31653, 254361, 141939,
       28169, 7644, 143526, 55686, 13022, 97451, 118992, 54969, 113290, 66461, 84414, 239302, 24631, 26254, 217429,
       10088, 217749, 176955, 91246, 151586, 56242, 50174, 52337, 164613, 107719, 6771, 104524, 86443, 103669, 98420,
       104364, 251502, 93909, 35644, 134028, 165600, 90748, 227720, 134311, 34611, 34723, 2883, 123085, 153023, 143551,
       83410, 222777, 160096, 42534, 107655, 92655, 35325, 120275, 114015, 25025, 33910, 146110, 91047, 256839, 74745,
       28667, 129191, 158734, 78027, 154578, 231854, 34686, 63504, 42969, 86765, 155590, 225014, 106815, 204498, 89619,
       101977, 85110, 39287, 99726, 80123, 190381, 24605, 39625, 104159, 11584, 207558, 15103, 91612, 162751, 117093,
       48280, 1574, 145666, 56668, 127031, 160198, 4082, 202870, 204858, 34023, 53571, 153384, 4414, 8810, 79085,
       115236, 167139, 117129, 31902, 128467, 7257, 73051, 77985, 76076, 5109, 25563, 177948, 87405, 5576, 169274,
       42339, 220269, 214995, 117692, 16691, 123909, 116407, 112003, 166583, 42636, 128956, 124411, 118090, 195695, 189639,
       130568, 99242, 181825, 108188, 231192, 38750, 110738, 256191, 128244, 32638, 19152, 14335, 75589, 140724, 249165,
       8815, 96247, 162392, 12441, 21971, 163296, 130926, 223463, 50330, 42813, 68078, 260622, 98065, 252109, 38033,
       105731, 52908, 159976, 112462, 216577, 121623, 130761, 35703, 65901, 31653, 112018, 57029, 5288, 226381, 218038,
       53895, 182097, 113964, 17049, 244726, 14892, 2939, 106468, 72871, 47241, 226777, 102190, 102726, 36711, 246158,
       74210, 114179, 132862, 40996, 114452, 140743, 85765, 239951, 241767, 30411, 22788, 7913, 1885, 1284, 102326,
       100185, 85738, 170510, 81755, 66484, 203574, 99916, 138831, 24309, 5103, 179233, 250874, 109722, 247426, 256571,
       81202, 141057, 96630, 73845, 93168, 61320, 81869, 108138, 50507, 113302, 260710, 261553, 76930, 246883, 260037,
       76146, 86033, 196097, 129850, 78243, 107608, 99186, 35771, 170112, 57972, 87469, 23095, 92719, 246307, 115208,
       51017, 56724, 47994, 29999, 43153, 206576, 78230, 149214, 82093, 121658, 179297, 14858, 121784, 45919, 26319,
       44814, 54686, 89896, 69163, 194210, 17458, 27739, 141688, 35918, 130499, 94577, 110938, 128597, 22654, 131544,
       85132, 113884, 112091, 105436, 41846, 15394, 93729, 159472, 163194, 77746, 113793, 6544, 6992, 112370, 260932,
       59606, 228565, 53730, 88445, 154716, 205106, 88805, 111069, 24170, 48905, 243228, 46189, 123429, 118508, 212881,
       21935, 215201, 183694, 65583, 29709, 242229, 90555, 142756, 243720, 91374, 258041, 106797, 85018, 106257, 227794,
       36082, 151182, 14, 20474, 80575, 114125, 83353, 254415, 111725, 78551, 190569, 246371, 23508, 144436, 69897,
       92423, 261642, 220102, 59660, 79508, 107451, 87524, 187763, 247787, 109755, 99058, 230310, 22246, 168975, 134966,
       2509, 93359, 120902, 102118, 140038, 102590, 79914, 68395, 232560, 91703, 41332, 30467, 109858, 170100, 117268,
       105226, 9135, 141384, 125949, 190185, 3810, 70246, 21667, 155250, 64028, 26100, 27521, 52676, 41697, 181824,
       20144, 155285, 165661, 75052, 203221, 118158, 36308, 153508, 131037, 120757, 162068, 29046, 76439, 258237, 153241,
       77704, 196120, 77741, 46520, 179608, 22332, 6814, 91315, 229610, 4160, 188433, 8144, 55487, 100667, 21871,
       11084, 40170, 108027, 79540, 168861, 203557, 115470, 234303, 12902, 115725, 107696, 213390, 86382, 104856, 203099,
       27686, 151680, 105743, 113114, 188921, 236942, 116142, 10158, 252750, 25775, 204128, 29602, 96655, 239052, 214643,
       37554, 180962, 118835, 105203, 175904, 14801, 130709, 253235, 89538, 3935, 149047, 92828, 117619, 141232, 249095,
       81609, 112538, 99123, 127583, 54174, 121068, 60949, 190704, 219667, 111068, 217798, 166029, 8178, 30240, 197093,
       43945, 182360, 252133, 8783, 259951, 120788, 127840, 45925, 95988, 107082, 105899, 89916, 111745, 25060, 85100,
       122940, 256590, 91534, 11154, 179341, 73543, 50541, 12490, 23281, 9310, 179562, 144657, 27629, 19243, 10024,
       30063, 113017, 153995, 61486, 215054, 35904, 35200, 257009, 65579, 13235, 105491, 40430, 21953, 102768, 64204,
       19303, 184199, 170289, 127543, 31996, 62332, 99521, 258858, 131487, 126846, 112925, 77193, 57637, 174338, 59971,
       36486, 82215, 216606, 104633, 232245, 16222, 42762, 197537, 112386, 39240, 203832, 64209, 30475, 6661, 66408,
       16997, 74195, 161034, 33615, 33117, 155320, 46572, 123226, 143222, 88341, 201549, 113936, 8200, 130809, 182336,
       27591, 148267, 144060, 106040, 90853, 248760, 19257, 91846, 225877, 44911, 48403, 151746, 113332, 150524, 157981,
       20306, 97093, 123125, 10844, 126489, 62188, 63509, 95444, 79808, 39638, 191412, 238272, 73847, 16030, 2100,
       105356, 82471, 244082, 17976, 85626, 129762, 76113, 102343, 215572, 66258, 11597, 190769, 18884, 182095, 207774,
       81788, 191232, 210782, 35866, 156460, 158940, 63941, 110048, 27221, 10783, 156785, 22833, 60238, 157691, 252715,
       40168, 204389, 78967, 107791, 39351, 22998, 7468, 82760, 44898, 54867, 181597, 35459, 60087, 137264, 216492,
       95027, 261208, 222289, 75273, 5516, 24328, 87452, 224253, 234319, 101849, 105898, 9342, 113010, 175155, 1825,
       41140, 75787, 133727, 70519, 186656, 91031, 110114, 169360, 3704, 129689, 88771, 230960, 116591, 19696, 195904,
       48688, 250884, 13299, 25580, 226949, 216687, 64145, 172664, 142093, 97208, 112295, 249059, 64562, 3471, 66109,
       63331, 126383, 231216, 109868, 140968, 122982, 47369, 240157, 250347, 112695, 1996, 190784, 53320, 188447, 143534,
       43022, 44466, 215964, 59505, 95850, 139778, 99935, 117379, 143075, 16515, 88551, 64039, 25745, 15587, 212397,
       124707, 203473, 97311, 23002, 10114, 156758, 74413, 40636, 125145, 75931, 237443, 79074, 64176, 15070, 162308,
       84508, 12903, 28996, 30123, 222456, 99679, 72438, 143854, 176849, 48781, 129213, 222893, 86726, 13383, 139058,
       18510, 118561, 184370, 74826, 11738, 210785, 24283, 198186, 83200, 36522, 79578, 181079, 28666, 191613, 166682,
       23964, 239464, 20587, 108227, 153575, 56843, 37448, 68762, 153577, 121519, 253843, 160742, 127130, 54927, 11555,
       74876, 66143, 5084, 18743, 116169, 32672, 49092, 206400, 187800, 104560, 95216, 93614, 48154, 167140, 225499,
       11405, 136534, 103537, 72978, 239034, 194700, 110771, 178322, 195333, 104323, 173910, 114877, 22953, 194045, 16132,
       88180, 158214, 120785, 28901, 245056, 177572, 28600, 235397, 36427, 114566, 87941, 162521, 32724, 159638, 201029,
       34504, 93376, 112486, 85, 168095, 159992, 114120, 86937, 176174, 103886, 258829, 183422, 82225, 67680, 102695,
       98338, 218683, 106501, 19929, 81219, 245038, 60073, 102285, 238654, 46035, 7219, 19231, 12291, 125003, 65790,
       63718, 24892, 181845, 120683, 49138, 214107, 5250, 164849, 218740, 38202, 95644, 38021, 27202, 211180, 177668,
       31214, 93897, 44049, 119070, 87447, 6988, 61350, 195841, 169715, 61118, 208837, 200322, 99690, 44723, 219418,
       20249, 157853, 132365, 63866, 221378, 175275, 56359, 5763, 80759, 78238, 72884, 64308, 131014, 7151, 105920,
       100853, 53856, 54023, 52149, 14005, 73187, 108469, 8825, 203445, 22375, 22700, 169426, 3992, 245443, 78825,
       26797, 119819, 166681, 44618, 111013, 138861, 66922, 220474, 11991, 80626, 54187, 138498, 119354, 239223, 233970,
       66827, 153286, 7733, 65703, 52767, 154824, 6585, 118432, 88741, 4575, 243015, 75630, 72241, 167386, 95260,
       57432, 248301, 174634, 109993, 13823, 20437, 21060, 155851, 203920, 3273, 22464, 250589, 58856, 107319, 44091,
       31126, 206934, 4668, 6503, 14455, 56290, 94974, 143301, 258355, 14626, 188138, 60623, 79733, 171312, 109998,
       36837, 197356, 33050, 22740, 124338, 20948, 49774, 207516, 93665, 105047, 26419, 41776, 51392, 128270, 56205,
       98404, 230545, 138153, 16447, 193958, 206573, 101288, 182325, 251671, 31055, 85134, 118695, 88787, 71387, 68763,
       74158, 31445, 203654, 121784, 224493, 105624, 50767, 35933, 174789, 8672, 105809, 110281, 2510, 196031, 223623,
       108378, 1390, 95623, 68778, 39190, 108123, 101612, 206664, 104094, 30726, 165739, 41173, 45230, 214090, 231789,
       3945, 203093, 11698, 126024, 189259, 54167, 87538, 205066, 163521, 122317, 15011, 25229, 34799, 38040, 237727,
       80145, 198823, 69776, 88932, 91185, 60642, 41621, 229195, 180240, 111163, 97950, 162968, 124146, 91033, 132292,
       115979, 191361, 162675, 96870, 258649, 185019, 36367, 222953, 186210, 36911, 256342, 257210, 126269, 147828, 167380,
       1348, 2477, 156536, 93854, 26763, 3535, 92569, 25432, 210451, 81617, 42863, 137642, 129775, 143307, 101473,
       40878, 173383, 52707, 44560, 207652, 109403, 10346, 195408, 44506, 58038, 114649, 126028, 34216, 39958, 204830,
       45008, 100093, 229164, 109388, 260490, 130217, 122615, 216572, 31591, 24344, 106224, 100423, 48825, 128627, 241253,
       121717, 121906, 213310, 8101, 93994, 55182, 12105, 230461, 114629, 21337, 89269, 208130, 78015, 193093, 229428,
       19722, 183895, 106133, 126887, 185458, 232619, 58551, 200937, 206455, 65734, 252208, 127065, 32330, 9985, 75182,
       61729, 184079, 100841, 86758, 90087, 162577, 98458, 75941, 200334, 98810, 261445, 235509, 75745, 90157, 94707,
       118536, 64075, 87106, 107139, 73757, 101715, 99227, 212465, 8500, 7288, 85704, 198385, 901, 133238, 97554,
       27845, 233181, 112833, 86969, 95551, 225784, 53896, 125111, 152794, 52744, 50651, 44543, 115944, 150107, 87238,
       117383, 56001, 238786, 119167, 110155, 141170, 41140, 164428, 133018, 90578, 17691, 106597, 35603, 132208, 171667,
       24983, 160442, 211353, 24200, 38128, 182590, 44840, 191386, 149954, 56355, 106204, 252365, 108914, 44498, 146441,
       15714, 95788, 98519, 96328, 52604, 96799, 69658, 225053, 244429, 37741, 149934, 165467, 64594, 222451, 45695,
       39314, 1827, 24877, 78129, 171451, 229135, 56864, 207265, 223600, 21548, 252053, 105615, 15280, 203619, 228269,
       71656, 130138, 239521, 118281, 21259, 153037, 45083, 58167, 205685, 96075, 207107, 232071, 86332, 16020, 220929,
       122100, 200731, 25802, 107607, 163551, 129227, 74266, 22149, 242381, 86118, 79027, 31618, 117753, 81513, 47032,
       52365, 190351, 133282, 42833, 166641, 84082, 1417, 7957, 47163, 108337, 184129, 2115, 104986, 37319, 177474,
       13691, 16409, 72541, 75609, 222995, 96794, 60815, 2396, 145384, 15559, 114967, 155974, 128525, 10133, 204493,
       28140, 162361, 242867, 8812, 135909, 78296, 77967, 219080, 151000, 96844, 192179, 32645, 4252, 112029, 245804,
       86339, 114909, 12380, 69768, 147001, 27233, 13535, 39647, 135230, 22613, 13002, 28843, 74445, 138175, 138719,
       38844, 48527, 178638, 122986, 240959, 10093, 107313, 241004, 112267, 128918, 31691, 40393, 34035, 151048, 35465,
       127103, 161480, 53738, 56522, 179773, 120090, 45549, 257828, 247242, 6599, 108317, 162408, 6916, 12550, 255853,
       90703, 78470, 9998, 60021, 175415, 229252, 29690, 168445, 77209, 80474, 82835, 14630, 33142, 162339, 78283,
       75711, 91568, 84727, 47082, 54757, 215574, 107944, 167102, 200789, 107570, 75283, 149056, 62567, 71141, 90793,
       45982, 147403, 64467, 47521, 114728, 137834, 105606, 161037, 67420, 43015, 37006, 176031, 27401, 217639, 247770,
       11100, 70869, 171778, 61170, 105051, 192327, 63194, 4841, 183622, 110219, 153744, 213954, 28998, 52014, 200312,
       49937, 75555, 193281, 105959, 93587, 151242, 107953, 260547, 11063, 50411, 194760, 17156, 60178, 79686, 155686,
       39752, 75572, 75279, 122231, 218372, 75920, 15550, 229549, 229371, 122388, 106003, 157672, 89635, 194923, 187398,
       69674, 59034, 8030, 4280, 180463, 235900, 62337, 90191, 215311, 53444, 94271, 246854, 21131, 71335, 121896,
       86036, 241054, 137675, 127290, 181333, 5270, 73687, 55533, 155731, 93684, 37080, 74647, 8971, 245817, 89006,
       54744, 117565, 57800, 15251, 88963, 39030, 80320, 98502, 9032, 123008, 192267, 71915, 86740, 139185, 129446,
       10066, 191141, 248614, 46486, 212027, 67870, 72176, 144302, 111770, 52849, 64752, 180065, 109267, 101643, 256160,
       106780, 146257, 217822, 80193, 239984, 45413, 48949, 230630, 55221, 33467, 117750, 88848, 13877, 41585, 181797,
       46517, 39104, 1906, 54155, 91272, 27583, 88581, 121225, 176273, 86266, 85063, 50718, 9189, 56119, 141767,
       51807, 112457, 191199, 23826, 31374, 110092, 20553, 197895, 121563, 108436, 38632, 67038, 5493, 238888, 2262,
       54943, 36152, 89837, 22046, 206980, 177917, 115255, 149429, 206931, 73012, 108568, 132812, 30327, 137041, 86466,
       65854, 39159, 257084, 95877, 99651, 41890, 125582, 116304, 36919, 28894, 78294, 37647, 116153, 161804, 224105,
       122461, 28534, 246669, 120117, 19297, 47681, 83285, 8017, 12113, 82551, 223561, 36463, 52849, 163607, 102700,
       98618, 77392, 156083, 69637, 201739, 5613, 88793, 42695, 242941, 56158, 218725, 248070, 95878, 184689, 167609,
       108065, 34276, 199285, 19193, 181672, 121130, 109173, 200194, 16549, 70817, 195825, 118686, 110712, 13116, 185855,
       56531, 151323, 143977, 49681, 155844, 167985, 119938, 220288, 32032, 32921, 67695, 11865, 110652, 156735, 228796,
       63441, 142732, 40029, 67383, 135750, 63559, 40431, 145382, 211091, 75109, 206391, 24208, 42626, 21474, 103525,
       5147, 31631, 54470, 35651, 105172, 24369, 836, 29878, 128076, 128234, 240818, 92785, 126582, 109651, 8526,
       51793, 208443, 230061, 95469, 6453, 258703, 45325, 130267, 115622, 87961, 136914, 7671, 105569, 85616, 206260,
       124093, 61473, 234771, 52456, 163425, 224546, 102668, 113566, 144683, 34855, 202868, 85775, 129804, 219079, 190959,
       3377, 176383, 102614, 79105, 190768, 243745, 86442, 201333, 175796, 90183, 132974, 87000, 15779, 115533, 249059,
       123014, 255794, 186765, 23748, 14352, 214219, 81625, 140003, 26881, 29186, 157035, 126161, 40267, 123263, 53805,
       71625, 108522, 193243, 54682, 98502, 191460, 21001, 23585, 107039, 22404, 255888, 195955, 54807, 19313, 56775,
       99258, 155852, 22553, 117698, 5817, 105783, 11026, 204720, 194999, 51524, 239959, 47049, 13139, 101326, 18537,
       2174, 212237, 108048, 86732, 207400, 226485, 78964, 66389, 241056, 21367, 63251, 173724, 30646, 82748, 41559,
       3107, 110804, 135961, 109438, 52466, 197235, 127754, 169293, 256430, 17754, 249667, 187707, 30339, 240967, 171053,
       113824, 45383, 25188, 121433, 121353, 51937, 55001, 104941, 76175, 6635, 49462, 185263, 5163, 43627, 136588,
       75228, 198402, 125787, 51497, 143579, 166855, 3755, 139195, 46210, 76448, 15090, 96874, 1481, 116936, 24526,
       103202, 109392, 80967, 40164, 199999, 119427, 5276, 182706, 161316, 77116, 131677, 55802, 52125, 76432, 249310,
       127637, 253697, 157787, 71329, 54287, 220919, 36076, 39305, 14206, 92987, 149648, 239689, 35584, 262080, 97505,
       118520, 256033, 205290, 49115, 146307, 98269, 72072, 97585, 204104, 6628, 188183, 224973, 55852, 147561, 22786,
       109099, 145193, 213432, 105598, 56, 203472, 29401, 231249, 77063, 29632, 166722, 105756, 107125, 220694, 110984,
       121949, 47639, 4865, 12499, 38449, 123692, 58990, 22540, 247241, 44230, 211616, 97778, 114122, 229961, 145657,
       10947, 203847, 161210, 27672, 183380, 259932, 98627, 138921, 177169, 6723, 49118, 231282, 64557, 156610, 85525,
       57947, 223674, 64876, 43830, 165500, 1086, 51717, 100273, 161014, 69460, 97677, 132950, 21150, 194615, 94407,
       74972, 168757, 104496, 105569, 164171, 229730, 99635, 213225, 43380, 20171, 253836, 36228, 19562, 111803, 230628,
       35150, 39512, 188492, 47326, 206184, 98366, 53537, 23584, 37955, 89089, 71723, 223218, 7429, 57043, 210574,
       4544, 162709, 188400, 51368, 131414, 107036, 91378, 167629, 138912, 25353, 250943, 28598, 84083, 72185, 226589,
       34056, 50776, 71645, 116141, 20566, 92170, 117399, 228687, 222677, 38966, 7455, 68301, 30145, 194332, 118255,
       53910, 113829, 239832, 31526, 250592, 7921, 88130, 182218, 97845, 108273, 249124, 32386, 88223, 139403, 175380,
       108049, 68635, 8240, 52034, 145931, 156088, 20488, 203944, 9117, 96724, 185224, 261881, 47248, 29972, 261636,
       87984, 212232, 247581, 35473, 220925, 98996, 10646, 243975, 179689, 130099, 178545, 209514, 20473, 168833, 47833,
       129554, 82974, 6217, 128094, 9259, 73351, 104047, 85594, 16274, 86431, 232386, 259266, 75734, 85377, 213149,
       113521, 173475, 79398, 37937, 109308, 53657, 61299, 239044, 159748, 81184, 178799, 51522, 53895, 146290, 75794,
       56031, 132254, 106339, 43291, 18858, 87423, 73954, 260224, 47709, 111486, 132261, 22144, 26414, 190726, 6374,
       122478, 1901, 257806, 90320, 25415, 106993, 107908, 17441, 17998, 72901, 6937, 126853, 102172, 213146, 109365,
       2123, 109702, 10941, 107266, 198976, 240526, 5261, 21112, 147643, 116642, 190334, 3007, 130018, 141873, 241775,
       38544, 2726, 245320, 27566, 229063, 239954, 100317, 185290, 161131, 33164, 175258, 60889, 113450, 260226, 256764,
       13479, 205583, 161960, 16509, 52297, 179519, 128339, 92439, 230028, 88321, 108022, 193653, 111003, 53026, 152179,
       42510, 131110, 224003, 88668, 20451, 191788, 77888, 121841, 169250, 79056, 24260, 13692, 89460, 234497, 100574,
       75413, 125184, 90346, 56238, 16480, 208089, 36165, 193828, 185916, 100739, 129028, 185297, 29657, 256886, 209996,
       90748, 69105, 111108, 30583, 104786, 235355, 81963, 72361, 66063, 97921, 11174, 254869, 28667, 69952, 72484,
       7856, 232870, 133395, 17166, 259638, 93715, 79429, 61471, 61314, 111338, 167603, 145259, 5897, 215837, 10708,
       96226, 176639, 54725, 44737, 83246, 252658, 62721, 175768, 26297, 121747, 125545, 81760, 43512, 44320, 93041,
       60992, 168455, 33565, 1793, 99999, 109960, 10695, 80590, 138919, 33894, 30679, 145754, 3650, 170107, 150640,
       82755, 164295, 7497, 55888, 232108, 65238, 71846, 127929, 107258, 22891, 93310, 27615, 38788, 105634, 40214,
       87008, 210126, 56264, 126524, 41573, 225011, 6608, 59598, 86664, 116704, 118935, 145833, 75612, 255018, 123381,
       73914, 17158, 83661, 65572, 133212, 226734, 9095, 162955, 250153, 11780, 88790, 260573, 78762, 193568, 166811,
       44690, 31948, 223562, 120228, 41948, 243876, 53292, 166438, 150994, 18780, 49114, 2135, 93679, 164349, 212890,
       38450, 110010, 18544, 68874, 116424, 236201, 91466, 88830, 149502, 117999, 109467, 838, 103834, 22094, 214673,
       88651, 261590, 106926, 89080, 230813, 80834, 123984, 61588, 206052, 38774, 67136, 243978, 145, 200385, 162941,
       35645, 164628, 237718, 28559, 120300, 161871, 86747, 257619, 107690, 83061, 221984, 186203, 77786, 44657, 64443,
       2129, 15882, 228667, 95522, 104111, 69286, 42405, 204007, 24277, 87170, 57302, 88953, 72951, 222240, 159012,
       44922, 112160, 85304, 17639, 47312, 62712, 12375, 176620, 159670, 108988, 202101, 244180, 120376, 53119, 193096,
       85169, 4945, 124540, 13557, 82916, 244284, 52694, 134053, 24941, 95543, 136009, 207723, 102212, 179020, 128035,
       15495, 39652, 38592, 4, 6915, 128531, 93341, 59474, 162005, 46739, 202893, 239943, 33355, 98853, 247377,
       1690, 130327, 151330, 70818, 32464, 186316, 111562, 7652, 253630, 125518, 182226, 221051, 74153, 84454, 23514,
       67431, 124557, 156412, 11148, 133839, 245911, 71941, 224354, 82553, 49804, 161962, 147999, 79578, 114173, 37197,
       50951, 36665, 206123, 31496, 127587, 213473, 12447, 75642, 233866, 41276, 259619, 87022, 12667, 113172, 195529,
       23186, 62164, 107230, 129412, 32762, 15560, 58209, 141927, 159807, 69713, 130070, 114912, 114506, 243216, 222248,
       130491, 54244, 46520, 76377, 143734, 193055, 106492, 149073, 243005, 42852, 213369, 255350, 40074, 123729, 127362,
       52783, 47741, 50635, 88146, 228572, 12173, 89416, 60055, 164928, 41319, 16561, 217937, 17460, 23901, 93242,
       82889, 115901, 15074, 16819, 243114, 171435, 75824, 44574, 159349, 90888, 59026, 156387, 91830, 144193, 190404,
       98759, 25293, 222426, 114407, 112749, 10499, 65530, 163838, 167548, 95715, 58135, 178287, 81156, 54727, 201602,
       24463, 70828, 122590, 3367, 50628, 125750, 37295, 107086, 190743, 58069, 82301, 253217, 80885, 81355, 237549,
       111405, 227899, 139088, 25722, 83513, 226623, 16456, 16269, 18099, 126285, 63878, 8461, 14161, 161608, 67945,
       62716, 204876, 80574, 76751, 2375, 33649, 70959, 7365, 132930, 11276, 106662, 232422, 7474, 165589, 25899,
       13825, 242169, 189030, 76754, 39033, 101203, 71348, 97809, 19302, 30636, 228876, 81692, 83594, 87115, 180944,
       107487, 232686, 191736, 5449, 219525, 247081, 65290, 232773, 151348, 90349, 77158, 48942, 33071, 7577, 63005,
       40340, 38823, 40661, 80430, 195879, 105747, 117694, 45818, 31485, 106158, 108427, 121029, 76432, 11554, 192992,
       95711, 162788, 202014, 47818, 2835, 28164, 84012, 166120, 99685, 61103, 92671, 31669, 24895, 81075, 81406,
       91978, 62661, 61469, 72936, 244566, 91626, 47005, 65009, 11448, 119451, 13191, 159062, 2743, 229819, 128828,
       41389, 4844, 149835, 7455, 146425, 169364, 100470, 70357, 78725, 92026, 164685, 150072, 43430, 261623, 114337,
       88560, 127904, 209348, 51896, 74478, 64087, 99123, 182701, 21728, 59530, 199502, 171225, 54038, 86110, 190389,
       122516, 241036, 241375, 32883, 59082, 63910, 15787, 71761, 105783, 76617, 61588, 107787, 127050, 248664, 125828,
       49524, 37072, 219406, 8131, 74103, 126456, 44473, 110099, 168045, 66313, 124202, 133548, 21223, 150031, 168504,
       86258, 202879, 215365, 130777, 2075, 58287, 59210, 103965, 57627, 46494, 257264, 238119, 52521, 25311, 104778,
       15092, 115315, 192457, 115772, 114684, 95987, 54372, 7424, 12517, 50760, 218013, 46855, 86466, 242077, 211186,
       57938, 53621, 27635, 84965, 67429, 162183, 8053, 232820, 151540, 106656, 90730, 60259, 123273, 192443, 1592,
       85034, 256034, 170653, 125116, 226866, 156143, 19848, 140590, 55749, 62575, 234563, 50454, 78880, 3206, 122199,
       76249, 101148, 123060, 52620, 104414, 65887, 44313, 104780, 32650, 16623, 20521, 159835, 51346, 122284, 251410,
       21320, 72969, 196632, 96254, 203934, 186634, 27371, 232882, 193671, 7676, 71223, 4884, 72399, 192522, 194721,
       78017, 249437, 24434, 114283, 101913, 62946, 75626, 35101, 214520, 45282, 227137, 23822, 105252, 97867, 167716,
       70815, 114055, 176267, 10391, 111533, 175196, 74167, 43159, 196440, 119015, 211493, 256965, 51945, 128044, 14162,
       38840, 4064, 252950, 18804, 217230, 245941, 19850, 70110, 184571, 56724, 58719, 30384, 78076, 247965, 75078,
       10566, 110726, 15160, 123151, 35153, 182350, 98976, 228984, 78206, 76889, 254336, 167159, 108585, 29747, 104168,
       10510, 62544, 168468, 62500, 59082, 157521, 82587, 148458, 115812, 108613, 50780, 28124, 102690, 241742, 153329,
       36316, 5425, 254403, 123323, 11949, 181859, 16298, 67666, 187045, 114705, 134652, 226461, 127263, 21075, 98385,
       23219, 227172, 235622, 94642, 168602, 118896, 5280, 79565, 60602, 53139, 152184, 51584, 67670, 74604, 52414,
       76106, 86782, 231547, 122675, 43778, 179928, 88113, 63461, 35838, 63082, 16678, 47199, 106125, 190409, 51608,
       124588, 62366, 49933, 2892, 66647, 134454, 128781, 7391, 186643, 11289, 134147, 79757, 106743, 79674, 8600,
       36744, 9617, 32651, 17325, 13657, 260785, 57652, 198812, 67276, 84404, 177414, 45143, 49932, 31517, 213250,
       7151, 261408, 140676, 78572, 149552, 119698, 118279, 210293, 154363, 50228, 210880, 142854, 28355, 44519, 214418,
       58009, 130517, 224229, 6338, 261426, 105721, 107542, 248688, 244984, 108310, 37427, 12941, 77070, 104003, 184755,
       46281, 236416, 238033, 104829, 53777, 114271, 72703, 245815, 223511, 108256, 157167, 119749, 82766, 148599, 85398,
       102813, 155762, 4967, 78454, 222467, 191153, 54282, 78143, 87643, 125559, 230621, 202077, 70924, 228394, 37978,
       79310, 76906, 71299, 28899, 198147, 175298, 82005, 78714, 118982, 74921, 198661, 99982, 24227, 36305, 214970,
       7810, 52435, 42615, 79214, 153289, 173539, 100098, 176456, 141872, 68603, 69334, 87222, 29723, 141963, 1971,
       87362, 96607, 182157, 10499, 161952, 22143, 57912, 7171, 41761, 21412, 211748, 156758, 24177, 109246, 7116,
       26515, 19006, 132480, 50686, 122521, 23680, 6704, 94306, 153686, 52139, 152538, 217652, 67070, 135923, 214517,
       63346, 91362, 50481, 50172, 72773, 73064, 109988, 163633, 184993, 19048, 68217, 119362, 66282, 179201, 230042,
       8131, 233990, 159175, 9326, 135565, 168402, 75217, 195205, 61616, 74189, 43774, 160691, 115085, 159539, 176032,
       73121, 162114, 19557, 125801, 191005, 17407, 6382, 139242, 233573, 12846, 16583, 31373, 5775, 209874, 136003,
       24284, 159207, 28188, 70945, 93318, 98145, 84616, 114547, 132502, 5974, 245844, 152100, 123990, 77718, 219923,
       110384, 78708, 77403, 38877, 154995, 157493, 10117, 32495, 223748, 22267, 114939, 239093, 16638, 224971, 235930,
       16159, 13505, 191383, 67968, 240558, 58429, 32223, 187690, 135046, 46942, 23311, 34364, 129696, 116144, 216514,
       89694, 114618, 149231, 124384, 208140, 6576, 18685, 45293, 152370, 50087, 205847, 87032, 72709, 211529, 49948,
       10060, 218284, 34548, 548, 224555, 127764, 87875, 44302, 48881, 84124, 148820, 202768, 53842, 238788, 23258,
       64178, 164713, 236386, 54452, 247719, 42223, 3146, 102036, 100267, 43957, 216837, 180337, 23210, 137725, 17363,
       12900, 171786, 158751, 125399, 68343, 198574, 78559, 72844, 200600, 95506, 114422, 149084, 41335, 93469, 98807,
       51530, 152189, 142758, 31054, 26667, 103035, 12709, 126989, 12994, 23466, 9118, 22925, 104531, 199477, 50477,
       88807, 74390, 118079, 71687, 16156, 200620, 62270, 256852, 259138, 120905, 80328, 25673, 9533, 135023, 232047,
       36778, 238496, 184241, 45867, 14245, 196406, 102554, 30424, 338, 130090, 229715, 47247, 31545, 43439, 248424,
       114597, 55286, 45520, 108871, 101306, 247016, 29446, 77181, 106651, 52341, 83873, 121547, 53696, 168381, 94062,
       128217, 88988, 194667, 23709, 226308, 70518, 104747, 61233, 225972, 43803, 80591, 125793, 95796, 167237, 209339,
       55051, 178875, 73374, 75806, 202079, 68884, 109132, 23685, 157912, 105403, 154385, 105162, 113563, 214830, 103217,
       7814, 42485, 11120, 90708, 117987, 229465, 18348, 111526, 257537, 54502, 44917, 175378, 71904, 152236, 260804,
       52787, 227998, 95481, 68106, 141969, 144015, 130616, 182543, 39146, 17723, 53409, 261480, 88533, 98244, 221126,
       51904, 167422, 127114, 17433, 225538, 219181, 20805, 247738, 242326, 124423, 32658, 99107, 115291, 33391, 30764,
       118887, 210720, 172481, 129962, 48232, 190263, 27304, 82522, 188890, 46588, 37965, 137481, 87715, 229819, 27573,
       63412, 253363, 101117, 54839, 40086, 206869, 46899, 9456, 78169, 77828, 3929, 147514, 75444, 47678, 108343,
       21162, 157607, 238878, 61831, 231730, 234985, 72544, 171088, 168477, 74748, 170297, 130606, 27539, 44561, 184369,
       97290, 261075, 220116, 3302, 234817, 42566, 46508, 136569, 24914, 102264, 8459, 23254, 73910, 150195, 8101,
       34231, 21588, 163477, 91088, 234686, 171075, 74369, 17257, 150780, 104365, 63538, 29736, 96341, 57987, 97732,
       79968, 17185, 107260, 63986, 111216, 203954, 17456, 117329, 60346, 34253, 115689, 121019, 54932, 54031, 156697,
       78551, 93361, 175232, 67332, 187694, 205599, 37772, 241745, 177088, 847, 77674, 97412, 65043, 17640, 118453,
       37437, 149310, 26223, 96286, 151831, 98318, 3138, 179537, 153233, 76654, 144410, 208941, 123400, 238880, 241356,
       22860, 44946, 237437, 61820, 11023, 154899, 11982, 226311, 240728, 82009, 99510, 233310, 72159, 75612, 152477,
       53394, 56096, 25189, 68337, 243520, 242448, 117515, 218532, 98080, 25728, 180038, 140866, 2957, 150910, 156606,
       112940, 36639, 40369, 75643, 233366, 144695, 116740, 100944, 240094, 78242, 210848, 132099, 106189, 113870, 248798,
       56318, 38556, 152432, 98285, 168011, 186482, 119674, 44865, 123309, 74989, 78931, 214896, 23695, 228394, 37447,
       35231, 220462, 99613, 26036, 194506, 109293, 32356, 11618, 128854, 40162, 127343, 161157, 72762, 129944, 20096,
       77069, 62614, 249376, 55902, 45841, 65137, 80664, 113364, 229229, 10692, 49453, 103703, 11506, 151993, 27876,
       22522, 8133, 210704, 67905, 118967, 3743, 28048, 186260, 57220, 37130, 171267, 193961, 52469, 210780, 67141,
       106412, 240282, 219911, 1816, 245859, 49160, 85115, 99805, 13330, 87670, 258127, 13993, 104681, 107595, 37986,
       122257, 207940, 25011, 2639, 133205, 50306, 20156, 193422, 182365, 116152, 63924, 261073, 60098, 247721, 161844,
       74002, 6350, 203361, 86904, 79074, 208137, 89006, 162000, 240185, 122125, 20484, 222828, 130672, 40380, 103545,
       94392, 125493, 91826, 37646, 172578, 7753, 115310, 237731, 118785, 6451, 126801, 223938, 30288, 60174, 163051,
       117622, 36899, 61135, 33579, 140032, 62372, 28921, 46055, 59047, 18104, 93958, 79220, 112605, 130101, 162706,
       65543, 166762, 147658, 88459, 157787, 73992, 31334, 238313, 105335, 99357, 229130, 82305, 99615, 117123, 33283,
       40972, 222382, 53147, 53828, 260590, 134920, 27484, 137374, 213657, 127999, 211405, 199580, 84620, 110357, 113661,
       122492, 140386, 209850, 39765, 91743, 191487, 102484, 1506, 233251, 100382, 163622, 196875, 90656, 180774, 231436,
       126568, 60756, 29068, 51584, 22285, 247282, 17133, 99886, 185927, 88042, 58615, 24554, 95592, 24685, 161241,
       75374, 88993, 208907, 27108, 9145, 231861, 66120, 12893, 246971, 40919, 87333, 180913, 56028, 234036, 231929,
       84570, 23376, 51437, 97676, 206242, 218501, 30438, 40549, 251611, 53126, 211201, 195182, 35279, 142981, 260109,
       26035, 11243, 237876, 102680, 33999, 233797, 119177, 149203, 66613, 48527, 19147, 140208, 98471, 165458, 229399,
       117570, 253379, 233208, 110903, 50468, 170212, 23961, 187816, 98391, 125343, 23460, 63321, 49371, 192518, 143096,
       44464, 249545, 188836, 8182, 261863, 60690, 63723, 197444, 120143, 14288, 165839, 254810, 32576, 160277, 25147,
       41542, 79513, 155129, 106014, 126844, 85353, 114752, 12683, 198292, 39644, 226797, 28450, 112551, 73439, 14864,
       112358, 255176, 257272, 100224, 86342, 17512, 19227, 163049, 111560, 90481, 261144, 252174, 123866, 50906, 118562,
       89461, 247892, 2353, 43465, 179213, 200726, 65611, 244395, 93162, 84636, 123963, 54437, 66921, 127038, 92853,
       15722, 123726, 91245, 40902, 225040, 79508, 105171, 171053, 90321, 112907, 206081, 82770, 17996, 49778, 6510,
       124831, 61973, 149258, 43099, 114862, 198984, 86810, 206140, 83741, 98543, 59121, 145484, 106423, 109279, 10594,
       123961, 79946, 25393, 41014, 259784, 131899, 112526, 41421, 165333, 17260, 122108, 146841, 92411, 31897, 12330,
       97252, 132372, 257747, 88830, 141733, 154751, 33071, 104095, 260784, 114431, 134051, 109510, 22132, 161614, 164963,
       7030, 5084, 20440, 94039, 149749, 163808, 62321, 144951, 192519, 111292, 255766, 148623, 50252, 165169, 209969,
       22056, 160210, 16081, 109634, 39597, 57940, 71946, 179106, 217086, 24798, 71014, 225192, 94422, 44947, 242210,
       66992, 180046, 213850, 79208, 134010, 42787, 60410, 227275, 6326, 108620, 142587, 51864, 108732, 116462, 188000,
       92981, 3055, 18266, 13815, 44390, 254089, 109950, 66424, 2676, 87951, 3508, 168469, 91360, 92140, 21268,
       47576, 232484, 91889, 115248, 243789, 232237, 95075, 237603, 169657, 14757, 119964, 176733, 53448, 74062, 108279,
       116179, 169555, 126775, 6186, 43538, 40497, 126014, 209497, 143600, 89019, 51420, 209480, 82755, 186683, 174755,
       35462, 194737, 253753, 32609, 167073, 48458, 123477, 119261, 13647, 39095, 43809, 226941, 101647, 7930, 68951,
       51527, 68245, 40090, 18252, 81150, 220563, 1404, 124649, 91165, 71336, 235320, 185708, 127897, 73742, 98952,
       48383, 109889, 116289, 46817, 239495, 14757, 45100, 203563, 243445, 68228, 189226, 227985, 57758, 216950, 111135,
       115332, 44552, 135423, 66259, 162847, 53306, 66552, 218986, 120718, 18136, 168208, 42272, 128809, 167013, 149237,
       32764, 117113, 90598, 9615, 255603, 137429, 86919, 237278, 133369, 78035, 225671, 182449, 54413, 254583, 210501,
       55337, 152169, 37110, 102899, 235473, 81680, 25652, 117221, 35255, 107512, 63706, 112740, 85032, 152492, 112177,
       54915, 54051, 43150, 60034, 190534, 230349, 33639, 68875, 207655, 98581, 34030, 76274, 67223, 135849, 43102,
       42055, 12223, 18061, 78125, 126031, 199849, 130512, 237528, 127743, 57050, 182850, 120177, 120676, 226304, 110310,
       45222, 12384, 94956, 7173, 242578, 30130, 26770, 110458, 143771, 54879, 55004, 181270, 28787, 259354, 257885,
       29, 198797, 204157, 119931, 21379, 84597, 110608, 252232, 9595, 97293, 190674, 128554, 21995, 208320, 191170,
       15776, 77243, 160419, 8861, 23520, 80025, 94899, 250041, 8613, 121740, 187963, 92109, 56431, 50100, 163592,
       15616, 1614, 202354, 67160, 92221, 261281, 45722, 25106, 180596, 49129, 13758, 123552, 81439, 12470, 4258,
       94203, 215100, 8353, 14497, 9151, 220470, 4664, 231402, 253562, 130328, 225819, 171812, 30504, 44603, 145484,
       7055, 176832, 17501, 24887, 88902, 71751, 5106, 74143, 239593, 51355, 114708, 203958, 105172, 106611, 200234,
       44727, 155325, 54369, 58220, 1967, 195970, 88550, 133584, 172610, 66701, 200160, 164559, 112911, 107205, 245098,
       113513, 7339, 242866, 1299, 3848, 31708, 101980, 22408, 249421, 60389, 71945, 170555, 129609, 80590, 226849,
       63338, 51026, 27650, 129354, 111503, 257404, 98902, 239943, 141033, 32585, 36552, 83895, 70568, 132834, 247633,
       130041, 53094, 13756, 112398, 66012, 238061, 12762, 19268, 97308, 92585, 154760, 228903, 45295, 211675, 220968,
       915, 46931, 111574, 52885, 15092, 61556, 30769, 191775, 52730, 107330, 218372, 177843, 44214, 156647, 120232,
       108465, 48657, 150486, 78, 97789, 242125, 40346, 123635, 146170, 31610, 1827, 20277, 30614, 37001, 162965,
       8937, 93487, 89023, 24526, 197229, 159311, 72816, 260367, 190010, 38189, 73017, 85116, 54708, 201564, 261576,
       49396, 182384, 77007, 114806, 159994, 62663, 118659, 91854, 213281, 64612, 224444, 203671, 43274, 52617, 126504,
       13998, 152535, 10335, 124964, 110678, 227186, 7894, 17333, 125350, 39013, 161790, 107137, 39068, 34896, 142868,
       41995, 167084, 143783, 21533, 106200, 37907, 102650, 140266, 117110, 16056, 10423, 207295, 83218, 127304, 158237,
       16232, 195667, 138472, 9245, 64773, 82327, 119200, 195010, 206257, 24920, 146186, 246766, 107642, 235997, 92013,
       71385, 224798, 98859, 10204, 212268, 101, 125232, 132473, 259726, 32369, 181948, 235244, 112675, 113955, 153240,
       22126, 69488, 172541, 111928, 379, 159888, 1733, 242998, 90472, 67080, 23069, 152815, 100852, 99030, 32441,
       122525, 135808, 165466, 119170, 247043, 178676, 107429, 228301, 147642, 116417, 4347, 21814, 26112, 32155, 30698,
       37248, 158336, 248865, 37875, 178912, 229234, 49421, 55795, 221327, 51553, 85697, 42323, 71375, 250482, 9424,
       20955, 199319, 159561, 90603, 21683, 115200, 21963, 73777, 192422, 40672, 197490, 126737, 65974, 118740, 113834,
       104391, 15015, 159826, 96923, 186473, 70317, 84611, 125609, 215170, 20417, 134430, 69451, 71702, 85862, 205360,
       11461, 206539, 10723, 49461, 195640, 118030, 54200, 114991, 158897, 5218, 43251, 107368, 35912, 44085, 192359,
       125258, 232514, 208445, 124994, 139768, 58112, 46180, 55484, 22385, 5649, 57011, 25352, 23474, 87002, 91528,
       51408, 202013, 170579, 124227, 99764, 190001, 18507, 63872, 247538, 100075, 143828, 68829, 14245, 62338, 22093,
       128615, 103070, 204940, 50019, 62330, 79163, 101611, 141946, 107134, 44904, 25796, 157368, 82269, 213664, 239337,
       25167, 244386, 30246, 19139, 70003, 71385, 122953, 247175, 252714, 120277, 226494, 236905, 116322, 86227, 115572,
       81976, 213170, 83812, 105941, 86764, 147504, 9048, 212178, 777, 43881, 123023, 219448, 41117, 182443, 230674,
       83315, 79597, 35368, 46656, 25502, 132912, 19465, 21203, 39473, 78180, 34736, 87946, 106742, 243597, 77518,
       50085, 181053, 238702, 17336, 190061, 14513, 25780, 82679, 194553, 31127, 107944, 101695, 39308, 46480, 127196,
       84252, 114158, 219387, 78767, 33174, 38539, 91236, 151942, 177504, 47513, 225474, 100552, 108003, 5302, 115972,
       26750, 46641, 117692, 61478, 28536, 171682, 104980, 167800, 252694, 23613, 197728, 216393, 14399, 256388, 111969,
       115826, 58985, 198048, 44948, 124979, 8505, 89636, 58985, 148326, 3322, 129042, 131831, 90445, 216467, 105167,
       41432, 8154, 140395, 7306, 17081, 176552, 79929, 99164, 68386, 31562, 167190, 76081, 50699, 156979, 196672,
       10561, 232843, 169221, 19288, 257333, 1733, 39056, 123787, 67401, 11764, 250939, 75851, 119383, 215001, 85068,
       792, 156773, 183893, 63420, 138046, 225695, 16154, 76239, 250479, 40328, 29783, 201005, 121380, 125468, 141780,
       21193, 164754, 6508, 126593, 150420, 230801, 26973, 230838, 252206, 97198, 144957, 130069, 71654, 21617, 158718,
       115930, 103752, 75022, 72613, 1044, 189833, 70065, 195552, 108302, 25619, 18618, 154840, 21788, 3917, 45755,
       120126, 17305, 115208, 42970, 107059, 137240, 48769, 148195, 236080, 99591, 159005, 109058, 44410, 71168, 257506,
       124788, 191104, 134767, 96721, 175253, 73589, 78306, 64404, 56392, 115460, 181005, 250361, 6501, 247888, 103603,
       33693, 189055, 208386, 60953, 63543, 116463, 29750, 139231, 102819, 97505, 36886, 78637, 120482, 114044, 201960,
       55544, 104113, 658, 44844, 1091, 2170, 126032, 98975, 211190, 58307, 182996, 84567, 64100, 144688, 190386,
       46091, 118506, 211935, 119216, 88461, 186380, 74574, 34892, 158175, 99899, 195950, 78569, 106405, 34127, 241466,
       44806, 219577, 164746, 56845, 48075, 223600, 111210, 233941, 60810, 47612, 158716, 93499, 104062, 174538, 149101,
       123337, 195481, 250169, 81685, 112726, 220304, 97206, 149899, 109165, 105525, 187402, 134598, 110761, 9662, 177004,
       51780, 113010, 43154, 6719, 53509, 33016, 52674, 190480, 465, 88310, 151139, 50178, 59028, 85397, 93299,
       98168, 25718, 219207, 46790, 105118, 135346, 83197, 48250, 250434, 24434, 109225, 103857, 98221, 91960, 25237,
       71525, 121116, 232746, 26747, 33432, 180117, 38261, 99964, 21106, 98121, 167942, 230193, 63255, 133473, 105739,
       28315, 176411, 44079, 126782, 44424, 7169, 93732, 227173, 83646, 125453, 151196, 253464, 55981, 134350, 61385,
       62272, 92236, 187480, 117696, 206070, 78155, 68819, 70025, 32094, 92704, 120990, 74041, 33052, 210606, 66093,
       58553, 86954, 179115, 16180, 215170, 211946, 26998, 56429, 200188, 123, 171789, 201374, 5146, 143877, 171435,
       128094, 142939, 167265, 31765, 205397, 109363, 86941, 120931, 65525, 109982, 124707, 110692, 72176, 43964, 254562,
       20072, 250587, 100372, 95435, 177648, 81512, 78676, 40062, 11730, 95846, 125107, 110524, 100892, 60123, 5527,
       127848, 258923, 21633, 75178, 22607, 54965, 44779, 153071, 210104, 84995, 143236, 3459, 8970, 173183, 77855,
       117623, 173357, 176821, 15647, 133147, 180272, 42971, 4311, 151874, 106921, 99229, 57171, 78290, 243283, 107765,
       51594, 155953, 22143, 62054, 41614, 54343, 112007, 61845, 126704, 44565, 14388, 259617, 113986, 189657, 251624,
       11551, 250645, 149861, 101816, 137563, 41898, 111089, 200110, 46769, 23831, 53318, 45826, 56406, 99795, 231958,
       21692, 101309, 106473, 92616, 4297, 259482, 70169, 26910, 128784, 83273, 26659, 256918, 25753, 246345, 88415,
       27753, 249988, 164562, 5439, 36031, 129005, 42214, 9430, 39821, 73366, 223412, 81222, 112451, 64237, 188953,
       87415, 134845, 31021, 57068, 69966, 106057, 124927, 94275, 225655, 94272, 237746, 59052, 121918, 160817, 98268,
       69152, 2839, 192673, 33935, 26504, 65288, 6924, 26066, 89192, 95169, 103193, 249886, 15899, 111818, 189839,
       39685, 89551, 199867, 69792, 7035, 121148, 73979, 55310, 176013, 78719, 167980, 182190, 21791, 109749, 26509,
       49772, 246710, 56401, 80896, 231141, 256625, 127116, 25749, 43949, 95372, 17951, 202240, 120927, 136223, 21552,
       99904, 172728, 159877, 77557, 138031, 12812, 25168, 232532, 17481, 87383, 215420, 190388, 81707, 158982, 89078,
       78966, 219967, 182890, 64197, 55912, 110032, 69292, 20551, 153851, 43836, 13346, 238761, 68067, 92602, 97291,
       25894, 12496, 43463, 105535, 214593, 239761, 24350, 41158, 65900, 11136, 183906, 183949, 57179, 167553, 186531,
       86285, 176347, 35723, 57372, 110015, 259035, 36274, 188110, 28813, 73160, 160803, 8483, 45482, 76049, 222343,
       122272, 218596, 186544, 120932, 247395, 74861, 65846, 230473, 182766, 42976, 107705, 136902, 96617, 110038, 32084,
       4812, 10204, 209018, 62228, 242000, 234689, 44082, 152026, 43613, 120656, 125706, 125590, 1573, 68364, 186998,
       72458, 144543, 162768, 97080, 67344, 40692, 63572, 72787, 26200, 11193, 247980, 59121, 127462, 120406, 89214,
       67896, 173869, 256257, 80502, 162376, 6752, 31012, 240501, 36512, 63373, 15993, 183180, 56249, 126408, 117456,
       9816, 196032, 10283, 13914, 170356, 247819, 109769, 51928, 128671, 31433, 178461, 64148, 25553, 149569, 97113,
       66179, 197587, 252175, 100761, 58720, 200926, 8119, 119035, 47835, 75603, 96375, 94592, 15625, 39626, 192812,
       4779, 5990, 259680, 6913, 66924, 206595, 109335, 146274, 4741, 15462, 233144, 21852, 5918, 20876, 43143,
       57396, 108529, 159172, 110623, 239168, 59748, 34394, 102425, 195050, 55274, 187748, 176931, 5232, 190365, 230281,
       58861, 162268, 95558, 75708, 236376, 164207, 74829, 243623, 96838, 43571, 217945, 170619, 41357, 148126, 2153,
       13975, 97250, 133912, 48076, 259387, 59652, 13040, 253031, 127365, 100479, 69118, 72322, 126651, 132318, 91907,
       127149, 157072, 143603, 113386, 157060, 67282, 78747, 7496, 224840, 91863, 227716, 106329, 37382, 129753, 35248,
       82676, 89263, 106083, 59722, 235338, 65869, 63178, 256051, 150670, 99323, 75843, 234195, 36951, 157995, 120155,
       41686, 23064, 126882, 121194, 170091, 78344, 7369, 112925, 1231, 63653, 15404, 2520, 119642, 164236, 30177,
       80001, 131114, 36022, 71618, 175120, 92594, 32734, 122961, 65941, 44993, 211000, 105300, 111679, 180867, 240681,
       73297, 219930, 53994, 67468, 75712, 118835, 13052, 29415, 261038, 2100, 220862, 83729, 126312, 38024, 105833,
       49412, 86748, 86759, 79064, 89777, 235695, 10448, 108546, 183785, 89537, 40804, 232542, 122233, 100569, 221167,
       75453, 156248, 141523, 16530, 49161, 3954, 76247, 105919, 5763, 100446, 173517, 84357, 53269, 217129, 29356,
       115322, 24457, 146582, 85024, 45105, 36855, 117866, 92856, 32508, 81724, 23109, 135506, 17208, 46416, 249317,
       40591, 239064, 81930, 26449, 174969, 246027, 119121, 185259, 119836, 99667, 41319, 1966, 88656, 232524, 75957,
       39448, 67488, 32082, 24123, 30503, 168699, 99149, 146015, 127915, 62148, 217653, 134606, 29594, 180402, 32377,
       80821, 229617, 188078, 5286, 167422, 223034, 42751, 206451, 71005, 61414, 184128, 169811, 19393, 51057, 95503,
       129060, 165592, 236183, 27406, 212276, 193319, 17085, 169203, 193065, 26677, 189527, 135695, 100802, 99836, 95875,
       55771, 230102, 179273, 74110, 51918, 260586, 2753, 186705, 100557, 4512, 257026, 64740, 58435, 64609, 216537,
       107040, 166733, 68995, 116030, 7945, 150373, 11364, 210561, 97912, 70564, 86119, 46141, 119698, 220578, 117035,
       50852, 95647, 6212, 108732, 223518, 238849, 17523, 198394, 27047, 122604, 6959, 223987, 98490, 146033, 259561,
       123382, 152444, 251157, 88685, 150480, 37768, 47632, 21017, 105585, 122969, 74093, 192134, 36119, 23200, 235026,
       43538, 135479, 20929, 91856, 94624, 165617, 100311, 141036, 120113, 121818, 202751, 95588, 26843, 225800, 80602,
       104595, 52028, 81418, 96802, 185679, 114982, 8361, 178278, 46211, 50754, 29246, 4674, 37062, 166196, 24360,
       39910, 44276, 95887, 128836, 213227, 37101, 84250, 31756, 7885, 94067, 65366, 192972, 128007, 59495, 188227,
       49440, 155197, 49209, 105098, 208288, 259905, 56954, 220835, 245752, 113971, 135641, 191124, 23679, 38077, 173678,
       124215, 32138, 235607, 28674, 221607, 83417, 42758, 98118, 36995, 99115, 164759, 215583, 51610, 71805, 63485,
       79719, 126242, 35699, 58271, 36158, 23942, 97303, 239178, 176560, 29927, 218604, 163381, 7662, 53818, 256633,
       39312, 90698, 12173, 62168, 153438, 145400, 22022, 189865, 240685, 46503, 259614, 70524, 52426, 150516, 55043,
       7522, 121565, 153677, 76455, 64915, 201146, 115912, 173484, 145147, 19889, 64772, 69489, 78355, 233814, 201814,
       87128, 182731, 180622, 54963, 9235, 219058, 91894, 68936, 71392, 53835, 106133, 219149, 66143, 214593, 168227,
       963, 204015, 25784, 90665, 36385, 144443, 86683, 133068, 34853, 5033, 73346, 9139, 48267, 72896, 22197,
       128323, 173391, 142376, 55146, 205187, 185948, 65790, 259035, 91710, 119266, 95863, 136522, 94012, 248668, 23143,
       76293, 25225, 67050, 104569, 224183, 169047, 113294, 56433, 144760, 59885, 61168, 92407, 62273, 105803, 132679,
       50600, 122745, 188398, 126708, 28097, 202763, 91378, 255664, 108789, 10908, 56029, 24145, 113109, 221183, 48011,
       62987, 249709, 72281, 9011, 186652, 119177, 72052, 141575, 206167, 54678, 145850, 21099, 115048, 96991, 195952,
       26737, 257080, 131706, 108326, 96808, 147507, 73097, 97551, 242353, 7157, 231122, 160418, 127381, 185423, 187112,
       67189, 132454, 218734, 38125, 212608, 184562, 61526, 24534, 235936, 112441, 35494, 160774, 39964, 68765, 119680,
       25254, 125996, 254819, 16917, 164227, 98726, 39041, 7095, 36055, 102242, 121337, 40576, 61817, 2867, 146804,
       29816, 122882, 116155, 21782, 52499, 72657, 43611, 135776, 57207, 123197, 201170, 15579, 44961, 51713, 217152,
       129515, 104564, 241967, 63600, 33108, 74196, 23483, 97805, 114115, 116803, 134771, 68285, 60339, 183361, 56536,
       93018, 11098, 21631, 128937, 11700, 167121, 6576, 152965, 135542, 12673, 248863, 238483, 94431, 185078, 32013,
       36939, 96162, 207921, 24156, 197316, 16336, 5159, 62996, 73024, 2863, 129036, 12306, 101513, 98820, 256560,
       17620, 120112, 86840, 61305, 20074, 23212, 79416, 28143, 149812, 56144, 243061, 1906, 3552, 241994, 80034,
       102695, 28559, 224244, 1377, 259356, 171770, 99862, 113308, 8783, 117087, 54161, 135942, 56733, 50890, 196664,
       70194, 163324, 155196, 62519, 43840, 58617, 51014, 92290, 123745, 116316, 133352, 175516, 117169, 171209, 2257,
       44016, 32124, 203427, 80618, 110834, 3969, 121491, 164622, 171073, 126098, 244206, 87987, 66710, 73228, 243765,
       59352, 171148, 28839, 36529, 5603, 249792, 125681, 66627, 67256, 18718, 250744, 234780, 75999, 110675, 7390,
       37034, 112371, 196304, 36570, 45778, 223680, 53080, 11189, 132221, 130913, 206486, 113379, 7204, 142546, 18742,
       75830, 165988, 110195, 10822, 235378, 150280, 20253, 92858, 230802, 57614, 103259, 153411, 66907, 7952, 94015,
       33920, 114963, 7775, 41478, 175389, 139690, 11398, 246750, 167357, 39743, 163448, 233298, 126688, 196022, 130517,
       123824, 179812, 153299, 43893, 43842, 60293, 74822, 253528, 230999, 119222, 127691, 81443, 810, 137888, 14503,
       106257, 240368, 9380, 124304, 181934, 1159, 11970, 64657, 253361, 21161, 71068, 55096, 125926, 246257, 64772,
       70456, 121033, 204325, 1860, 204806, 40516, 33768, 89480, 193924, 58975, 4528, 56264, 90820, 250815, 174800,
       96096, 208950, 147949, 130471, 232925, 261463, 37684, 175092, 182411, 70545, 153404, 157055, 69903, 205537, 248920,
       53168, 192792, 216678, 22172, 101646, 68406, 128117, 48929, 21310, 111845, 259598, 204922, 65317, 132824, 84707,
       79068, 153103, 30628, 29787, 147013, 143139, 71275, 67866, 147226, 91091, 32843, 164637, 67523, 254999, 48030,
       129798, 172459, 2315, 80129, 202786, 34515, 48624, 69850, 19020, 101207, 133841, 52667, 22342, 226051, 130388,
       50399, 67301, 80202, 45476, 158215, 107412, 56597, 214845, 91572, 102469, 116744, 76446, 63461, 138325, 255834,
       104073, 16259, 144134, 75561, 145099, 246700, 44835, 190038, 137173, 106165, 139956, 158714, 31233, 27184, 299,
       29410, 85440, 40161, 66126, 54332, 108824, 34190, 8484, 195941, 1191, 14639, 121809, 84973, 171310, 159425,
       66990, 23427, 76781, 58394, 238808, 70301, 126742, 130324, 99326, 74868, 57524, 257115, 113171, 184487, 134399,
       18278, 5599, 95710, 74607, 7742, 131537, 113767, 216435, 59801, 76428, 219629, 3095, 94111, 145320, 251218,
       48764, 129635, 137550, 12117, 142369, 168183, 60017, 237891, 51422, 51705, 53140, 207398, 113647, 81847, 223083,
       31980, 249631, 223347, 126711, 206745, 130258, 125585, 20876, 233289, 32457, 150659, 150102, 45619, 226992, 176034,
       117382, 73942, 101474, 126697, 28242, 179662, 58122, 117987, 153910, 42073, 189993, 32035, 68956, 50988, 77099,
       90147, 74820, 76978, 35844, 223262, 157260, 96531, 3130, 252109, 6770, 218395, 63284, 6461, 33490, 96631,
       50631, 131619, 151011, 46330, 114879, 80786, 41370, 177420, 69717, 64358, 247026, 215273, 42039, 50358, 14937,
       25199, 165121, 193964, 40562, 207811, 143461, 127782, 171139, 158589, 53885, 120007, 135655, 58289, 103045, 199015,
       75568, 237220, 26833, 128888, 115657, 78880, 31667, 42599, 185509, 89297, 2304, 181740, 93845, 143065, 153695,
       79603, 59233, 133151, 11610, 36734, 258719, 88719, 769, 259066, 8401, 5757, 255735, 78137, 159740, 141760,
       96938, 100679, 62002, 27652, 64357, 59526, 110313, 20911, 241340, 3978, 139984, 153925, 110600, 62826, 223413,
       60336, 65359, 72150, 28519, 179952, 21864, 17534, 149165, 91517, 124951, 229918, 123064, 9524, 111121, 169223,
       26095, 150139, 206769, 45589, 202040, 89930, 81295, 110657, 5268, 71408, 44000, 180669, 16468, 90134, 243506,
       37975, 59319, 34921, 31293, 176197, 108112, 27989, 128194, 168827, 53889, 133816, 245711, 92278, 212481, 233918,
       28501, 259714, 88779, 48061, 87587, 174532, 51238, 86237, 197687, 127986, 28895, 33026, 125130, 7531, 25303,
       104875, 166001, 200613, 31674, 188237, 167885, 8917, 206263, 118282, 41537, 67931, 214252, 34969, 77380, 145456,
       66312, 185198, 170695, 101938, 92439, 110311, 112502, 27327, 34188, 110738, 6659, 58898, 47143, 103588, 259044,
       90077, 47150, 213206, 41003, 210747, 129875, 7983, 2978, 189213, 91955, 147454, 50732, 1288, 30663, 25081,
       53632, 99641, 213633, 43172, 104749, 16341, 90882, 99805, 198079, 100433, 85617, 186408, 39858, 76579, 22417,
       106381, 151004, 190349, 38524, 67536, 241078, 58500, 232955, 230694, 95291, 202472, 234457, 90822, 115418, 15289,
       129416, 94477, 120336, 29512, 80154, 191452, 86811, 87441, 172935, 79912, 59528, 15384, 119943, 205685, 62543,
       20494, 183141, 151536, 98539, 180590, 102205, 74484, 27281, 194057, 36001, 1280, 139352, 62185, 34882, 194365,
       43748, 200836, 178155, 75931, 200888, 232605, 116523, 23084, 153121, 74619, 247180, 414, 82801, 31670, 236369,
       67993, 83313, 216185, 6706, 95750, 244520, 30521, 62067, 3315, 64487, 170571, 233279, 40663, 41709, 259601,
       23824, 31007, 236198, 66077, 183463, 8872, 42311, 85261, 130091, 33830, 179570, 57575, 60815, 130189, 214630,
       17469, 218700, 72472, 121601, 128116, 130904, 113731, 117801, 228005, 92749, 64333, 224318, 13921, 172703, 843,
       101695, 205389, 68370, 105900, 152806, 87615, 100632, 116384, 228637, 14937, 193136, 77109, 84398, 79625, 241637,
       109356, 162431, 231833, 75674, 226755, 205184, 84725, 237891, 257620, 60078, 161998, 139993, 69298, 190272, 121250,
       4505, 221138, 230444, 83750, 42261, 217237, 10675, 117725, 194780, 57018, 61055, 207547, 38358, 233035, 239500,
       71490, 87107, 227801, 17487, 38254, 155897, 90655, 22015, 198356, 104203, 197176, 105857, 21411, 50970, 111008,
       13672, 137621, 201589, 19073, 1405, 17529, 114966, 226438, 50920, 69230, 215722, 192798, 61244, 218436, 101943,
       13986, 244201, 34141, 85138, 158575, 139473, 113770, 116001, 12075, 108551, 256446, 7466, 82058, 63652, 166386,
       9866, 244304, 217661, 14732, 27039, 28519, 6463, 7224, 74622, 33748, 82801, 230392, 17781, 110054, 65432,
       34085, 4386, 48434, 50470, 86370, 260647, 123598, 167634, 55695, 80003, 55288, 49720, 109441, 179316, 53763,
       93107, 50305, 207592, 14746, 2706, 124786, 96458, 146670, 178552, 36057, 199387, 183746, 83769, 37675, 176655,
       44690, 148847, 212336, 130766, 235638, 205549, 34544, 57546, 2255, 36586, 49562, 89280, 121985, 19367, 125944,
       3230, 50175, 141341, 91316, 109843, 49747, 95069, 257081, 23727, 109625, 213096, 110456, 127721, 185945, 8465,
       127874, 24837, 141889, 8555, 250391, 129778, 107720, 32430, 84945, 84713, 35553, 28065, 84848, 112259, 168326,
       16823, 21386, 8628, 85221, 87105, 79670, 128775, 250820, 151086, 119513, 231616, 120432, 57557, 192406, 162953,
       5236, 15926, 115882, 47486, 139544, 219326, 108316, 165392, 116673, 91946, 233367, 191415, 60207, 24019, 54799,
       7222, 70363, 192044, 55953, 247926, 180158, 61476, 9672, 202755, 121707, 165362, 105206, 84028, 114758, 116273,
       40848, 254565, 230122, 68854, 135150, 120225, 8658, 342, 153911, 127476, 121577, 249647, 47193, 202235, 38662,
       62635, 7849, 111030, 46567, 204753, 32483, 89458, 46527, 231647, 86800, 24499, 21173, 93758, 190286, 150563,
       35146, 18190, 161520, 41375, 78423, 215284, 16416, 243626, 192836, 85919, 794, 64874, 5216, 75779, 13370,
       78339, 109859, 199556, 113992, 204215, 59872, 116763, 39673, 9224, 58856, 72699, 174211, 60201, 223614, 120235,
       10088, 132318, 145277, 87918, 134588, 164514, 107644, 30080, 69809, 32067, 112018, 164284, 55220, 196387, 34117,
       109948, 91632, 10835, 114965, 244826, 24647, 31874, 22642, 56153, 72164, 103339, 247731, 25230, 121173, 125575,
       13353, 118849, 23683, 119422, 101281, 143823, 107545, 146694, 103789, 99619, 77240, 132547, 6391, 235651, 154660,
       110589, 57755, 19124, 57415, 82081, 199575, 44878, 108422, 242441, 71627, 196501, 33724, 11973, 223407, 13049,
       99175, 46272, 209302, 76340, 243898, 59719, 24456, 193246, 163004, 24671, 254512, 130421, 24149, 220006, 181896,
       7471, 109298, 166669, 77043, 240741, 138198, 110146, 30495, 253425, 2293, 137862, 134729, 6423, 35868, 7782,
       75074, 38195, 243906, 107412, 246015, 149317, 42826, 83850, 154359, 45824, 172616, 188467, 78164, 86014, 173641,
       35941, 165623, 115103, 3487, 160368, 217368, 96367, 228674, 173852, 82005, 48598, 165231, 76120, 222903, 52141,
       97214, 5807, 224659, 88503, 224484, 167016, 26985, 95408, 128656, 46200, 103752, 170989, 16529, 133297, 164880,
       17020, 162126, 75565, 88630, 86210, 95729, 112538, 113566, 171822, 126187, 74771, 214265, 82358, 187011, 74934,
       24130, 138583, 232010, 13847, 210260, 29905, 106542, 666, 46560, 75858, 201554, 135044, 81039, 223942, 231944,
       102427, 209426, 32140, 92179, 249769, 15569, 109374, 29391, 40336, 7368, 18092, 64202, 97979, 6527, 76198,
       111522, 254963, 73032, 37504, 76620, 205587, 83944, 184836, 237759, 41177, 222830, 154475, 125563, 48136, 118241,
       4380, 234484, 54475, 75994, 159285, 193729, 21823, 249801, 253052, 93352, 33222, 76140, 23054, 76343, 193619,
       30852, 40607, 8910, 64798, 44812, 80796, 119909, 64635, 208429, 27749, 216579, 196520, 18905, 217067, 213079,
       99480, 160249, 230168, 65617, 53304, 237079, 119509, 130613, 72127, 19217, 16576, 249656, 84663, 15936, 226787,
       30523, 245221, 36595, 20546, 236690, 242708, 89578, 120665, 209471, 77815, 112853, 44459, 98936, 195198, 81819,
       40561, 230377, 99097, 58716, 141805, 149853, 53145, 257834, 91110, 128986, 150528, 155921, 38305, 171771, 232343,
       38642, 74727, 254596, 46471, 89870, 50850, 74002, 124629, 67311, 33072, 117109, 51920, 119968, 231490, 77115,
       34823, 245984, 251424, 117416, 94258, 90914, 13562, 179186, 133378, 86056, 258612, 167536, 118880, 106397, 26973,
       22118, 85561, 28862, 126920, 144523, 181188, 59360, 85935, 25593, 123956, 202032, 183068, 88712, 41093, 90901,
       39529, 155768, 20786, 24681, 49426, 48648, 39811, 41937, 127612, 12191, 256341, 245024, 18857, 16275, 24390,
       13718, 13955, 205721, 55436, 14723, 103465, 104278, 12827, 117685, 18531, 111468, 107844, 17081, 94323, 211259,
       84335, 136123, 213009, 25845, 43991, 11749, 12793, 247179, 135125, 21869, 46358, 56737, 121075, 84284, 166058,
       107671, 230698, 58487, 46407, 249119, 236311, 85959, 193885, 175694, 70421, 208954, 189985, 88752, 8247, 232153,
       89479, 19214, 380, 82409, 111364, 137240, 34878, 114970, 80916, 5112, 170284, 21641, 59712, 12910, 86988,
       116781, 191106, 181714, 74645, 37923, 259923, 109103, 41580, 195175, 129974, 48727, 127848, 21445, 131886, 250728,
       90672, 177921, 196930, 88381, 1911, 145902, 128444, 188847, 138109, 129184, 172857, 243006, 90004, 88865, 194654,
       31931, 20451, 21742, 104668, 81478, 106520, 14028, 137017, 64180, 102327, 214747, 109265, 119301, 59345, 47033,
       50178, 193650, 203606, 82658, 164989, 64264, 56379, 175159, 194948, 57378, 194324, 11856, 40680, 244626, 209334,
       99893, 223769, 46215, 122706, 140147, 3744, 123306, 25328, 201138, 22908, 244467, 242641, 114654, 104765, 70533,
       96656, 160927, 202646, 33139, 236921, 95295, 8819, 33760, 45978, 35126, 245829, 127480, 119564, 251136, 248464,
       82991, 260905, 161393, 94510, 20057, 125262, 33705, 123984, 216166, 94291, 168906, 154378, 3685, 246958, 58597,
       49194, 31308, 179940, 82149, 213621, 47819, 19149, 44312, 121406, 107872, 189925, 242611, 30806, 5871, 122881,
       85495, 207098, 217502, 53109, 262110, 91625, 78124, 164140, 139981, 14083, 198923, 216609, 2216, 208276, 98765,
       119218, 112361, 164334, 35340, 247597, 105368, 107436, 184577, 210497, 130986, 220878, 54260, 27712, 188179, 172935,
       34756, 120425, 238221, 86882, 93869, 208445, 126543, 74300, 162576, 120037, 162069, 129608, 65912, 235973, 32881,
       104216, 182177, 85150, 17792, 125949, 14041, 128114, 203864, 37448, 126399, 185359, 212643, 21460, 73915, 260468,
       39245, 258949, 147785, 13127, 135222, 152097, 35614, 149192, 32144, 106948, 250932, 42311, 49586, 152898, 191203,
       11586, 96279, 180174, 44856, 48230, 66758, 128631, 229739, 64456, 82533, 232835, 190793, 54547, 12469, 129722,
       21828, 140519, 252139, 129260, 43299, 68138, 107590, 84237, 239367, 36893, 207876, 195034, 9184, 11556, 201083,
       7422, 6568, 114050, 15778, 53690, 61376, 76122, 131017, 90560, 121734, 230462, 102053, 65109, 40526, 81021,
       110486, 144251, 178905, 58443, 65808, 45841, 92875, 121244, 118549, 95928, 6139, 219196, 22801, 202076, 96053,
       47345, 81600, 191090, 83532, 122752, 2276, 9266, 90656, 188699, 47387, 208533, 13837, 70097, 61772, 201277,
       130577, 35848, 211608, 62198, 16546, 142084, 106962, 50139, 232438, 56631, 242008, 68435, 104384, 137571, 240034,
       78042, 54756, 26620, 116207, 219600, 74411, 53863, 16311, 7319, 79207, 101951, 181416, 82577, 211945, 4053,
       54707, 56871, 139050, 18915, 70304, 118817, 12263, 4871, 97806, 2185, 45476, 207688, 114495, 231494, 248762,
       30995, 62835, 30751, 27722, 160600, 101639, 96473, 165676, 59173, 41945, 39839, 59528, 66328, 76001, 205977,
       21300, 170485, 137773, 125795, 207409, 63089, 111618, 125111, 169719, 113218, 166058, 18580, 53316, 170071, 237165,
       99924, 54788, 233149, 18858, 35504, 153763, 1129, 186098, 12238, 2617, 233889, 215679, 76887, 16495, 114016,
       59689, 136582, 115185, 67897, 80691, 27518, 978, 54720, 36518, 55402, 99775, 21882, 94118, 165157, 66172,
       58024, 196320, 199875, 95973, 114244, 239225, 30542, 68603, 119944, 106580, 39010, 6074, 77126, 225325, 141117,
       27625, 36954, 10577, 31027, 111728, 179873, 82317, 54801, 194717, 108781, 220820, 6266, 54477, 43160, 260546,
       33855, 250045, 43567, 113640, 247815, 122550, 87722, 87434, 146009, 58731, 120845, 142685, 63950, 14259, 129216,
       26772, 79630, 69825, 82156, 71913, 105468, 47021, 25779, 192187, 130501, 53633, 233774, 62938, 160881, 6554,
       63685, 261665, 118539, 74167, 85322, 129982, 120161, 11230, 118890, 104964, 217575, 141536, 59130, 136448, 50177,
       94201, 91800, 25930, 76839, 15544, 36950, 64535, 139934, 104655, 25207, 55828, 238556, 60809, 14135, 193350,
       32219, 244800, 22834, 119910, 49876, 241567, 43962, 115830, 151795, 124815, 39036, 164632, 69868, 163311, 87194,
       82777, 205731, 24638, 71164, 76006, 15448, 16958, 46196, 227086, 49259, 167462, 67025, 12995, 73198, 16649,
       81651, 218229, 112331, 58572, 182062, 130454, 101972, 12109, 108346, 28897, 132877, 1432, 21570, 631, 231984,
       53258, 203994, 105070, 121449, 104686, 261251, 93116, 106990, 195602, 54909, 41248, 15436, 67799, 235361, 211234,
       11037, 253703, 59391, 129050, 87002, 241782, 87347, 88667, 220587, 37408, 126369, 148362, 76783, 20407, 3670,
       14350, 19054, 10547, 126594, 37710, 117765, 22909, 109558, 85591, 84938, 165110, 238285, 32172, 54346, 25089,
       94052, 53882, 205527, 101819, 139001, 12610, 88266, 123393, 64569, 80543, 176489, 169248, 116977, 185881, 187992,
       10305, 199298, 90292, 43373, 173062, 82708, 32543, 140648, 43515, 129500, 253240, 130800, 51038, 25480, 138134,
       96025, 3070, 255426, 89748, 77772, 245692, 27797, 239064, 126976, 31325, 236962, 164583, 36868, 139018, 167594,
       53887, 71988, 246469, 30713, 119276, 214047, 2575, 199005, 190043, 115263, 211482, 139198, 126564, 107955, 213850,
       44770, 82252, 173323, 44368, 202820, 216890, 929, 141055, 126413, 89161, 214491, 179192, 108192, 15208, 113267,
       19216, 63738, 248216, 20927, 206502, 112455, 103557, 207549, 251067, 80778, 120840, 17652, 5879, 252447, 34326,
       81598, 125602, 18295, 40490, 121574, 39358, 48329, 142495, 177836, 100890, 61986, 81362, 106290, 235293, 166349,
       52475, 142552, 29252, 124145, 60195, 173381, 53275, 231045, 47023, 101166, 24329, 131336, 63422, 199444, 170776,
       117641, 93612, 31760, 118982, 21424, 112837, 11457, 234839, 109095, 122748, 14135, 51406, 108204, 131792, 81219,
       103718, 177719, 151631, 26333, 223114, 198948, 105528, 153335, 225827, 111428, 156709, 222881, 37899, 134384, 226577,
       124814, 165934, 215121, 6535, 70545, 69589, 19648, 237408, 134735, 70461, 218871, 5694, 75470, 70982, 7014,
       84561, 29286, 81906, 2224, 46587, 160481, 125877, 50825, 88190, 5844, 65664, 176504, 18751, 109121, 259861,
       1836, 238771, 143935, 74299, 70403, 178120, 122194, 22284, 177008, 87287, 7065, 114241, 107827, 94295, 122864,
       1740, 208116, 12842, 71043, 7655, 56837, 60235, 219830, 185808, 65400, 190417, 116724, 9465, 33194, 219402,
       89710, 81696, 39064, 65958, 27843, 256665, 100289, 154677, 212112, 63608, 3666, 210074, 19579, 196561, 189781,
       84968, 87945, 91896, 22595, 6620, 37964, 114346, 131126, 140782, 80362, 97435, 155000, 20605, 7189, 118092,
       126135, 150436, 163476, 67943, 51907, 54713, 9554, 247957, 194591, 82160, 63556, 40701, 33187, 75272, 6218,
       105341, 185630, 151758, 107193, 150687, 81149, 128312, 154095, 55463, 65781, 11316, 228801, 59632, 28348, 43697,
       98759, 145373, 212722, 17363, 50821, 90659, 71685, 81323, 87043, 71597, 200656, 168800, 11727, 110402, 192109,
       54786, 2636, 1387, 111841, 195328, 42111, 112217, 201206, 144729, 13007, 73194, 233699, 11890, 253635, 191227,
       34432, 5652, 63821, 114657, 88434, 146994, 16895, 136218, 22095, 94371, 110340, 19815, 13259, 256925, 194730,
       81675, 242421, 254890, 46670, 118759, 35183, 103404, 139186, 96792, 30630, 71960, 193983, 83781, 121158, 48757,
       30891, 99921, 244979, 93540, 230851, 96053, 114514, 190669, 98511, 16620, 43362, 153922, 113586, 112746, 256456,
       77801, 25099, 103367, 16660, 164170, 4980, 56038, 200819, 138675, 21084, 73501, 248423, 91795, 261748, 9560,
       99466, 95450, 108267, 13866, 252052, 214481, 66340, 199956, 54012, 106774, 140337, 17788, 122704, 199801, 126708,
       67307, 213340, 141743, 124554, 261723, 218658, 70213, 216199, 129097, 51667, 88213, 158690, 111175, 178379, 261242,
       64616, 60247, 75350, 61853, 53966, 52263, 64266, 62550, 179430, 110989, 210702, 50028, 109044, 63373, 228599,
       52890, 45206, 131857, 43686, 73199, 63518, 64477, 259513, 228510, 75074, 114922, 248984, 31239, 87784, 140741,
       104065, 73626, 202105, 63764, 70535, 28072, 43784, 4750, 184782, 14001, 63226, 118669, 31305, 239301, 244037,
       124424, 47643, 53496, 39990, 6855, 72790, 22132, 189995, 172422, 60381, 79730, 136771, 40250, 158517, 230077,
       4608, 103088, 139792, 42355, 76000, 155003, 71317, 106314, 87200, 72314, 11540, 260767, 46734, 233548, 108588,
       58628, 227244, 32672, 126552, 95572, 42622, 49459, 214855, 51567, 33846, 79919, 56468, 31911, 186751, 95474,
       60000, 32326, 168532, 99551, 216251, 36346, 26999, 74259, 161306, 92968, 225961, 260166, 2772, 39228, 213742,
       54910, 100477, 66975, 101694, 48713, 62657, 44398, 106425, 7544, 73890, 39153, 261777, 26867, 9962, 202284,
       97254, 214933, 93614, 6852, 85622, 112259, 111744, 123089, 127121, 25977, 261294, 244199, 114609, 25902, 260155,
       46206, 186834, 40715, 94723, 152429, 208248, 41841, 130608, 99700, 118739, 171592, 36732, 16598, 152388, 127643,
       23398, 247940, 240382, 64622, 116539, 261814, 10739, 218911, 165942, 25687, 134943, 174288, 123701, 91029, 83546,
       127990, 118716, 25789, 49317, 16466, 81906, 121016, 247816, 228217, 71411, 68128, 149309, 35355, 179434, 42416,
       92064, 211070, 91010, 86363, 151412, 30051, 129646, 166153, 194141, 34740, 72890, 139218, 88088, 48007, 48609,
       6818, 224819, 192078, 14895, 213276, 46893, 513, 154466, 38611, 131001, 81366, 82172, 105155, 162013, 135110,
       103117, 94106, 86159, 66810, 213946, 65359, 39330, 102941, 125798, 19826, 134294, 146872, 37312, 232618, 194830,
       49279, 78643, 100266, 99131, 20193, 83784, 70734, 144177, 240953, 10155, 244816, 65589, 2363, 25758, 226113,
       13412, 231587, 109475, 53804, 232627, 11139, 122315, 121116, 176946, 83545, 162009, 121344, 105096, 242312, 107181,
       61128, 170616, 172590, 47404, 77819, 42203, 14208, 66493, 140730, 114810, 76830, 54930, 102650, 92097, 176692,
       22035, 150808, 100591, 67143, 4359, 8510, 63881, 50023, 86043, 81931, 262142, 93326, 124018, 159532, 201926,
       75991, 210348, 51629, 70807, 93740, 102077, 6595, 243129, 142990, 8245, 107137, 97134, 24555, 240814, 19073,
       4256, 2355, 245244, 97432, 196798, 230910, 94808, 91646, 230288, 17833, 42666, 106568, 109586, 139902, 86738,
       20288, 30188, 87173, 39475, 179972, 15223, 32633, 235962, 225554, 48799, 9443, 136081, 33379, 75791, 206751,
       64087, 203379, 56735, 53399, 200756, 107001, 129311, 166801, 7510, 7330, 99238, 74186, 18635, 261453, 123610,
       6923, 260981, 197999, 82030, 67399, 133931, 7144, 167774, 147885, 109633, 217384, 220785, 67100, 215010, 184344,
       69075, 247298, 147499, 73609, 82657, 235078, 22388, 234386, 91696, 25911, 173908, 237085, 41788, 6329, 26902,
       77790, 199809, 258094, 27540, 146047, 202327, 15247, 218140, 51491, 127155, 42083, 187722, 2881, 52541, 186770,
       105211, 40452, 4758, 103289, 89948, 48629, 38956, 117526, 260693, 17776, 223297, 196212, 19087, 219671, 179373,
       91413, 198425, 220477, 84253, 247858, 248221, 102596, 10751, 252026, 122877, 139520, 146575, 90692, 79523, 131123,
       20427, 202532, 41520, 31908, 133867, 178468, 110388, 4375, 254285, 27434, 43508, 130069, 9505, 169116, 104111,
       92180, 84736, 85099, 52759, 244964, 226975, 120591, 128389, 146334, 85230, 60995, 63819, 11851, 103876, 111009,
       124237, 119533, 59344, 33889, 161915, 216229, 44199, 30288, 204915, 52725, 20169, 254267, 6714, 18606, 140794,
       65079, 70627, 136481, 16163, 157617, 74340, 52555, 257598, 89982, 45968, 61166, 132321, 101297, 182298, 219663,
       105273, 43332, 155541, 20108, 34949, 44517, 48044, 156560, 217568, 48936, 38147, 241044, 19845, 175559, 216692,
       104654, 235356, 149808, 92697, 217960, 11310, 24953, 189135, 52062, 48066, 255329, 25309, 13868, 19980, 23479,
       82340, 77357, 44192, 15908, 120820, 186439, 129228, 95250, 6231, 102325, 147034, 226069, 51149, 91008, 213350,
       75833, 139390, 73371, 119451, 103425, 3603, 72626, 236160, 78029, 22871, 226914, 64421, 49637, 106488, 223427,
       110512, 179240, 195225, 84438, 75610, 173925, 85291, 195691, 101517, 113616, 6756, 4599, 117174, 219306, 118670,
       120559, 13623, 44903, 12432, 19256, 155796, 71319, 179130, 177734, 97060, 16768, 19496, 99211, 239978, 73361,
       79523, 132651, 82832, 21861, 39216, 1826, 104519, 132866, 183820, 94386, 113431, 106201, 11289, 258958, 144364,
       60792, 126180, 83760, 22803, 148297, 134789, 44233, 207443, 236792, 2369, 242461, 155985, 52472, 9571, 128325,
       72073, 122633, 138610, 81209, 243690, 237444, 86965, 1708, 82969, 109614, 98301, 165595, 28241, 40418, 715,
       15791, 207993, 22437, 111612, 178309, 10320, 20527, 145456, 206429, 127763, 197494, 73943, 110433, 44775, 45910,
       65650, 235533, 4843, 128636, 227805, 18492, 12763, 95063, 74091, 39723, 114150, 72159, 83653, 91888, 226821,
       45876, 26283, 194356, 121683, 169642, 24245, 8601, 194675, 237269, 72012, 133077, 235483, 77446, 6134, 45315,
       85554, 99782, 110347, 33510, 179103, 56571, 47784, 118171, 88861, 110582, 234457, 121712, 25551, 141194, 143697,
       108379, 58317, 206603, 73748, 97410, 71991, 99901, 115727, 258404, 93533, 247650, 76135, 27198, 248177, 203655,
       74555, 110884, 66588, 113734, 54810, 62668, 56638, 88969, 20716, 126692, 258325, 208868, 59272, 193357, 145218,
       18715, 52158, 161697, 51043, 257526, 234523, 124741, 140983, 203127, 41906, 118270, 29396, 113783, 94898, 203035,
       115507, 75851, 55413, 45899, 169900, 11914, 10912, 196019, 197166, 94969, 66655, 42495, 40830, 141572, 140180,
       102619, 95412, 5018, 58019, 172037, 145548, 63604, 231329, 153130, 101962, 37161, 232212, 50117, 33168, 208274,
       58081, 153985, 454, 49308, 9731, 120453, 48148, 14684, 234264, 68936, 227993, 230513, 106010, 251865, 63773,
       47417, 182499, 129074, 68715, 30075, 226909, 87913, 149946, 124821, 35315, 253521, 3243, 36375, 122967, 157212,
       122344, 85297, 205169, 94835, 32399, 225107, 75653, 3152, 138522, 84897, 252437, 157011, 3840, 88239, 94780,
       81015, 260021, 48449, 66782, 90972, 41434, 71532, 131603, 168084, 47110, 104813, 34659, 10678, 248177, 62358,
       25341, 94379, 47119, 124616, 2896, 195715, 53569, 18094, 195406, 61169, 24799, 26494, 6908, 203836, 208778,
       4923, 230906, 158179, 94002, 106594, 238614, 70529, 37700, 109634, 66677, 29035, 237728, 31866, 214552, 43451,
       97615, 253728, 47372, 22051, 27498, 24934, 24895, 33219, 48705, 60386, 122086, 125811, 37523, 71850, 50700,
       32435, 122650, 245420, 84572, 154284, 9714, 85324, 44194, 175517, 108071, 26574, 72237, 54749, 235219, 69116,
       9579, 107230, 68154, 35870, 106, 4631, 128451, 72370, 171254, 78152, 210756, 176184, 93026, 172799, 217602,
       964, 106284, 232145, 67922, 68610, 154480, 4918, 250662, 24911, 74610, 37318, 163395, 120687, 72562, 98728,
       126932, 165746, 146817, 70851, 83956, 127367, 60057, 215019, 111813, 123865, 73551, 174549, 88291, 101685, 136021,
       8506, 125401, 55429, 61043, 152807, 246646, 31489, 103562, 170082, 61578, 50337, 34726, 59698, 205377, 201865,
       76302, 231629, 1438, 46762, 162977, 215834, 21531, 67200, 235787, 66023, 134671, 101656, 108816, 92394, 125658,
       87033, 107677, 145637, 44350, 144945, 86224, 122620, 229019, 61563, 119564, 228269, 112884, 27439, 187014, 156554,
       5166, 142007, 218639, 97164, 213652, 223401, 108476, 139506, 164891, 126859, 247565, 195677, 116632, 166683, 52140,
       78713, 76844, 120570, 69475, 5296, 179252, 3649, 47781, 71445, 32329, 197604, 96224, 60242, 163771, 161645,
       82379, 68994, 36439, 73040, 29437, 238272, 97338, 205636, 32410, 36669, 160213, 77873, 74049, 122733, 67721,
       11552, 256934, 19974, 54219, 253626, 47376, 98325, 21154, 63188, 90885, 114467, 254245, 129845, 137585, 103667,
       36423, 195471, 190899, 65298, 175065, 93114, 43192, 55153, 150290, 57750, 191723, 52247, 112322, 43888, 192885,
       89680, 170892, 127832, 115663, 86987, 222595, 26674, 159381, 69553, 114473, 49397, 213864, 7833, 42153, 12051,
       116470, 127109, 213285, 43132, 93958, 10366, 41233, 165225, 240024, 67120, 124236, 159277, 123298, 37823, 135017,
       6262, 209461, 83646, 46167, 162100, 140598, 112272, 158256, 135495, 51911, 171040, 41313, 26103, 234063, 161950,
       55678, 163298, 208682, 50535, 36038, 100057, 119985, 113340, 58801, 99868, 68812, 30991, 66206, 132676, 254536,
       129547, 185315, 48515, 60984, 224547, 39233, 7633, 91478, 27395, 34376, 214934, 54399, 57156, 165146, 90099,
       20565, 141754, 239423, 124199, 67171, 35386, 100512, 109768, 211773, 35164, 246398, 47565, 77437, 244270, 79659,
       94561, 205500, 25958, 123375, 81728, 143878, 115557, 185725, 169721, 67527, 72211, 88215, 101535, 70302, 45577,
       73681, 114602, 120478, 72444, 1120, 246572, 15039, 120052, 87092, 16533, 30175, 206371, 69407, 7861, 61046,
       35240, 57782, 182172, 2757, 91456, 161176, 94743, 256936, 37932, 4258, 21810, 194197, 78024, 33060, 226708,
       70673, 54783, 226434, 126984, 125599, 86045, 63466, 205678, 87266, 8336, 96329, 201881, 72310, 221594, 158238,
       110244, 41228, 182435, 130659, 7704, 62477, 56405, 246536, 107823, 41982, 51583, 206432, 118836, 225689, 197996,
       25066, 128015, 260785, 80665, 130744, 166058, 53177, 209978, 257199, 5384, 196015, 107891, 45519, 208379, 95857,
       34764, 8624, 241985, 89927, 89058, 25538, 124359, 227570, 193676, 35133, 126076, 159453, 106360, 121523, 208455,
       7256, 31962, 27296, 70532, 156507, 76515, 9247, 36162, 240572, 122425, 150002, 86306, 100447, 51129, 244762,
       86238, 212536, 62554, 107989, 195698, 253060, 84871, 187339, 233741, 127001, 125836, 12615, 93579, 234918, 101642,
       121196, 223680, 252879, 67781, 134047, 61434, 15343, 227210, 68237, 69229, 81343, 236259, 16629, 124602, 67144,
       77659, 80033, 64837, 63241, 86620, 27810, 81602, 53095, 232756, 1316, 230136, 113316, 25538, 34844, 202060,
       64399, 173636, 193267, 124584, 105598, 14378, 50280, 105942, 53162, 55623, 76073, 236183, 93676, 169286, 236029,
       79140, 85008, 221339, 39180, 222388, 191949, 53846, 138044, 257324, 28534, 91235, 131264, 126618, 95601, 154028,
       17122, 133604, 46233, 48737, 102505, 78788, 3386, 200741, 46558, 29069, 21382, 58883, 102297, 239350, 135593,
       26368, 115355, 148773, 10494, 18427, 195855, 62187, 138199, 84796, 1306, 180233, 54325, 11110, 123048, 144256,
       105857, 36169, 108087, 101118, 145295, 68659, 119949, 19783, 134314, 112003, 12377, 81481, 89545, 49132, 86819,
       6859, 97588, 236101, 102609, 139999, 202357, 110822, 207879, 208980, 104737, 77335, 69309, 66647, 95450, 208879,
       30526, 238497, 110714, 110799, 23743, 76664, 95310, 179253, 160149, 128550, 86153, 129332, 20406, 246460, 190872,
       29578, 80800, 155299, 27760, 211576, 197888, 103879, 202485, 184719, 24498, 82093, 25238, 8737, 62184, 100716,
       130883, 94906, 215286, 3252, 220604, 73049, 109477, 28692, 127055, 47889, 95068, 6014, 110312, 58075, 194659,
       72695, 56891, 143284, 118178, 159517, 149291, 121397, 253523, 126655, 1192, 135480, 113272, 9884, 111340, 229055,
       32815, 5086, 52287, 87728, 133759, 240885, 116427, 160783, 184557, 60285, 134070, 243259, 79557, 47263, 155557,
       24707, 13816, 121109, 105508, 160655, 24124, 126789, 165206, 30616, 35205, 209540, 227948, 64857, 216826, 181247,
       11287, 107698, 70459, 73287, 41900, 6787, 65900, 217917, 161084, 18931, 151742, 94960, 57942, 131776, 18242,
       43791, 200529, 59239, 68397, 109179, 217773, 76762, 232011, 109695, 1113, 139586, 59899, 99746, 151046, 164991,
       93456, 54857, 3724, 48009, 233101, 213990, 6938, 109824, 107453, 98950, 135752, 132142, 125196, 188385, 168046,
       31477, 39319, 255338, 42405, 4763, 160663, 24092, 189543, 68488, 75620, 44973, 46365, 20295, 97328, 163260,
       46687, 13777, 157072, 91358, 233245, 228698, 73415, 136871, 245457, 50654, 110423, 87615, 55082, 250559, 95242,
       73676, 261516, 193914, 768, 183923, 210338, 10290, 116779, 97552, 115508, 67491, 6893, 10207, 197881, 141840,
       92642, 42195, 92923, 120591, 63503, 94921, 35479, 10848, 82502, 48561, 14060, 248840, 74569, 174720, 204262,
       115567, 93865, 131236, 123457, 117737, 163953, 96936, 8927, 181257, 11353, 111488, 122163, 87707, 97904, 9818,
       53779, 86358, 252001, 61695, 189112, 18082, 6441, 256329, 122846, 25042, 235071, 254601, 103614, 52315, 52421,
       59501, 76589, 96221, 39539, 124081, 249213, 50334, 38813, 198601, 111987, 223611, 161717, 98172, 209507, 242063,
       35692, 242152, 188746, 15401, 52743, 119456, 33029, 238788, 233722, 120685, 102118, 233006, 76230, 3186, 69932,
       69924, 83340, 256053, 78170, 131569, 205181, 47976, 14902, 89926, 105789, 34437, 40506, 68588, 45945, 138571,
       15302, 99906, 38933, 16916, 216017, 146765, 70367, 52966, 78053, 122758, 34504, 45807, 40416, 86322, 3117,
       113972, 131094, 54434, 100151, 140698, 260515, 32481, 71438, 161548, 4763, 66732, 63813, 13349, 85127, 206726,
       95485, 41129, 176461, 26171, 29335, 21946, 48663, 58220, 55537, 65758, 186931, 111295, 95088, 147790, 68091,
       14841, 116102, 71341, 53263, 67494, 230223, 63579, 124871, 143563, 70887, 74692, 103731, 107264, 43513, 2180,
       22502, 53577, 45982, 105884, 22034, 53566, 90816, 251992, 127972, 72859, 26046, 74287, 91688, 135536, 41047,
       54003, 259281, 92756, 18140, 12684, 164508, 87263, 47598, 6994, 68769, 222450, 171190, 83804, 35089, 194498,
       44302, 46196, 220683, 118864, 213916, 21076, 76987, 194881, 131955, 11193, 229224, 55484, 58956, 185773, 127526,
       99137, 26426, 11524, 104088, 211098, 28108, 64827, 216242, 143299, 117276, 92695, 43792, 35083, 219519, 96339,
       53817, 260163, 91353, 117780, 234425, 116105, 117474, 42032, 137942, 89877, 195044, 108240, 112588, 78190, 84143,
       11635, 180786, 180558, 113376, 162928, 35017, 42024, 76648, 167353, 23374, 70253, 210568, 31374, 179093, 236897,
       54783, 253829, 110224, 32924, 62502, 89901, 42017, 113936, 206633, 17691, 235962, 191458, 38820, 126095, 75409,
       75010, 100699, 237029, 57914, 170190, 246311, 45445, 31843, 89907, 97838, 255179, 201080, 117114, 36430, 71714,
       99193, 229906, 169973, 43515, 261102, 198118, 97575, 137317, 1334, 19920, 90826, 243610, 17081, 10311, 120821,
       45302, 7077, 123068, 105867, 43231, 148788, 32289, 93706, 173243, 8290, 196820, 168494, 17263, 113298, 68484,
       112557, 110235, 134419, 83071, 63621, 243387, 33187, 152799, 226918, 72783, 192523, 31179, 69150, 240194, 215814,
       85909, 79840, 51173, 30564, 94144, 157417, 113299, 7428, 135570, 40549, 145796, 92696, 90981, 58759, 149581,
       2113, 128358, 164056, 48844, 239948, 34784, 46099, 81070, 136724, 71235, 154933, 50950, 9533, 180172, 139154,
       103564, 26061, 151391, 28544, 253034, 80459, 88740, 183624, 154216, 105278, 162376, 176374, 73646, 88187, 122310,
       97109, 11448, 55648, 86751, 93019, 228166, 46600, 412, 44851, 106018, 185185, 240129, 38627, 25677, 251117,
       74870, 5126, 95429, 97700, 202497, 527, 49670, 133434, 43297, 39684, 93288, 10488, 60207, 104921, 241921,
       107212, 29132, 107994, 121886, 184900, 103365, 71445, 45374, 157903, 86699, 183098, 50973, 118393, 230742, 221448,
       12916, 192127, 141262, 30419, 880, 78367, 92916, 246839, 230146, 107969, 218657, 103693, 112332, 133379, 57650,
       54408, 243239, 108682, 11709, 251572, 149744, 57380, 234302, 97379, 30242, 221303, 252199, 38167, 183959, 97804,
       101222, 171235, 8197, 9899, 127459, 143367, 108472, 190142, 237983, 56055, 115977, 49, 78127, 76435, 57154,
       11750, 235209, 95779, 44218, 86276, 111605, 11757, 73100, 188549, 126031, 120283, 154041, 105809, 104569, 97027,
       60244, 258049, 13418, 29308, 8706, 214805, 122349, 216938, 172707, 45166, 252967, 178839, 21100, 144554, 26048,
       73815, 21685, 118649, 123702, 94765, 140831, 502, 11491, 121771, 31211, 130929, 33661, 123004, 54820, 149042,
       22424, 152003, 169976, 14843, 11978, 61203, 74735, 151715, 172920, 112963, 155610, 127711, 62535, 193468, 201190,
       130359, 137953, 221424, 89020, 103023, 19750, 9709, 38335, 100889, 130132, 129279, 245471, 53463, 134585, 152669,
       37670, 111389, 60567, 73122, 89220, 180772, 39886, 53654, 94643, 11332, 41516, 156744, 187, 56566, 131139,
       58927, 206892, 248623, 109689, 95021, 119230, 75014, 130026, 74130, 130968, 25975, 24272, 37597, 147728, 46189,
       36759, 211353, 35651, 20938, 178586, 17706, 21504, 37392, 134268, 37379, 256248, 253167, 103919, 34187, 71216,
       118719, 92815, 80662, 127806, 163973, 39202, 30446, 175516, 91051, 115513, 113219, 173208, 43025, 13385, 139928,
       14790, 61826, 236665, 114035, 237774, 134107, 83375, 167180, 200627, 21591, 159386, 123595, 56338, 220878, 140300,
       37651, 115496, 44779, 96573, 36099, 221713, 59430, 45136, 14313, 129666, 236182, 148056, 7175, 140067, 104986,
       46532, 147053, 22892, 63163, 162189, 103364, 65946, 189081, 82332, 41410, 89158, 65378, 95582, 256358, 106846,
       114654, 222407, 66805, 123039, 214000, 249288, 105525, 52188, 168129, 111487, 64912, 119688, 72161, 19305, 9163,
       108250, 215381, 62100, 39780, 226591, 259229, 52229, 107035, 72645, 41538, 110768, 57554, 61261, 102978, 133004,
       37431, 128833, 50696, 126040, 87807, 141016, 41005, 44848, 28585, 12850, 234277, 236794, 69050, 256793, 69053,
       7484, 23700, 112766, 14489, 29856, 192188, 28755, 211293, 130639, 60863, 82825, 17252, 56787, 17353, 217652,
       104817, 55505, 113945, 96924, 110581, 59111, 55878, 102611, 3304, 43739, 72848, 157131, 41480, 51501, 260094,
       101449, 22041, 141419, 6825, 61453, 250359, 1680, 146602, 165311, 104273, 155854, 191176, 62540, 138882, 58482,
       17154, 223502, 1790, 30876, 25737, 21093, 122225, 41455, 144653, 112656, 202904, 259254, 93032, 248015, 55951,
       63206, 59084, 219959, 68199, 225006, 163852, 127827, 65989, 46809, 126585, 121535, 107828, 28215, 195131, 243867,
       106313, 25615, 89349, 25852, 259716, 132504, 27988, 205599, 224174, 88616, 227062, 84448, 53084, 79690, 57865,
       122099, 101850, 92724, 11666, 179299, 60792, 67046, 180562, 193390, 120392, 119023, 105013, 118503, 258397, 2773,
       20516, 156515, 239522, 48055, 245531, 41810, 81149, 125867, 166290, 20892, 54089, 247172, 126880, 157845, 239774,
       119898, 6295, 101197, 21882, 129464, 30178, 15880, 23230, 204949, 11194, 173187, 183454, 119202, 157268, 192397,
       25378, 173014, 101562, 54563, 78159, 85355, 58831, 221825, 241782, 78513, 150886, 188917, 9402, 129754, 235947,
       29721, 184942, 149721, 122092, 80738, 220565, 119067, 33968, 155940, 102405, 85914, 58962, 2542, 251675, 119325,
       42861, 113026, 23911, 82307, 211644, 74047, 36069, 191741, 254578, 119221, 91041, 16145, 83085, 41822, 208411,
       9424, 250937, 234568, 119145, 47327, 116533, 125536, 102608, 138594, 10185, 241723, 231798, 69777, 136499, 94847,
       39762, 147639, 19664, 51490, 53328, 164555, 23547, 64078, 114843, 75769, 17446, 258553, 125564, 70723, 151449,
       65938, 191853, 115850, 10867, 204475, 159020, 81264, 213590, 24870, 44593, 185684, 32167, 112187, 216648, 245836,
       56974, 35194, 115505, 25275, 228910, 63699, 25048, 156284, 84270, 100763, 120244, 70501, 34811, 25607, 164198,
       100562, 213762, 131995, 26986, 16147, 60677, 42164, 19849, 33810, 61012, 80858, 194117, 123626, 148481, 65646,
       122123, 236271, 205860, 27115, 28955, 54342, 46952, 127447, 143598, 19582, 20091, 160122, 66844, 200360, 208533,
       60369, 124802, 192634, 118064, 114298, 32596, 121897, 174293, 192480, 50274, 247745, 132884, 64453, 19835, 196862,
       117471, 125212, 151728, 105736, 211229, 142385, 479, 62925, 50882, 41950, 222087, 137363, 55282, 207995, 75188,
       30109, 97710, 59011, 26158, 65755, 226347, 4952, 128672, 259922, 84327, 198339, 75776, 34407, 196291, 238355,
       6861, 65371, 53197, 30274, 241222, 43331, 105108, 122061, 25690, 111606, 102240, 146216, 63316, 120295, 66589,
       54535, 56337, 220415, 128169, 62734, 236895, 26288, 107757, 82068, 28227, 149926, 1168, 38255, 161121, 46513,
       22643, 169665, 77454, 49724, 54444, 30320, 119384, 226439, 258858, 80654, 228633, 81677, 53994, 172495, 240641,
       122475, 24029, 184008, 6352, 79660, 19709, 27561, 83673, 191622, 74172, 39648, 191079, 80681, 187020, 171370,
       5184, 231079, 257381, 52827, 25185, 223544, 85085, 238152, 36349, 91497, 131768, 216972, 83642, 71644, 167782,
       42016, 226215, 116353, 12257, 227970, 253544, 55982, 126504, 179500, 16876, 26637, 179681, 124206, 243314, 25453,
       62281, 156172, 166065, 41583, 208273, 196520, 100441, 1889, 256553, 65267, 30913, 220309, 40636, 204366, 64491,
       106426, 61847, 210651, 113659, 96137, 169602, 88212, 137985, 54101, 6155, 188946, 139378, 74229, 19018, 87624,
       100046, 154849, 223394, 17891, 189477, 166678, 29972, 87221, 259246, 115670, 104441, 47668, 2637, 103370, 101002,
       98661, 118334, 50859, 62098, 108264, 141952, 58559, 83991, 219003, 930, 41079, 221337, 107400, 43235, 55241,
       47162, 254116, 42997, 70879, 61033, 234096, 88775, 40778, 251682, 92095, 16736, 6670, 125302, 57218, 75784,
       69643, 207185, 177011, 52392, 10744, 14620, 125003, 220654, 227509, 84162, 176350, 233805, 39079, 42859, 259113,
       16575, 241584, 255132, 110435, 79591, 32585, 47471, 227289, 186108, 86569, 22890, 17751, 61710, 222748, 202068,
       26074, 32531, 94731, 78864, 70035, 190944, 7953, 223140, 134414, 54177, 163289, 146723, 71645, 239434, 231694,
       57153, 143914, 228706, 98129, 251489, 6682, 108517, 204378, 135064, 101088, 97569, 239089, 5087, 76204, 27357,
       25444, 221826, 59018, 70334, 57528, 159232, 122528, 260698, 75740, 109439, 119123, 99553, 110432, 179064, 256748,
       39742, 27360, 161554, 56288, 155914, 81792, 61696, 96974, 9752, 20627, 2142, 120803, 4072, 42458, 205119,
       124112, 119757, 95412, 31550, 178265, 74155, 31450, 152753, 165778, 10928, 172840, 227012, 121701, 96485, 117460,
       75987, 79463, 144103, 87429, 224116, 167813, 119482, 53940, 176768, 45301, 33234, 35415, 81462, 54076, 132053,
       5085, 136873, 80120, 24480, 170084, 92143, 108953, 13150, 101698, 100501, 225968, 169505, 45959, 115043, 31173,
       49389, 84568, 158276, 69934, 12245, 258849, 31, 154393, 242925, 31620, 98989, 7474, 27293, 94271, 176606,
       32831, 78851, 253637, 105631, 181034, 181312, 36657, 107931, 80046, 25103, 21685, 140656, 66094, 215045, 102443,
       113461, 216585, 85174, 31634, 49383, 13312, 10293, 236562, 200878, 46714, 178660, 238716, 97996, 57658, 107603,
       72180, 29117, 116537, 107058, 194127, 76470, 125775, 173531, 220336, 103895, 224435, 82954, 79141, 177510, 226556,
       64663, 70419, 139835, 5251, 245179, 149748, 129017, 13213, 241827, 50263, 167168, 195402, 19952, 224514, 107867,
       87386, 226255, 13369, 37262, 61506, 106517, 76779, 33954, 222879, 76908, 221044, 73109, 58422, 183261, 9983,
       109591, 193770, 194522, 34729, 199935, 47913, 58803, 44839, 89951, 70476, 100316, 240856, 86982, 162372, 26600,
       102756, 198807, 65238, 51748, 47233, 125264, 84678, 174340, 158587, 19740, 230382, 206948, 122244, 13588, 13559,
       50208, 74416, 48245, 95619, 218056, 252117, 2666, 38347, 155632, 26894, 75810, 179987, 63842, 231538, 151494,
       115114, 80596, 87501, 69108, 101453, 127369, 121879, 257911, 194946, 63412, 59461, 218952, 64284, 37750, 175417,
       15695, 118243, 75106, 105205, 199028, 134166, 32370, 65678, 82175, 117914, 2151, 109557, 119383, 144757, 207093,
       123641, 142339, 231891, 68187, 170568, 167470, 88748, 9583, 200519, 102041, 166050, 66067, 17172, 91251, 55913,
       78768, 173398, 126134, 4495, 129635, 92609, 65216, 257342, 7102, 20295, 141548, 175777, 23976, 19333, 148443,
       47847, 134915, 113461, 56680, 105988, 256440, 81680, 119545, 20494, 9755, 126264, 181253, 66019, 232398, 61793,
       23937, 10766, 240773, 75232, 19435, 214344, 83545, 235231, 223019, 72968, 261010, 52389, 96769, 227842, 79601,
       43988, 255553, 262034, 100284, 13416, 38429, 56723, 169589, 203532, 63463, 8012, 53939, 84948, 11016, 113942,
       2406, 70807, 19035, 85720, 86662, 48128, 81079, 50504, 117483, 40612, 73737, 189228, 11245, 59902, 161510,
       11919, 23931, 101833, 121008, 205249, 140793, 90345, 57459, 207721, 16659, 155659, 13525, 46756, 109903, 67578,
       77657, 244049, 248563, 109520, 14294, 162095, 5722, 190119, 126582, 31015, 256326, 133707, 116621, 47095, 194361,
       1201, 90962, 82499, 26397, 205311, 143631, 125701, 56831, 4693, 80399, 211504, 249008, 34297, 206928, 16181,
       8780, 172156, 112018, 3695, 25002, 2561, 32079, 59527, 47224, 115538, 28664, 46403, 54514, 166329, 89450,
       94415, 140342, 74312, 120361, 119578, 237233, 53482, 178096, 60484, 25071, 28200, 147803, 67779, 178633, 169153,
       119024, 90447, 163941, 105430, 252499, 179483, 8628, 117762, 200379, 90776, 236467, 120293, 74959, 197148, 261372,
       118943, 3525, 224769, 16053, 231805, 240690, 69997, 47560, 203327, 115272, 244885, 127190, 53742, 167189, 26979,
       63176, 9924, 1834, 9235, 110609, 227716, 36456, 221050, 143560, 42533, 192812, 31823, 123879, 23488, 156711,
       37049, 203497, 96299, 60406, 258701, 224473, 87989, 55942, 248960, 21257, 183235, 150622, 63758, 256001, 78689,
       96801, 206826, 248043, 113620, 117042, 143365, 82085, 14587, 244956, 87694, 47804, 126094, 16552, 59590, 54602,
       123964, 214183, 258988, 17376, 196472, 195500, 101537, 244114, 88261, 34710, 1291, 230460, 122367, 241311, 192317,
       94366, 140704, 73692, 98803, 228324, 38641, 28712, 137345, 117447, 58070, 35603, 196335, 80978, 2894, 101228,
       100921, 257447, 220497, 13626, 42813, 65606, 126139, 38471, 213679, 116683, 978, 10503, 35435, 34197, 153577,
       107840, 217730, 47978, 67937, 197457, 137285, 60529, 235707, 30822, 41213, 132937, 171945, 76148, 187324, 180423,
       95668, 6929, 247982, 53861, 209117, 84563, 82473, 4735, 233049, 91660, 89968, 67646, 93208, 41628, 110623,
       6811, 78751, 207924, 112688, 226593, 209978, 60064, 46785, 156185, 34395, 105030, 167154, 31688, 146151, 175699,
       63309, 164049, 96932, 116238, 205400, 168848, 49590, 202958, 204802, 98268, 13915, 61857, 12690, 58905, 220884,
       62397, 184566, 63802, 129982, 74919, 17331, 100982, 215924, 199617, 27594, 102245, 217573, 65724, 245587, 32654,
       30621, 174331, 65689, 53681, 254242, 129839, 102247, 45392, 154689, 101085, 256636, 75339, 29897, 150138, 96438,
       120877, 171640, 175589, 77669, 25389, 172, 49797, 114469, 26929, 65789, 183617, 57803, 79307, 235754, 31115,
       73385, 254748, 246824, 63754, 21185, 236146, 66182, 144833, 244420, 23122, 173519, 78963, 106526, 138210, 255214,
       71009, 159555, 88411, 17180, 235833, 127722, 100421, 194935, 44420, 122217, 77891, 226184, 124165, 107451, 257781,
       48367, 233890, 209854, 17762, 122591, 261317, 67947, 177173, 47449, 14759, 240362, 68506, 122419, 157003, 25493,
       24062, 39037, 161940, 33130, 138096, 74587, 53298, 173762, 167715, 50222, 34923, 158682, 104158, 14321, 144075,
       59810, 93927, 12759, 22382, 245727, 71632, 35023, 192786, 63473, 66730, 133594, 180896, 19327, 20936, 25866,
       80170, 244506, 130892, 74153, 165403, 130565, 93677, 121113, 235388, 122906, 214786, 236229, 119571, 7820, 118064,
       124004, 6137, 49529, 32075, 95088, 79504, 17244, 138378, 113749, 39620, 3063, 209785, 117320, 158273, 85629,
       127408, 260315, 201427, 112633, 115339, 229627, 14420, 63633, 206041, 124181, 74071, 223479, 55490, 100495, 200696,
       1220, 83474, 189918, 57985, 113347, 196281, 6038, 99144, 230704, 71287, 43747, 59698, 44374, 249950, 44506,
       62054, 16676, 147579, 80369, 122034, 38189, 113875, 130346, 34604, 86756, 200128, 246995, 56891, 171255, 219344,
       107404, 12487, 148251, 118696, 121093, 195823, 15697, 46745, 149621, 69721, 136114, 6588, 37291, 144595, 83186,
       6168, 106254, 88235, 87627, 197242, 237922, 113085, 23945, 14403, 21351, 256043, 77585, 106484, 179026, 143432,
       111856, 74864, 182651, 119844, 112853, 79083, 34771, 117229, 243357, 118482, 245408, 229702, 42029, 238181, 27778,
       72396, 12609, 8373, 6620, 30203, 111832, 5751, 152571, 171211, 94420, 198636, 208168, 58258, 230601, 34420,
       33592, 197715, 104743, 24957, 230097, 39878, 87812, 37736, 170659, 52, 165459, 171419, 105629, 201150, 179708,
       10387, 106004, 102604, 25098, 242956, 113261, 50624, 203634, 177247, 63551, 106098, 21897, 46529, 241125, 74685,
       42036, 100896, 77382, 126342, 104735, 146980, 84093, 34597, 196048, 3071, 105991, 160558, 56384, 4370, 95243,
       114689, 36776, 242925, 39512, 121966, 127294, 12393, 180675, 126454, 99403, 2302, 27529, 79431, 116648, 186876,
       74752, 268, 240288, 7022, 101402, 201351, 18415, 127457, 140783, 81598, 208263, 10213, 27239, 232403, 41500,
       66069, 124123, 76744, 71418, 191981, 127056, 37159, 223987, 40966, 124311, 257422, 9280, 110423, 119383, 78948,
       94682, 246518, 62235, 10222, 212876, 35662, 13910, 176656, 117623, 64589, 219300, 144388, 21065, 5270, 117255,
       128223, 55269, 84666, 20777, 147879, 56602, 63893, 100697, 93695, 47726, 19703, 92742, 83805, 172237, 56253,
       16913, 15777, 101426, 56402, 113994, 259221, 36006, 36191, 164184, 116359, 96427, 134296, 5319, 170514, 111958,
       119764, 23617, 186182, 109182, 54454, 198872, 39003, 49530, 231928, 103453, 237159, 3343, 4091, 58662, 202676,
       126729, 369, 29714, 69021, 223429, 77894, 39751, 170563, 153954, 47524, 132865, 100146, 8703, 231339, 35980,
       129676, 5112, 260154, 5150, 19355, 91121, 85839, 258590, 183499, 58030, 74322, 28225, 124376, 90846, 30475,
       32243, 177723, 140883, 69741, 179355, 149461, 63223, 103015, 21975, 92126, 28981, 54524, 8914, 62160, 60860,
       25400, 86206, 43203, 28123, 115369, 96288, 96750, 234812, 131640, 24790, 206361, 13472, 75168, 186771, 130230,
       28212, 114829, 194386, 112934, 237360, 59391, 123494, 34574, 104635, 67959, 238868, 173372, 46177, 217598, 39157,
       30678, 110280, 156625, 6524, 234732, 7548, 35192, 220721, 244844, 85751, 260085, 237383, 69942, 62500, 136187,
       123737, 99202, 85183, 51940, 223700, 105406, 90946, 14681, 144089, 64136, 133996, 198208, 67184, 102176, 213749,
       35097, 187423, 122683, 59631, 80798, 159767, 61706, 191660, 245441, 92621, 12742, 261389, 123291, 148366, 133852,
       43164, 209317, 82412, 5531, 78595, 120696, 65050, 103465, 135189, 71363, 166652, 36223, 22077, 220179, 119101,
       99675, 161709, 201794, 129096, 164653, 20225, 123964, 153015, 125818, 25835, 21684, 192293, 114735, 160059, 250336,
       92339, 102213, 6922, 59486, 151207, 162870, 70858, 252771, 225974, 111358, 208177, 210837, 62932, 64699, 81258,
       48917, 9511, 121049, 64650, 245211, 11738, 75907, 183939, 198023, 24782, 206107, 15559, 118083, 203953, 178917,
       88367, 8324, 237433, 83003, 215884, 79361, 13041, 44396, 44585, 79190, 75084, 98163, 15854, 145731, 87717,
       10315, 16169, 231671, 69115, 181852, 227642, 52793, 237376, 66250, 77176, 141486, 251456, 11694, 138415, 18991,
       56489, 212864, 123496, 22909, 168903, 40317, 129381, 47831, 100392, 73551, 21140, 110156, 90103, 189854, 117283,
       42653, 58952, 109784, 12417, 162277, 22679, 127909, 90630, 51576, 37520, 142681, 63499, 55549, 101304, 204710,
       85178, 252692, 131836, 3237, 32558, 233674, 106202, 74646, 224695, 70330, 98703, 93947, 36466, 126653, 43422,
       8075, 21456, 7559, 21298, 260128, 240221, 117313, 230148, 184951, 89918, 148656, 143513, 32755, 31053, 40973,
       8598, 111008, 66029, 90520, 86566, 141404, 75026, 163960, 19464, 53021, 48001, 34795, 47659, 73365, 204451,
       28418, 73603, 97392, 87767, 75134, 235100, 127227, 104789, 47171, 23031, 91410, 58232, 78265, 70678, 240430,
       55598, 205423, 12383, 58548, 100699, 21768, 33311, 155268, 34212, 108152, 20558, 10111, 63603, 110768, 27520,
       71225, 76509, 45202, 39945, 163148, 133425, 23829, 261937, 105881, 11260, 117021, 194570, 93601, 6301, 199500,
       25720, 214897, 164399, 90449, 145968, 34609, 51167, 110503, 53216, 54496, 113958, 3065, 61496, 8589, 236186,
       48196, 75910, 249033, 13188, 121019, 252265, 40584, 15886, 28329, 86996, 259555, 77455, 87265, 181683, 253200,
       37515, 260151, 86050, 60306, 149806, 249500, 25355, 135022, 132386, 27573, 233169, 77784, 3020, 217047, 208456,
       117538, 95365, 62065, 27617, 195036, 96359, 29823, 83969, 103177, 36647, 240905, 1233, 16699, 165353, 111759,
       83789, 121798, 127133, 9849, 35955, 99811, 17590, 47296, 242271, 84509, 145140, 168742, 44519, 261317, 171682,
       92792, 36055, 169623, 73062, 203458, 187507, 33557, 54315, 16263, 85305, 84181, 103539, 15240, 58673, 248475,
       70308, 100068, 133300, 57297, 229749, 108625, 35110, 190381, 80228, 79168, 37503, 76980, 114207, 114456, 16168,
       130928, 114506, 111387, 79660, 178683, 218983, 53045, 159477, 247195, 29518, 90450, 11703, 33698, 25855, 13626,
       62843, 32216, 120876, 48139, 215708, 106333, 119775, 130314, 71277, 48273, 58598, 201952, 48948, 33934, 183997,
       50270, 166622, 86479, 109657, 126933, 160918, 85300, 33237, 65428, 80500, 89010, 192022, 43796, 208202, 157882,
       107204, 88150, 14949, 5028, 112206, 253786, 114137, 33285, 34544, 67207, 40597, 36081, 52199, 119218, 236301,
       65164, 186074, 154584, 87479, 128035, 231303, 1673, 49803, 81496, 114236, 11778, 13129, 58555, 11288, 90170,
       44953, 80653, 230216, 18120, 32185, 189366, 57601, 158740, 196935, 65054, 4791, 107993, 52906, 204351, 236958,
       88953, 88032, 182063, 55167, 196560, 43619, 126014, 242421, 53617, 78548, 131810, 63720, 105837, 196078, 244405,
       14333, 130267, 219690, 52073, 200369, 132583, 44151, 79147, 153706, 74643, 51269, 146046, 112867, 228406, 120089,
       10267, 248218, 135780, 9512, 137344, 242929, 111452, 220893, 254929, 27898, 179955, 231801, 87654, 216679, 168855,
       71156, 32129, 164034, 109169, 7672, 185647, 16395, 171334, 188001, 17010, 239306, 223356, 72983, 77625, 173385,
       124043, 194734, 118958, 54394, 153664, 242640, 42852, 250338, 61799, 79519, 257679, 193554, 121955, 198959, 157027,
       109697, 211001, 114952, 130480, 7294, 111514, 2958, 28662, 44595, 14792, 142277, 7443, 79884, 41597, 1905,
       107554, 155990, 119564, 37387, 143244, 160624, 31353, 229567, 152141, 103150, 128968, 179757, 7390, 21587, 26175,
       48415, 189368, 161683, 66297, 111784, 103265, 73446, 5621, 139656, 95501, 12014, 94139, 46510, 88778, 21261,
       80305, 199865, 49555, 76726, 85830, 40539, 71777, 36056, 148663, 83949, 111725, 115726, 34006, 136773, 181817,
       11095, 21346, 90480, 15633, 46293, 262009, 29436, 121126, 13134, 65561, 247412, 203590, 110158, 134270, 11414,
       91919, 241417, 98881, 103421, 34098, 29093, 46003, 20179, 169361, 53038, 203220, 177327, 51600, 176202, 224988,
       25149, 52959, 255247, 8023, 207045, 151108, 77452, 145258, 258032, 129658, 159679, 155195, 21866, 184310, 26651,
       6119, 19061, 130088, 102174, 203581, 9793, 33106, 249841, 27531, 108743, 19098, 146417, 92266, 101402, 248481,
       123951, 84370, 159069, 53598, 238720, 38982, 86765, 186331, 8062, 60929, 116871, 224911, 82652, 136769, 88998,
       58929, 217004, 252937, 24724, 106378, 235750, 66571, 34107, 172864, 69282, 154258, 222489, 106247, 122578, 82079,
       96406, 44551, 82353, 87004, 129953, 130512, 14861, 228953, 129449, 94452, 162122, 242192, 65575, 261476, 131717,
       117191, 108631, 146224, 120569, 84693, 13949, 7229, 127046, 91288, 107563, 34235, 180138, 4941, 18968, 20791,
       48125, 172275, 146137, 71080, 89759, 82066, 19411, 227508, 241160, 97820, 221260, 78137, 1095, 17769, 130212,
       22098, 161081, 75305, 76126, 52974, 191165, 93636, 54140, 250278, 120146, 64161, 103472, 92470, 224699, 255233,
       88051, 118623, 828, 51687, 21688, 90708, 168, 92333, 14176, 15749, 134836, 170076, 70065, 34941, 63662,
       88490, 163682, 8380, 54715, 204856, 223619, 95771, 146643, 27353, 68401, 140187, 193360, 9722, 110705, 197699,
       25167, 250097, 173788, 110100, 64780, 64680, 95015, 200153, 168825, 117278, 63743, 99914, 15408, 121571, 14989,
       129790, 117455, 123670, 27447, 93535, 215570, 1544, 3131, 56735, 130734, 57532, 31911, 36840, 240205, 254618,
       87558, 169261, 17343, 23158, 27337, 91914, 76051, 187216, 2929, 118493, 176618, 25449, 41966, 206039, 52941,
       87851, 138712, 261075, 24628, 235717, 136799, 81893, 47841, 132551, 44099, 57806, 71094, 27683, 128154, 63677,
       41049, 104267, 191526, 23441, 14819, 100021, 118215, 248535, 50994, 52060, 20857, 14970, 32149, 65290, 1086,
       58773, 186787, 122472, 42013, 82956, 249769, 97572, 136429, 33467, 127299, 193014, 46557, 57413, 248368, 133556,
       112857, 96941, 40810, 74168, 210967, 162756, 20609, 50618, 198268, 90521, 79704, 237408, 67296, 232366, 91443,
       85276, 78175, 119638, 116613, 28453, 69542, 57728, 167783, 252747, 118119, 40220, 221360, 98391, 180627, 178813,
       64042, 111370, 126770, 79065, 139398, 260528, 42674, 149474, 238648, 128922, 17110, 129907, 87471, 13537, 260077,
       5747, 24812, 11663, 42810, 258586, 199003, 81699, 18208, 251470, 7383, 187534, 155646, 3130, 143844, 224658,
       58985, 151289, 113629, 43606, 96267, 221000, 57448, 176987, 20490, 34431, 193334, 131315, 21589, 231873, 138217,
       90327, 104355, 233211, 67445, 226846, 181229, 26234, 160635, 204904, 41889, 59055, 123934, 77569, 116935, 111511,
       9467, 64261, 34994, 19326, 251875, 251713, 9600, 117393, 192946, 106472, 15055, 222490, 98619, 205262, 218139,
       98738, 60976, 157884, 93890, 51228, 53493, 87737, 179896, 170273, 62520, 74536, 11872, 84184, 179161, 153091,
       5028, 32953, 237111, 81456, 153303, 132983, 101957, 258636, 143457, 65582, 254545, 12872, 46859, 258731, 218292,
       36362, 229896, 13150, 84253, 91833, 257731, 90806, 219861, 251780, 114159, 121962, 73892, 44870, 108227, 212069,
       100895, 156204, 183604, 73578, 8018, 130720, 115715, 37881, 110643, 69181, 101884, 131075, 67846, 203651, 59478,
       75743, 132335, 45368, 98214, 68741, 214709, 126443, 238666, 169492, 9642, 25156, 85516, 7003, 204525, 249943,
       122886, 156716, 38345, 69451, 224916, 101163, 80596, 148878, 56208, 63232, 59325, 89955, 12275, 227967, 211336,
       100675, 2885, 184845, 97940, 59947, 95814, 40855, 151454, 243692, 40139, 102328, 16156, 109817, 142993, 209046,
       9484, 2749, 4699, 115488, 56100, 60143, 33641, 42209, 239172, 77723, 182677, 24444, 122682, 164896, 123743,
       88882, 228726, 66283, 54320, 37848, 69909, 90378, 164581, 203403, 45086, 25923, 196679, 36340, 213686, 22033,
       130637, 70937, 156296, 98407, 151304, 154073, 84504, 193167, 121145, 46568, 137393, 229601, 6443, 159435, 189111,
       4070, 180055, 24997, 72637, 169217, 175768, 99881, 40058, 198423, 70435, 95748, 15337, 110203, 99863, 143664,
       4381, 74067, 165777, 48070, 243311, 240135, 31073, 76103, 142652, 58624, 252308, 251005, 9486, 135950, 44445,
       125059, 247077, 3252, 29262, 139441, 258513, 120888, 189988, 101727, 55822, 175011, 205114, 129174, 162317, 261950,
       72621, 141672, 75985, 122006, 32813, 109268, 701, 26908, 17534, 98073, 41105, 42045, 118364, 171757, 171431,
       18313, 119054, 6680, 12599, 106859, 240618, 55649, 152245, 33835, 122379, 42358, 117462, 71091, 181198, 121362,
       69134, 202797, 259313, 18497, 178933, 171997, 103, 126562, 157714, 106186, 178775, 115822, 11478, 150239, 235689,
       83079, 252560, 91739, 119880, 159364, 54985, 27348, 111034, 27878, 87198, 168084, 114705, 10315, 47145, 158336,
       79135, 103340, 155868, 21486, 225058, 44048, 96462, 237262, 78531, 39482, 259069, 97666, 60737, 153696, 160230,
       78568, 146801, 224791, 22449, 38923, 232525, 97207, 249603, 135186, 39667, 176875, 231564, 86818, 106016, 243206,
       20746, 124786, 31289, 90192, 251088, 191570, 16801, 227299, 174483, 55752, 85636, 253180, 32401, 208272, 169954,
       98091, 10667, 115106, 34345, 118518, 29861, 115568, 118170, 74320, 116892, 172687, 59157, 25747, 250627, 188937,
       80458, 4116, 189562, 11497, 85651, 198164, 51319, 144367, 177612, 93496, 132573, 228847, 86431, 242171, 141611,
       81880, 200839, 32902, 37033, 51401, 186206, 49548, 127447, 37351, 13493, 93605, 234908, 94243, 198998, 188737,
       66045, 186744, 82438, 92899, 86235, 164304, 32629, 137804, 112268, 42524, 201196, 125368, 43806, 71482, 217690,
       3374, 28607, 229691, 44701, 216737, 110929, 105290, 193215, 235262, 117610, 185711, 251914, 67923, 238830, 198210,
       59703, 135841, 239307, 4040, 64073, 210691, 115239, 18595, 116522, 1705, 72009, 111366, 123830, 74059, 44536,
       64122, 144742, 77914, 44818, 9946, 58244, 121139, 41600, 19990, 3196, 255917, 209352, 76208, 137316, 90109,
       71949, 179267, 126613, 28746, 200180, 101680, 56215, 34970, 135475, 85493, 143599, 23997, 95306, 141620, 19327,
       93, 251685, 158572, 122795, 66267, 23767, 21564, 175534, 82524, 30615, 224047, 200303, 34533, 259908, 250631,
       4957, 42188, 254271, 16128, 180340, 49903, 129282, 224683, 172587, 41316, 23121, 130578, 15112, 195169, 155941,
       14023, 146429, 163162, 94301, 14911, 102229, 112010, 6273, 171136, 33679, 66008, 43778, 2740, 170813, 63214,
       29240, 224106, 77259, 7407, 163741, 121469, 13552, 47483, 48278, 56558, 165749, 165827, 30135, 225628, 210368,
       67626, 15254, 47568, 33225, 244639, 220046, 123278, 27559, 63470, 118743, 232722, 3731, 74292, 107425, 142802,
       46455, 16116, 7528, 49957, 179338, 129099, 53982, 79287, 28409, 95365, 72590, 137224, 59197, 59354, 213279,
       112293, 80621, 255137, 123744, 102703, 42020, 44033, 35183, 219196, 73491, 90980, 117917, 12459, 65639, 192694,
       26275, 230432, 35177, 54193, 205776, 74875, 27027, 105481, 40935, 114892, 140679, 59247, 20746, 234921, 115570,
       59724, 98357, 29406, 79390, 55271, 235313, 90683, 258518, 175268, 50209, 175224, 156613, 113914, 145001, 66617,
       74490, 190780, 147164, 57607, 42938, 230232, 8813, 95521, 190424, 60907, 203950, 36926, 107575, 127959, 175371,
       80549, 31546, 128115, 109073, 51677, 211134, 64751, 25608, 139130, 15527, 3305, 176572, 1787, 210206, 78834,
       39743, 155301, 82404, 91487, 1856, 5534, 103580, 248022, 41264, 38764, 240003, 39031, 64966, 91938, 162986,
       55196, 235154, 45571, 53808, 11112, 109562, 30323, 88745, 86675, 17874, 113633, 201127, 25780, 95080, 210663,
       7252, 138058, 54907, 25969, 102915, 187659, 1205, 256915, 41626, 82216, 3430, 257514, 41467, 250975, 238603,
       127552, 6190, 217957, 25390, 231022, 24685, 45328, 115964, 4493, 46902, 250700, 58999, 1107, 197785, 137449,
       109996, 174278, 204640, 4193, 151487, 205626, 123231, 65876, 43572, 116925, 254108, 99662, 70191, 243423, 11471,
       71250, 41731, 250227, 85691, 256879, 143653, 50731, 109881, 108526, 84832, 188515, 128415, 5867, 231274, 129326,
       7084, 34239, 38736, 59930, 27672, 4823, 72040, 24707, 58059, 116368, 8848, 113735, 13718, 20606, 132211,
       107826, 28603, 94254, 27531, 85090, 65683, 51653, 87025, 238962, 41497, 187259, 89569, 52449, 39826, 60492,
       19725, 195539, 88051, 66003, 245574, 120702, 105072, 235283, 65986, 57872, 195509, 50514, 64305, 184187, 170664,
       111249, 174309, 132405, 92544, 117755, 148397, 64284, 220262, 45087, 33776, 179306, 92376, 115989, 31080, 114930,
       75631, 57171, 22505, 28986, 68040, 29333, 35274, 16834, 79407, 105268, 68218, 139745, 5786, 64779, 113579,
       130035, 132943, 64797, 17085, 119370, 217469, 104342, 77007, 167335, 51743, 259606, 109929, 64515, 199118, 66295,
       115428, 165803, 81530, 54121, 25019, 132386, 70450, 99950, 169496, 6461, 211118, 2570, 307, 180379, 238920,
       32086, 107204, 225163, 89205, 101490, 97800, 15894, 113273, 11366, 14911, 1956, 198053, 53865, 112411, 175069,
       84913, 77679, 177885, 93332, 183544, 214805, 23389, 232457, 160797, 10431, 203856, 235197, 123259, 188752, 108033,
       34166, 16802, 43729, 111849, 218139, 22253, 113179, 144544, 237835, 101256, 21272, 86586, 22129, 93976, 80775,
       107715, 42170, 108773, 100827, 54866, 256535, 78213, 177146, 57743, 44197, 195337, 147417, 34407, 138353, 248330,
       15976, 68892, 252392, 66814, 230233, 249827, 76711, 82175, 142854, 47099, 73443, 142523, 62306, 69132, 97268,
       47646, 148624, 50723, 84017, 247973, 220858, 118129, 222005, 167998, 21485, 93477, 38542, 49992, 4071, 136726,
       18463, 243704, 4458, 81912, 165117, 242370, 95534, 135114, 46927, 122147, 174505, 224534, 36552, 78936, 132892,
       124546, 21803, 230154, 8291, 252948, 57418, 79038, 61105, 126917, 7488, 131016, 233096, 117148, 201939, 149981,
       69443, 34793, 242179, 87732, 216801, 68673, 108996, 15103, 244781, 19701, 134718, 125930, 5058, 71619, 106626,
       115196, 186006, 35031, 41278, 243266, 230360, 16905, 137211, 96406, 61402, 39653, 225945, 78421, 45600, 235932,
       4059, 99334, 182592, 36031, 32432, 55751, 4299, 38042, 172344, 55094, 52463, 149107, 117322, 144443, 237332,
       128798, 56853, 158155, 83499, 25410, 94142, 21186, 46084, 221636, 118731, 128777, 49425, 67665, 166378, 53372,
       20152, 60250, 30472, 120812, 146281, 43805, 99282, 257796, 184324, 95906, 19269, 66473, 92953, 192206, 2582,
       26258, 246685, 148291, 27657, 18112, 253711, 90215, 246386, 127590, 28799, 131151, 76200, 57497, 151163, 157124,
       102498, 142418, 185124, 102754, 58838, 203581, 59409, 243020, 53600, 103833, 241064, 235796, 109919, 219171, 17681,
       85822, 201135, 219630, 29940, 61161, 210954, 35915, 71323, 209004, 41266, 225423, 84666, 15309, 196086, 12131,
       35803, 151456, 160830, 27462, 27202, 116630, 59680, 222794, 223373, 119070, 190388, 146407, 13694, 116412, 71242,
       94406, 250957, 182199, 90083, 146264, 106970, 12550, 182013, 186244, 120923, 107546, 26175, 74510, 206695, 154436,
       47674, 60687, 258622, 99161, 6610, 51396, 33733, 106263, 167912, 90899, 189100, 143100, 5205, 7182, 120522,
       110022, 233388, 65769, 58742, 170199, 214291, 83452, 160870, 25771, 28998, 21893, 174163, 88745, 106342, 208321,
       101219, 20300, 242515, 62024, 261837, 166574, 80966, 184389, 165847, 59811, 144569, 19271, 117190, 90164, 206163,
       65256, 185919, 252332, 110337, 144470, 35142, 105034, 214166, 216015, 53805, 180340, 87061, 30157, 166334, 198461,
       53225, 261430, 176482, 108293, 252674, 191917, 29836, 65990, 209377, 68738, 241362, 89713, 105656, 186895, 59486,
       46330, 262044, 102845, 84175, 183904, 215203, 32195, 110539, 62203, 14323, 124639, 222855, 104121, 138713, 224648,
       12972, 4038, 252782, 35570, 131652, 229997, 112080, 236495, 221183, 45412, 110728, 149550, 127539, 13, 132564,
       128415, 193652, 255943, 35163, 124401, 50443, 5371, 25571, 76544, 92414, 14362, 47095, 59111, 184254, 130136,
       13205, 229838, 74179, 92736, 112965, 124617, 4086, 41336, 191835, 114058, 110262, 3385, 18173, 121712, 103447,
       16687, 5916, 229641, 23025, 188596, 185048, 125864, 8425, 99484, 90855, 24743, 9460, 105037, 96966, 24377,
       52118, 213083, 194198, 44081, 47662, 235602, 30734, 75428, 144194, 62999, 130643, 238401, 72329, 77532, 46876,
       82807, 260127, 102965, 33701, 9582, 253416, 124341, 258917, 147394, 22250, 153584, 37168, 126570, 24359, 53086,
       1947, 58114, 136521, 63062, 27964, 248988, 43695, 49617, 259752, 58867, 132149, 153717, 74798, 38717, 174269,
       57093, 142113, 66609, 54374, 211383, 39758, 96039, 137233, 185753, 89899, 45908, 206916, 109218, 139848, 83800,
       32762, 163470, 31690, 79892, 31674, 258621, 76702, 170632, 109148, 48462, 71918, 89824, 63708, 140019, 149242,
       41128, 13916, 140279, 18591, 217287, 22590, 28023, 92349, 34905, 13829, 231908, 157007, 89531, 77426, 176572,
       86602, 225671, 210012, 124597, 230250, 114877, 95640, 107225, 182581, 6821, 197178, 210709, 115899, 205373, 95819,
       113072, 146527, 101425, 58106, 230970, 253693, 76790, 63375, 161939, 127936, 141346, 112582, 69770, 51793, 253669,
       118662, 89833, 220684, 10884, 14696, 199681, 25041, 144319, 143610, 57770, 165661, 12142, 76645, 64063, 98700,
       106984, 161742, 178383, 129533, 128963, 85509, 50967, 142434, 224373, 6214, 226036, 85355, 105011, 39657, 32666,
       79217, 102134, 91486, 26023, 107373, 143172, 64858, 40754, 145027, 97296, 23200, 111309, 100979, 108463, 79148,
       65485, 258080, 29647, 40005, 20681, 89038, 127630, 101636, 163424, 86948, 69243, 151641, 53508, 133204, 194029,
       36760, 229565, 135681, 95827, 34128, 17497, 31743, 122835, 173702, 22506, 97432, 80764, 69446, 101579, 62049,
       38009, 59645, 71094, 82431, 224173, 226633, 15458, 120060, 38608, 85844, 115463, 100165, 37132, 63574, 147806,
       31, 220699, 160022, 16637, 200003, 39337, 122370, 218838, 197997, 113685, 237832, 72025, 30619, 158085, 43733,
       102022, 199825, 48483, 79766, 182415, 171623, 127258, 110713, 177222, 48969, 63178, 103378, 89320, 106274, 49029,
       8327, 197711, 133094, 51936, 244381, 164067, 126329, 133296, 231617, 70645, 78951, 121110, 37732, 247008, 24915,
       15764, 40810, 96025, 92212, 227175, 29016, 84522, 149769, 70532, 49012, 234637, 24164, 124641, 205749, 110702,
       2910, 43805, 77639, 39809, 181582, 50013, 120726, 110024, 466, 42065, 170333, 177045, 33063, 74301, 222882,
       70021, 88492, 21854, 107977, 89906, 97058, 13519, 170981, 75273, 123603, 160027, 8700, 104211, 207796, 229834,
       23756, 218495, 231857, 93324, 80606, 184016, 50457, 81184, 80201, 52729, 148909, 141845, 102667, 104594, 116912,
       126194, 34170, 236736, 16601, 10109, 209783, 55132, 221880, 216557, 63037, 256496, 16217, 49323, 247063, 94483,
       47603, 242436, 260224, 6850, 251342, 68269, 89854, 240667, 181236, 57175, 130044, 155813, 25532, 3486, 145005,
       106959, 37542, 163000, 105193, 63538, 240196, 63752, 84797, 136302, 39118, 137640, 208057, 83636, 23528, 233326,
       37768, 177403, 128970, 30934, 8242, 182431, 95750, 4386, 87719, 5285, 133646, 115015, 12421, 129246, 74458,
       889, 193867, 117178, 20046, 149248, 121603, 9042, 172601, 77969, 130521, 211799, 40086, 37854, 236029, 181524,
       19564, 224646, 6985, 31587, 225844, 106632, 122699, 223061, 187038, 68178, 115540, 146477, 47817, 114693, 13052,
       114477, 43298, 159085, 51772, 43185, 254356, 43910, 63774, 205587, 27168, 245051, 17819, 49518, 153433, 206765,
       41508, 118465, 256939, 88775, 153237, 24811, 37956, 48304, 100662, 75654, 190097, 40673, 8636, 161966, 262055,
       25072, 171008, 190733, 53399, 111086, 81244, 122807, 213020, 103698, 49447, 45159, 262083, 87041, 137157, 101141,
       33434, 207727, 109855, 16650, 142834, 102680, 7672, 133495, 184227, 40031, 41439, 258077, 20664, 248015, 149945,
       22807, 235259, 34732, 99714, 63981, 51441, 2075, 243173, 241094, 73113, 75707, 76208, 49736, 199773, 249436,
       66394, 136731, 44068, 73771, 74672, 76843, 41073, 191482, 140363, 38680, 133306, 2814, 96128, 117229, 197844,
       114200, 4557, 236455, 25242, 15657, 198536, 12795, 22591, 208709, 117675, 233815, 135684, 45861, 130603, 19575,
       72262, 71572, 236648, 47126, 10233, 187520, 16489, 42946, 244701, 77244, 229996, 101451, 68831, 68609, 40146,
       26606, 202320, 52077, 59227, 99462, 222921, 104457, 131923, 2155, 77388, 86556, 111395, 12703, 38769, 91181,
       71830, 71744, 218292, 92109, 82408, 200143, 103901, 57882, 12886, 82459, 183308, 152849, 20009, 55297, 94483,
       93083, 217683, 258431, 88780, 144297, 15474, 3201, 178362, 258453, 53968, 154740, 9172, 43640, 119215, 49318,
       87741, 46684, 36174, 28329, 92586, 251236, 77446, 200458, 102910, 119695, 191844, 8588, 104569, 144842, 119935,
       120777, 80845, 149302, 128254, 192439, 87579, 1398, 145460, 74733, 81623, 247615, 74582, 54111, 179710, 261806,
       112702, 222234, 121836, 33005, 224558, 65444, 128585, 130337, 75162, 80439, 244051, 230600, 104010, 140085, 211029,
       11219, 184703, 106985, 24046, 50297, 225784, 99405, 127462, 205898, 2881, 214280, 234206, 107069, 217937, 233091,
       1828, 85400, 195145, 86129, 230810, 217383, 47853, 154746, 239157, 80149, 223696, 212435, 91230, 59920, 14909,
       44888, 239056, 200505, 14150, 223870, 172251, 9128, 163362, 63632, 77193, 5858, 193905, 68243, 88742, 53101,
       97281, 202025, 227461, 66812, 13832, 161042, 55370, 213540, 32524, 52178, 21659, 223419, 3466, 117549, 235886,
       43982, 40249, 208495, 127928, 239622, 114234, 114498, 177337, 18416, 43172, 63439, 118826, 77043, 136139, 260343,
       111056, 230432, 172345, 57838, 186087, 64248, 2353, 202668, 27100, 9766, 61669, 201150, 66898, 51058, 124017,
       127066, 93807, 225560, 90860, 94664, 220554, 9295, 33303, 231801, 24819, 238213, 90112, 101098, 227286, 29979,
       110289, 50388, 138751, 80962, 121844, 201853, 84465, 218546, 198648, 3714, 64565, 49618, 108597, 30981, 50268,
       103320, 211834, 191481, 33952, 66691, 133218, 92887, 176957, 132965, 28161, 110879, 241840, 5286, 40598, 18164,
       26363, 96707, 170250, 23413, 63998, 64867, 44269, 80066, 32891, 54847, 3275, 44537, 66655, 54941, 213381,
       62489, 22012, 103861, 35477, 225955, 217274, 3823, 120028, 58940, 79311, 230642, 31685, 51871, 17390, 11475,
       39147, 146017, 168382, 113631, 182548, 36041, 97877, 36395, 262056, 112429, 12047, 42248, 64878, 100890, 257324,
       17161, 110383, 70967, 91255, 35671, 83924, 27010, 131723, 38312, 57832, 224182, 49966, 8519, 205365, 261461,
       108174, 215724, 43446, 16507, 76468, 76106, 118370, 208783, 1918, 113276, 113639, 85504, 60893, 207644, 108703,
       97565, 217389, 89939, 81191, 237165, 193513, 105260, 191520, 114939, 56597, 146320, 254754, 102997, 128357, 259658,
       60615, 36680, 224532, 123334, 70187, 135631, 63749, 200277, 221928, 60636, 113563, 167141, 102900, 246163, 105123,
       107685, 217897, 232716, 72677, 261407, 256762, 23566, 120326, 217383, 61310, 1795, 47435, 126887, 52193, 60678,
       98695, 106507, 142277, 106320, 184763, 50490, 4302, 132063, 59817, 61323, 72217, 26950, 84753, 242543, 181708,
       108794, 11510, 91636, 6458, 103893, 141425, 111730, 227965, 95481, 71880, 1987, 57201, 25862, 88277, 90353,
       41583, 72281, 24878, 36953, 18404, 102536, 69580, 198008, 115650, 6774, 142983, 31112, 20779, 170751, 242523,
       106521, 79319, 232144, 17380, 175708, 160726, 30591, 187650, 169993, 59424, 50336, 78790, 67780, 18100, 52910,
       100087, 249766, 158725, 58632, 198135, 202574, 103529, 35548, 241325, 81047, 232562, 236169, 14824, 54800, 23990,
       20490, 176761, 228339, 57282, 231856, 117039, 52021, 22683, 150394, 97457, 218761, 200039, 76118, 99192, 4627,
       50873, 99403, 53225, 22381, 233799, 202, 29731, 260224, 15534, 75432, 18217, 29990, 55500, 254551, 56483,
       67492, 151634, 246073, 22371, 8598, 80215, 86888, 117521, 18525, 111743, 251092, 103594, 33808, 169615, 253982,
       64423, 197291, 191792, 127864, 83379, 260057, 43678, 173386, 162513, 77993, 239736, 108821, 11822, 34292, 209443,
       79431, 156868, 72493, 11748, 56568, 54148, 125728, 237759, 10777, 93803, 87852, 249989, 103305, 178192, 136625,
       92288, 96147, 231034, 77296, 252763, 157338, 58970, 253766, 135587, 112508, 187598, 169348, 125414, 95581, 249109,
       65409, 175441, 39910, 122098, 42457, 156453, 76458, 160216, 170277, 70567, 24155, 60256, 59569, 251861, 31370,
       27431, 200665, 209530, 487, 142444, 137944, 31654, 184593, 4488, 66810, 114176, 106343, 49802, 29061, 252410,
       58783, 224344, 21843, 128535, 137215, 69668, 45910, 235973, 193256, 59268, 136898, 232395, 17500, 39412, 142121,
       6285, 240099, 67487, 101634, 124753, 119536, 74800, 153386, 129165, 99707, 26302, 248622, 19642, 214112, 219707,
       74950, 194169, 34655, 33245, 111777, 100091, 29892, 135912, 108896, 1510, 193387, 75095, 17084, 5064, 138706,
       40536, 102212, 182186, 15319, 139698, 178461, 129218, 114688, 105993, 40453, 25823, 27747, 17081, 215047, 203731,
       26094, 30646, 121886, 77031, 114699, 220750, 8394, 81988, 41654, 113040, 253311, 74400, 126025, 179819, 132200,
       32341, 177713, 28847, 58994, 232533, 119699, 2901, 54202, 76763, 83979, 44715, 86459, 54254, 30482, 100803,
       35397, 27071, 82012, 27110, 145165, 151976, 85724, 29578, 259301, 54554, 104514, 151011, 23548, 79254, 117616,
       90322, 237378, 235947, 74065, 40444, 39122, 112547, 226383, 76130, 15397, 209981, 246919, 102978, 234055, 75265,
       88279, 50405, 130299, 15074, 187042, 228594, 91071, 142267, 14451, 57874, 127467, 2802, 123861, 12009, 115174,
       18561, 74173, 44600, 84257, 120114, 168572, 50066, 232919, 236865, 125411, 160564, 43690, 43250, 123070, 47735,
       126115, 165551, 134842, 118159, 145090, 72232, 35439, 176008, 96346, 105321, 216995, 134716, 130495, 218612, 13091,
       33117, 11801, 230340, 57249, 67407, 17013, 68181, 33948, 133010, 38657, 56054, 209153, 2000, 207896, 122436,
       28852, 204549, 202532, 36954, 8206, 71276, 58143, 131085, 109014, 22426, 195048, 105082, 114459, 51128, 168302,
       92394, 29357, 88927, 11167, 104069, 204116, 85208, 240584, 47151, 85676, 16167, 221743, 125333, 215396, 88328,
       395, 249469, 115628, 32497, 540, 69423, 121607, 127083, 103680, 122176, 172113, 6410, 94448, 184329, 28581,
       100370, 34083, 1117, 11990, 223939, 155563, 67354, 192260, 161927, 30354, 12015, 44261, 23752, 160278, 32690,
       106208, 19404, 158584, 17699, 188390, 12015, 61427, 28144, 243979, 123021, 85726, 19429, 24357, 99401, 160644,
       128187, 145237, 70858, 130323, 82541, 51301, 72825, 223267, 173002, 22300, 248837, 183959, 41432, 131038, 129796,
       55639, 32653, 224644, 40543, 195227, 218385, 36783, 122349, 81015, 127432, 24234, 70979, 20101, 218800, 225049,
       96118, 198089, 121628, 53, 203805, 205836, 78142, 224092, 52824, 120054, 126199, 225766, 37740, 25580, 70805,
       24317, 68322, 84744, 85416, 255347, 192586, 93402, 24027, 115709, 90181, 140556, 102064, 41853, 131622, 5363,
       33056, 176489, 255781, 125294, 49531, 196180, 121018, 186947, 120017, 59941, 105563, 67640, 110912, 84521, 175815,
       59286, 247165, 57229, 55625, 135627, 58689, 20547, 61097, 80808, 55889, 234523, 155927, 70440, 82044, 215191,
       2949, 180146, 156624, 58210, 204423, 171231, 102413, 241764, 70504, 89134, 261279, 55074, 83251, 77815, 254672,
       119217, 65304, 77706, 2363, 128867, 221278, 73013, 89448, 23880, 103199, 101779, 184452, 70953, 238886, 250792,
       42453, 167213, 57833, 17858, 166217, 13766, 116334, 174836, 184216, 61703, 201403, 244264, 115096, 82601, 103149,
       76788, 212177, 37006, 88367, 185888, 172903, 105416, 30939, 259313, 86396, 219032, 72659, 52173, 221269, 221308,
       67322, 250320, 225167, 105256, 205261, 119674, 48975, 24024, 131438, 50871, 224285, 150099, 12542, 77304, 41019,
       119876, 107765, 174141, 11932, 81755, 134277, 84962, 19216, 227768, 54158, 59434, 200868, 53165, 90366, 43172,
       89070, 57232, 34423, 8794, 28763, 77379, 77818, 53577, 204443, 101191, 196673, 207063, 108555, 131754, 6057,
       22351, 199019, 95232, 117626, 133623, 38047, 86002, 99759, 16728, 115586, 123850, 200124, 63606, 187210, 246896,
       71045, 103444, 71229, 120460, 48508, 231380, 117952, 247376, 139690, 58741, 89651, 192227, 35967, 212979, 229739,
       51533, 166513, 173272, 50825, 12076, 190159, 37600, 56370, 224019, 35203, 69703, 225887, 112861, 63231, 216259,
       9156, 246852, 160155, 88815, 223572, 45419, 22651, 228008, 206569, 45155, 20043, 66614, 8066, 149047, 64458,
       35385, 258088, 160201, 100718, 127568, 12258, 116000, 191003, 29993, 29036, 1796, 202775, 60758, 37325, 259070,
       61646, 82211, 78932, 114501, 68806, 170412, 99981, 156620, 44793, 67250, 14985, 185440, 87916, 46415, 73028,
       111064, 136741, 33654, 1250, 75964, 163081, 52807, 157849, 250365, 118914, 46247, 208688, 97034, 81154, 57484,
       71151, 79853, 116485, 69421, 148752, 254355, 45582, 241757, 236534, 68225, 174951, 24689, 85902, 101376, 90967,
       54835, 178303, 66810, 93605, 126144, 188508, 112883, 112850, 198384, 20274, 223457, 32933, 59185, 44924, 224403,
       53480, 2465, 116094, 90107, 101396, 93597, 32750, 164732, 245834, 83918, 253735, 165893, 115014, 70750, 164793,
       54805, 90452, 79209, 119408, 170348, 111774, 130175, 251026, 88860, 13905, 182759, 35762, 30546, 195940, 259015,
       124568, 45819, 44455, 125609, 242882, 81574, 12806, 180354, 246192, 1965, 231588, 228266, 21115, 184090, 44403,
       130549, 101592, 51776, 23592, 238485, 21891, 65869, 241148, 113580, 111203, 211874, 242682, 2674, 20949, 139608,
       79231, 152012, 193793, 36310, 73304, 114833, 113027, 252226, 120670, 37153, 214894, 54095, 90014, 116855, 160899,
       88371, 82749, 121027, 29031, 157925, 4471, 4561, 52618, 233898, 53641, 41978, 126291, 37905, 32719, 95564,
       106034, 86926, 68273, 104905, 87794, 115949, 59903, 11393, 64999, 79496, 201955, 26022, 79201, 131931, 179585,
       108417, 71520, 244436, 55705, 240235, 10867, 36103, 91019, 245410, 34738, 172173, 181799, 70279, 208255, 20479,
       58870, 197454, 88145, 57687, 133613, 95644, 11945, 145046, 177744, 94188, 217448, 99939, 28014, 234662, 183842,
       25815, 27844, 157152, 54101, 15349, 248090, 29855, 95103, 231888, 76527, 123420, 182771, 48688, 116080, 219164,
       58839, 198522, 161602, 70407, 224741, 165277, 26677, 211813, 18087, 20414, 177396, 13372, 115398, 172924, 50795,
       56849, 8697, 75447, 54013, 244738, 25892, 4667, 198118, 25358, 65270, 196590, 96163, 72636, 35062, 5599,
       73248, 102403, 91119, 92671, 259371, 250456, 23262, 235687, 95345, 33059, 102406, 136579, 106264, 16656, 74423,
       124147, 143416, 156288, 17816, 256131, 48386, 65227, 241803, 196884, 28072, 133640, 202073, 7873, 238635, 160960,
       42664, 97919, 242392, 18833, 111256, 12792, 93052, 91173, 259741, 69956, 119910, 27106, 18852, 176103, 138089,
       1211, 82175, 188276, 105926, 199420, 190552, 23094, 40161, 185774, 79458, 7269, 8646, 44161, 7599, 200020,
       76740, 213098, 169767, 41373, 92326, 6008, 11395, 89679, 56285, 29222, 131995, 49224, 24649, 55686, 21541,
       56101, 92422, 69978, 86282, 149962, 110085, 34577, 154627, 12018, 1582, 8011, 12562, 68018, 41473, 135413,
       79398, 28256, 80625, 126205, 94736, 44327, 77263, 30697, 225131, 61757, 138858, 108501, 75156, 235381, 165391,
       121621, 207449, 147235, 108577, 47264, 168185, 42333, 122824, 211937, 31097, 105893, 242631, 34423, 239295, 141825,
       66115, 124391, 243599, 97524, 13021, 17802, 65957, 248492, 146529, 8886, 54838, 248333, 94841, 44451, 66041,
       105640, 30593, 146085, 37945, 16823, 159415, 87048, 75733, 60424, 55914, 66494, 35835, 116538, 170968, 188654,
       110785, 106000, 91695, 68869, 110856, 24832, 90637, 3906, 46175, 115782, 108006, 149557, 64974, 162514, 224596,
       41058, 105134, 203997, 98784, 138419, 103342, 28844, 137402, 7245, 50925, 145393, 80292, 113472, 157397, 10730,
       94951, 127135, 154124, 52928, 82858, 110926, 28146, 259894, 188090, 46657, 128168, 71727, 37238, 25964, 188174,
       23080, 98343, 41481, 97430, 34510, 115113, 33039, 79746, 163383, 59528, 167418, 57884, 50575, 96840, 28813,
       128722, 221819, 13513, 51261, 63602, 180050, 10483, 121630, 241056, 11773, 168045, 22416, 77431, 71241, 160873,
       78559, 204329, 11020, 54887, 151624, 60772, 56602, 161595, 186760, 7069, 13499, 241912, 67704, 205575, 230279,
       66157, 55710, 18471, 19601, 190914, 191182, 13610, 114299, 17093, 16196, 234222, 125995, 13241, 255413, 57005,
       79915, 176319, 122802, 25753, 98098, 108782, 32955, 118726, 258911, 22750, 117461, 4260, 125545, 101980, 126928,
       112016, 110134, 162777, 30211, 109922, 150201, 42934, 201661, 89034, 27511, 19562, 240015, 64471, 43452, 152798,
       2570, 102685, 19011, 87997, 143566, 88866, 68571, 100928, 215250, 117786, 105279, 190269, 21547, 72855, 36051,
       105396, 54289, 249094, 103803, 239622, 191946, 16669, 234050, 215833, 52239, 250249, 195374, 22302, 64744, 91696,
       33386, 190168, 180199, 34504, 53117, 145304, 72907, 4361, 127221, 53924, 118921, 6474, 124221, 61364, 112112,
       16563, 153942, 216562, 127623, 203292, 113300, 30230, 70215, 82154, 101302, 34757, 138084, 44429, 122201, 240758,
       18753, 252879, 227347, 112445, 65873, 209057, 40483, 4137, 228088, 86357, 129903, 151304, 74244, 237683, 205068,
       61834, 11268, 32428, 64988, 13085, 252585, 95975, 232751, 89407, 11504, 149789, 20539, 87579, 203351, 112898,
       117415, 231670, 247320, 7574, 108674, 94626, 18435, 187296, 171531, 93930, 99931, 61587, 57315, 99666, 213088,
       52893, 242437, 242633, 17952, 128640, 22391, 66423, 95099, 210739, 16586, 143400, 106080, 62471, 156355, 174835,
       100088, 153214, 32670, 33851, 59222, 205116, 63017, 158501, 159561, 130025, 135565, 92581, 90000, 168896, 189047,
       110278, 82504, 50288, 54374, 237368, 2976, 100645, 17541, 161310, 5309, 162087, 201296, 16110, 56234, 171187,
       26616, 227738, 253747, 52684, 168470, 76809, 110853, 123913, 91545, 45385, 205470, 208114, 85802, 133451, 88920,
       92971, 63766, 34108, 76832, 24514, 108461, 46824, 109904, 103616, 75635, 140405, 172355, 44861, 114236, 163606,
       10993, 130720, 155496, 130128, 210509, 47457, 16670, 15351, 213219, 9482, 222131, 250235, 115150, 205091, 236,
       39562, 19050, 176653, 85235, 190050, 175060, 43123, 115080, 201132, 51308, 181975, 140051, 34355, 176021, 93332,
       44963, 121615, 198838, 53831, 84647, 206154, 94426, 98306, 30386, 67048, 18887, 175604, 123674, 256938, 172709,
       5489, 90959, 12878, 65938, 44874, 226781, 76575, 134092, 93817, 120612, 15560, 140035, 6443, 80218, 49650,
       75169, 193356, 139098, 111886, 257423, 82613, 31709, 249346, 37121, 114857, 102421, 42667, 2496, 15136, 78489,
       96004, 76847, 122008, 122305, 4227, 20090, 86140, 55550, 3651, 57544, 115623, 18096, 5882, 168975, 181532,
       120601, 41350, 143738, 61642, 174719, 37008, 3800, 173348, 237754, 90416, 59627, 154593, 63155, 97648, 219127,
       16298, 49662, 159158, 28085, 9067, 141166, 8452, 241819, 167030, 75273, 210458, 214750, 81530, 169844, 74009,
       66288, 171581, 32523, 107099, 55253, 237132, 112854, 38856, 179152, 80691, 31698, 259543, 1672, 4537, 63967,
       91125, 37077, 43753, 54787, 260403, 108045, 74128, 196723, 189584, 85076, 76721, 29570, 45906, 55971, 45214,
       120205, 245175, 101383, 17560, 92729, 107517, 88016, 103705, 52241, 571, 109802, 184151, 121195, 227983, 105907,
       14746, 37159, 99467, 12436, 174539, 31395, 43647, 255978, 58212, 48964, 21035, 107023, 28088, 193745, 67525,
       76693, 17390, 237401, 58053, 166896, 57821, 4479, 121322, 6305, 41897, 114059, 231677, 106225, 16475, 49832,
       90400, 146689, 225925, 95010, 71439, 155590, 91503, 152429, 205203, 40759, 224358, 59636, 13063, 39215, 75172,
       35712, 214629, 63671, 109023, 199980, 186231, 128512, 70361, 76168, 64729, 135244, 88575, 1271, 116633, 60941,
       18355, 249984, 190794, 42215, 195341, 73875, 75836, 88817, 55530, 9842, 176774, 254240, 123647, 190803, 56297,
       47852, 64808, 125934, 119614, 62550, 173753, 102304, 145157, 65790, 99016, 176733, 18582, 79523, 248712, 15832,
       82153, 211935, 51841, 83624, 94383, 253716, 82407, 201756, 148130, 72578, 69925, 215759, 129291, 67693, 157176,
       95982, 206898, 26524, 101835, 240391, 33958, 114355, 116942, 21970, 28264, 87812, 261561, 10984, 99284, 172107,
       63293, 246308, 233469, 67381, 153337, 135704, 108682, 134810, 155116, 58167, 157628, 40800, 74822, 222236, 74398,
       69084, 63452, 183145, 5007, 82646, 218428, 80637, 117159, 43552, 108533, 75904, 152663, 20643, 239032, 183822,
       77900, 65281, 135691, 77805, 189079, 174282, 21520, 13528, 245359, 16182, 161883, 96041, 128457, 96539, 189287,
       51605, 146539, 195186, 29808, 162746, 36369, 22455, 223003, 122974, 87503, 233780, 196196, 79881, 56101, 202708,
       84351, 174028, 4882, 11535, 33040, 26348, 117117, 95663, 200840, 51021, 242525, 213115, 41073, 250305, 126499,
       60602, 167670, 231251, 51126, 193821, 84828, 113190, 200528, 126502, 121800, 24783, 102789, 39774, 57668, 35794,
       113237, 208183, 18578, 102435, 209619, 77794, 122002, 215804, 181688, 32210, 258190, 147175, 75623, 49735, 47311,
       35985, 28262, 8620, 108015, 186923, 145061, 697, 223427, 11309, 74031, 256198, 2450, 44460, 18912, 8119,
       42294, 209414, 212403, 84529, 42383, 227337, 111605, 201782, 222662, 79848, 120151, 69743, 111827, 23240, 248679,
       34681, 71473, 42104, 68092, 38563, 108917, 59052, 190119, 149145, 1526, 83956, 65022, 72982, 126150, 115657,
       86707, 82893, 191521, 77583, 106120, 23538, 96505, 177967, 213879, 74886, 161132, 247522, 8749, 23436, 175461,
       15262, 196013, 177033, 78181, 30363, 150348, 36042, 19044, 225004, 10439, 64579, 241213, 56308, 233515, 17588,
       72656, 44977, 163687, 43089, 103333, 58211, 94428, 179887, 253585, 84380, 78943, 96214, 43623, 44099, 46242,
       98942, 170946, 128099, 85025, 198342, 14085, 83551, 63092, 167193, 72538, 229532, 169724, 1492, 227167, 162800,
       91292, 154547, 183103, 49288, 144085, 247654, 123549, 193968, 49209, 107214, 235907, 57973, 77030, 75893, 109166,
       33053, 261284, 113726, 26701, 169390, 8280, 44614, 241551, 9106, 62464, 187039, 258270, 38805, 235544, 190500,
       67492, 219891, 170910, 21675, 113354, 114793, 128150, 202847, 190194, 14145, 232592, 20978, 122151, 205068, 30167,
       119744, 130314, 145311, 68860, 12864, 53575, 95015, 115120, 147749, 57153, 189402, 39275, 82579, 233871, 39737,
       44639, 254088, 59239, 39473, 135014, 259847, 75789, 192553, 96751, 65290, 223518, 78289, 75960, 259778, 192418,
       37573, 46061, 115581, 48097, 235125, 84018, 10996, 176552, 214457, 6851, 253930, 26518, 33221, 34839, 18111,
       9731, 179397, 63767, 13601, 251293, 237272, 106552, 39833, 65829, 5095, 66378, 233399, 86368, 249007, 20106,
       35724, 180683, 122742, 114235, 61724, 233751, 63568, 238216, 152433, 40052, 135705, 242191, 67847, 254431, 99339,
       50064, 385, 250347, 73964, 18126, 219995, 15012, 13662, 60272, 130677, 141344, 5249, 55778, 120586, 163531,
       45643, 75080, 17422, 93088, 163902, 137318, 47697, 6031, 117992, 109218, 243717, 148148, 59542, 45189, 69745,
       94313, 251748, 76956, 14084, 28307, 194851, 110902, 139955, 214666, 96432, 7330, 85862, 27750, 37116, 18077,
       19042, 243235, 103790, 41457, 18542, 3322, 127935, 137324, 198356, 33663, 112234, 200702, 59785, 132521, 244420,
       3934, 212605, 103804, 52065, 106628, 121303, 74884, 14958, 179079, 124927, 248829, 229392, 67729, 164333, 119460,
       107362, 9294, 203788, 71713, 29980, 148909, 5345, 202710, 256840, 41288, 200447, 72242, 75438, 111434, 237994,
       124596, 66139, 155435, 112607, 244977, 15229, 29931, 7094, 12886, 28850, 61771, 179152, 26368, 37524, 196057,
       120913, 203249, 189470, 111760, 172495, 216047, 101565, 136637, 238334, 51476, 151228, 175913, 66110, 49197, 150261,
       60860, 233427, 31037, 33213, 104006, 179927, 66195, 9454, 45577, 3997, 63837, 91183, 17276, 170203, 147078,
       116207, 18756, 40835, 98524, 44675, 188454, 55426, 54555, 95062, 67783, 244392, 259637, 48496, 129494, 9514,
       97095, 130743, 241828, 102784, 257413, 250132, 100045, 82955, 144091, 94714, 42990, 251893, 26804, 207796, 158682,
       44298, 105150, 246741, 61583, 152267, 114878, 43357, 183231, 110707, 98951, 136816, 242676, 43169, 6587, 211599,
       18118, 93344, 1797, 52303, 7898, 164673, 128439, 90317, 112646, 29606, 190986, 155147, 80236, 225376, 260858,
       56750, 168712, 232609, 9309, 87066, 34388, 63946, 252313, 251958, 92034, 21727, 183077, 67268, 201502, 176983,
       114308, 179827, 125529, 37871, 144873, 48496, 11304, 223184, 120861, 122757, 138373, 9170, 49570, 249541, 136914,
       75550, 164741, 212233, 103809, 113704, 123637, 42508, 115487, 244434, 93869, 31024, 58266, 17749, 162393, 219167,
       38180, 119022, 56490, 18967, 134348, 188133, 106329, 160366, 208981, 29183, 21118, 59673, 94031, 136003, 261100,
       123640, 1972, 82406, 69176, 41677, 133172, 70782, 185149, 41838, 60428, 155146, 185161, 42715, 19103, 187582,
       62345, 14736, 813, 79011, 49510, 247876, 129235, 232612, 219374, 122914, 177292, 250872, 113004, 29504, 39028,
       116540, 30821, 214595, 61321, 243309, 156519, 86172, 142305, 90042, 117318, 48629, 259906, 51504, 220900, 159474,
       126060, 34488, 28724, 54497, 238741, 198741, 78785, 28080, 118221, 93035, 137200, 107992, 124595, 261183, 262059,
       32062, 90248, 259745, 97796, 230576, 141466, 68264, 89261, 232582, 35200, 84288, 152938, 101791, 107926, 53286,
       72380, 230347, 197594, 86635, 42105, 162586, 42323, 75723, 22100, 63081, 141404, 34064, 80917, 224496, 84565,
       53072, 123272, 179747, 26001, 22424, 147501, 126044, 37384, 7487, 67039, 19243, 154376, 96196, 107682, 8145,
       53876, 203883, 127615, 46547, 217730, 23574, 53367, 219920, 31635, 53634, 58325, 141196, 71326, 203464, 218479,
       71233, 178991, 118126, 65162, 247714, 101794, 17666, 168401, 128108, 65021, 158628, 15377, 22164, 206159, 121087,
       16532, 228007, 252825, 122243, 193845, 230216, 79292, 2129, 124067, 86440, 178493, 120017, 52663, 235918, 150162,
       119141, 247323, 185079, 83614, 216302, 243127, 100816, 165973, 99395, 48308, 57656, 14772, 125830, 177535, 30605,
       107539, 131654, 238928, 111928, 192136, 245221, 22569, 222041, 57237, 35515, 180769, 212101, 37437, 170308, 18135,
       35508, 160880, 63071, 112120, 15367, 197936, 4179, 53445, 74576, 9974, 151455, 49044, 35902, 149401, 248528,
       26197, 196747, 206774, 30390, 79511, 31502, 104588, 2543, 71014, 73810, 33794, 50782, 756, 97548, 62056,
       56272, 50737, 5849, 53462, 76842, 217357, 14935, 9006, 101130, 88623, 67244, 4622, 92025, 74101, 164554,
       94488, 240125, 234721, 95482, 37690, 21704, 6, 242255, 150078, 125032, 80635, 253132, 106719, 254676, 243815,
       118486, 180600, 70412, 2050, 104333, 256062, 122402, 194007, 223752, 106140, 157819, 34325, 109735, 258868, 194530,
       12227, 95444, 21443, 96833, 29833, 175572, 125818, 52519, 46898, 88938, 146049, 112714, 74784, 163689, 204489,
       123945, 150240, 123650, 58056, 171552, 70828, 78550, 158944, 14079, 62434, 160643, 33035, 122270, 5223, 135605,
       9972, 151337, 121529, 65682, 199603, 107321, 90040, 60397, 68817, 103796, 202848, 25323, 76417, 110141, 221710,
       119133, 174734, 12040, 123468, 184267, 215902, 8430, 117760, 252845, 52739, 134049, 165838, 3074, 215192, 185623,
       43177, 78673, 117167, 70368, 102515, 147924, 119379, 186943, 58349, 110959, 148938, 55246, 16711, 168866, 115590,
       12193, 177544, 98087, 77236, 117604, 127587, 69745, 201034, 155819, 34914, 170450, 162670, 117893, 30067, 146895,
       121551, 201856, 97134, 52771, 22661, 87072, 116693, 193138, 204979, 50324, 248897, 146443, 96576, 14622, 211590,
       62382, 183065, 59124, 16067, 57537, 238657, 121626, 50233, 58490, 59519, 91406, 66123, 96270, 179660, 43111,
       48126, 54055, 115286, 2474, 197792, 9804, 13176, 187478, 181581, 65040, 125728, 99338, 90435, 2154, 28083,
       43874, 112387, 207373, 91159, 16599, 80613, 91571, 147843, 119400, 92266, 75299, 163830, 64555, 216124, 174839,
       119915, 250994, 178690, 64119, 253232, 91897, 59017, 41796, 199592, 26133, 63624, 210424, 40324, 253653, 38773,
       5548, 227174, 228316, 83038, 193463, 143044, 32576, 20192, 113025, 39866, 62263, 97790, 101032, 52686, 168072,
       42889, 140225, 234609, 31745, 26203, 98552, 22158, 193277, 83128, 101562, 63043, 57285, 17000, 225089, 60197,
       59474, 108229, 183067, 66444, 90223, 71374, 90097, 149588, 179180, 83005, 192045, 193377, 106262, 204483, 242510,
       5865, 173001, 78219, 38855, 20625, 10586, 36717, 193781, 18949, 19138, 190801, 117911, 37903, 45112, 58320,
       40601, 146605, 113113, 68404, 115394, 40006, 86993, 19257, 150976, 49951, 158995, 160525, 94302, 105423, 129032,
       44061, 226297, 258082, 38048, 16293, 9464, 70934, 157511, 35108, 3108, 144383, 38846, 10458, 31460, 177277,
       54784, 27267, 111527, 123589, 119251, 73989, 94569, 260048, 222836, 11550, 242671, 80880, 110928, 155863, 72483,
       95984, 33188, 204966, 80077, 257691, 257360, 107517, 115063, 168680, 52967, 127392, 99699, 29032, 153547, 150849,
       67111, 243704, 19302, 71937, 206199, 163987, 70559, 134802, 224190, 74065, 92273, 228119, 124348, 170667, 34887,
       118259, 36257, 68065, 114781, 257796, 148229, 105043, 79754, 140865, 123657, 2326, 171087, 12909, 233222, 197710,
       34750, 61898, 143254, 64887, 255042, 56194, 110956, 254039, 54447, 66213, 21008, 106339, 98046, 107309, 249578,
       18213, 197315, 260789, 33084, 100478, 90149, 95915, 93409, 118260, 21592, 4197, 181924, 46052, 242500, 206409,
       34716, 144216, 258356, 45857, 18870, 123097, 92841, 117902, 21352, 48214, 122087, 123980, 72779, 124314, 40686,
       13098, 71038, 55747, 105515, 73161, 40028, 48482, 10994, 149072, 85004, 175451, 25310, 95078, 69695, 253836,
       27480, 177309, 197041, 115956, 31359, 186500, 80769, 195325, 60688, 56193, 225910, 95582, 23899, 9747, 7569,
       123509, 70394, 54127, 98968, 78551, 251201, 27266, 51245, 165684, 44264, 111847, 151766, 106125, 163671, 55235,
       91183, 226144, 141732, 100372, 230376, 9494, 57829, 29063, 186013, 93909, 256035, 70073, 50658, 132446, 125403,
       27690, 171192, 224643, 82926, 64044, 154966, 127928, 25495, 26001, 40711, 23729, 259569, 60420, 54104, 6950,
       88342, 185521, 166056, 70976, 81634, 93606, 110549, 201336, 225938, 99843, 36706, 6498, 7641, 34368, 77738,
       130865, 17818, 177367, 98618, 234465, 63471, 113233, 140371, 29696, 85353, 206181, 114371, 112235, 1128, 25200,
       14730, 68495, 148887, 45578, 181818, 123913, 114874, 64466, 127416, 26431, 92235, 176733, 10255, 91316, 150168,
       103300, 85379, 100461, 109508, 220565, 259466, 21319, 39725, 256858, 111980, 219324, 43499, 90016, 7472, 75196,
       68168, 72733, 12910, 108822, 145035, 249024, 54951, 219573, 152061, 25427, 46092, 212120, 37336, 55057, 200592,
       66212, 224973, 127366, 69642, 154575, 29457, 105589, 23614, 209192, 103724, 48285, 130657, 76200, 230001, 119039,
       102339, 30113, 254328, 25136, 34268, 235168, 6562, 15124, 116193, 114508, 244423, 42995, 9903, 20606, 56479,
       32333, 247952, 109182, 91136, 221607, 106542, 53667, 41964, 50207, 114860, 58894, 136395, 39056, 211719, 143116,
       1556, 301, 166465, 39407, 140540, 139098, 75769, 118711, 15610, 49274, 260765, 91259, 70106, 220684, 11009,
       114897, 122849, 13688, 119601, 63184, 17237, 34861, 197290, 49495, 60573, 177238, 214299, 71977, 106002, 12915,
       124402, 17812, 128411, 130890, 201656, 63389, 30855, 78360, 32906, 95286, 184994, 64099, 49549, 75337, 81189,
       1062, 198595, 169481, 1212, 195722, 37134, 60367, 80673, 8760, 64007, 8838, 206826, 2958, 66917, 80907,
       90036, 249134, 44860, 38535, 160471, 112204, 73386, 80898, 215818, 39442, 16975, 237198, 21906, 164867, 58806,
       53369, 19992, 151461, 30444, 140108, 14845, 70097, 113677, 234205, 26060, 223640, 193309, 66637, 206614, 62103,
       20627, 240307, 167428, 87945, 261389, 124880, 98820, 31503, 47992, 14469, 155470, 42842, 61315, 209125, 136920,
       9289, 77476, 51556, 78404, 254149, 40268, 34656, 36, 62217, 69156, 207829, 140538, 67824, 170242, 22397,
       121156, 255030, 142260, 71969, 114333, 188647, 76414, 203616, 16536, 52645, 125435, 249956, 124397, 199687, 201024,
       101867, 81663, 168068, 37408, 168351, 170059, 110652, 62607, 7599, 56675, 14607, 61652, 108615, 15685, 254854,
       107857, 153324, 187078, 24755, 155482, 180086, 91899, 254377, 100458, 38095, 40703, 228344, 38992, 251459, 90661,
       38842, 245139, 124965, 95101, 178610, 75517, 30123, 198954, 37899, 118, 191270, 15774, 93747, 137588, 213601,
       22437, 138082, 201328, 13694, 187830, 219978, 31131, 186897, 208206, 49794, 84216, 229285, 62377, 260611, 171680,
       5841, 231833, 245656, 127214, 258960, 8898, 93855, 214050, 127723, 42361, 181542, 166328, 41772, 75210, 242597,
       58791, 96739, 56620, 82083, 42312, 118579, 19185, 107632, 31136, 24763, 107098, 230353, 112647, 212242, 149955,
       33587, 221612, 89204, 49832, 240851, 65376, 114199, 90190, 12875, 86920, 29437, 127140, 44788, 225299, 109575,
       89613, 227241, 109687, 2579, 240754, 195656, 96422, 40562, 86530, 63834, 43637, 41229, 106585, 107586, 58335,
       125126, 69815, 48256, 121344, 250808, 189684, 119179, 49224, 76981, 67131, 36821, 219795, 47204, 143441, 29440,
       60953, 28857, 163535, 90426, 12830, 255836, 115867, 93483, 49183, 27130, 28496, 221166, 120349, 108440, 8305,
       106847, 79525, 65782, 128300, 161381, 122468, 115376, 94483, 242961, 36691, 247903, 170517, 13887, 223664, 85061,
       14711, 173483, 203119, 38171, 58409, 2695, 80502, 75777, 260229, 105423, 229056, 200092, 117866, 140571, 60358,
       81756, 158229, 21333, 738, 28160, 181275, 24420, 239214, 195543, 13071, 82048, 219036, 47621, 174499, 63437,
       65713, 20299, 207708, 5688, 40629, 227731, 45675, 184875, 91476, 23485, 114900, 259379, 84812, 204690, 103067,
       60853, 28309, 124726, 64922, 71989, 184157, 56058, 109586, 254761, 125307, 108918, 254161, 28145, 199837, 156410,
       67720, 57112, 87003, 96471, 70387, 88296, 72986, 186362, 258493, 121768, 163979, 166963, 49541, 17907, 57069,
       60774, 239917, 245886, 11602, 208902, 133089, 79822, 191754, 23289, 37776, 136086, 105695, 21012, 6927, 204556,
       71372, 211189, 101626, 69770, 254500, 87792, 9944, 169806, 2369, 91516, 130002, 147995, 81759, 17975, 261494,
       24774, 228926, 52409, 61529, 200868, 113008, 94414, 43334, 177743, 69394, 52791, 174743, 51837, 142657, 18217,
       42249, 143229, 158796, 80005, 142839, 84296, 123090, 224213, 13870, 88046, 246344, 225503, 9797, 24925, 6171,
       60382, 236150, 239897, 116762, 26362, 158856, 12381, 99372, 34592, 129613, 240475, 135180, 124396, 111034, 192172,
       10259, 155382, 201744, 122344, 91943, 223570, 47596, 134970, 54858, 110717, 188729, 203905, 54838, 89349, 94004,
       57783, 199578, 171337, 83131, 133803, 183497, 101512, 79770, 64652, 4428, 212754, 67812, 77746, 37393, 189507,
       24475, 122421, 225170, 45344, 77386, 82679, 45608, 248777, 93107, 61480, 177448, 210739, 43795, 243211, 75394,
       14072, 9572, 225654, 19087, 222826, 156341, 4382, 205427, 113319, 61636, 127955, 180173, 125101, 96537, 23432,
       15161, 205236, 54833, 124028, 204374, 134759, 96123, 42063, 93038, 83558, 63726, 191637, 84577, 221759, 159368,
       108360, 221860, 127965, 14014, 52550, 113431, 66159, 41601, 217273, 91369, 33993, 76278, 76915, 191201, 188996,
       109154, 4822, 185203, 9472, 209045, 10031, 90531, 148543, 182708, 69996, 21673, 72285, 49697, 97717, 192857,
       44600, 136962, 193239, 81373, 203120, 114790, 116784, 143063, 229397, 65034, 202109, 87667, 108098, 30031, 186676,
       52711, 115679, 47246, 13421, 12327, 237360, 8061, 178228, 222817, 6728, 130735, 253578, 49827, 10330, 58615,
       44202, 111798, 139541, 94101, 115752, 97550, 97363, 26176, 152276, 6665, 139304, 26667, 28983, 17907, 247736,
       35948, 12903, 205367, 71776, 156758, 86061, 18941, 235779, 166658, 17555, 247335, 72063, 123704, 77931, 212540,
       105408, 126737, 140696, 23678, 209538, 196416, 53289, 171892, 126865, 46612, 22724, 103558, 103678, 127400, 238417,
       66874, 164466, 42601, 16757, 136505, 134516, 96861, 43962, 20204, 52020, 236213, 55757, 34462, 1831, 63915,
       49217, 93162, 46260, 65241, 248592, 127850, 44972, 219406, 23502, 31707, 19247, 252105, 52232, 120040, 215473,
       2513, 8325, 31331, 101252, 219593, 186876, 22406, 23354, 85945, 5754, 174461, 130239, 85681, 155995, 189294,
       101441, 93395, 242253, 106670, 55557, 206238, 64685, 61758, 111080, 26918, 4903, 15466, 96629, 237531, 249664,
       91712, 207735, 181200, 32279, 51815, 125915, 118411, 120947, 17717, 13680, 46072, 213040, 128802, 239321, 175230,
       112754, 105140, 217685, 90164, 65866, 95056, 123043, 216362, 74524, 94674, 201707, 232524, 24963, 151916, 80565,
       57954, 75847, 94761, 9372, 11640, 145681, 51073, 46570, 254001, 97203, 102499, 23391, 50651, 236688, 9462,
       43292, 83405, 146636, 78034, 121965, 90682, 114321, 155195, 206229, 6236, 216062, 156917, 50524, 99828, 231247,
       20740, 243927, 243968, 91141, 123824, 58645, 13857, 138827, 127297, 87137, 178921, 218552, 37510, 78406, 142215,
       26072, 111309, 1895, 122729, 157931, 19422, 2428, 13978, 96726, 57380, 89805, 152670, 2834, 181706, 176670,
       63385, 133169, 117541, 65673, 73898, 259172, 42160, 247319, 243215, 17322, 185730, 2526, 49333, 227369, 139539,
       88114, 222314, 153477, 102550, 48085, 63808, 69566, 142332, 187424, 77310, 202833, 104259, 26295, 49544, 47358,
       37660, 252034, 233909, 21219, 257268, 85665, 32675, 167802, 135642, 29476, 94386, 254591, 68085, 50155, 256388,
       73752, 194143, 153330, 123856, 38886, 247278, 25633, 219114, 227748, 84105, 188398, 65431, 107119, 211525, 61400,
       73431, 254054, 128721, 33423, 219870, 215312, 34412, 257883, 247838, 5144, 255897, 174267, 40035, 48670, 58183,
       97596, 181774, 106534, 6228, 64873, 123328, 28743, 123540, 53118, 92567, 80228, 139191, 102583, 184979, 236023,
       59679, 129667, 225863, 91497, 262063, 141833, 50849, 174758, 73479, 20960, 39020, 159095, 52186, 65644, 209395,
       76017, 142116, 10290, 124263, 62851, 101993, 9011, 85142, 83324, 66505, 41593, 257238, 43112, 45395, 99897,
       66625, 112824, 194518, 3142, 133651, 29722, 41028, 225258, 25358, 107461, 198661, 74637, 72606, 65782, 94800,
       59058, 196214, 95167, 37424, 89705, 168691, 39065, 7745, 170306, 50213, 228354, 151574, 109519, 242246, 90782,
       126774, 149276, 1672, 57495, 114856, 239635, 51557, 142417, 179094, 110959, 27076, 104309, 55955, 87604, 254422,
       72354, 32998, 120618, 30269, 258437, 231543, 97452, 95517, 82204, 69728, 202598, 161580, 106041, 203572, 243975,
       102332, 52531, 31318, 28181, 27521, 165321, 93799, 205228, 1141, 104864, 191721, 98110, 45364, 253824, 145090,
       22624, 58103, 66775, 345, 497, 15341, 59100, 221149, 119539, 46194, 16511, 260618, 72733, 37156, 18719,
       24646, 241719, 205401, 112678, 21669, 210638, 33784, 128875, 254089, 29678, 152357, 152362, 63008, 40058, 163170,
       65385, 105220, 121168, 28191, 170683, 229956, 35633, 86290, 219365, 22243, 158625, 13916, 94170, 3275, 2788,
       100937, 28705, 250827, 60598, 84100, 202245, 93596, 213447, 115679, 96460, 137282, 189311, 18124, 13097, 185243,
       126638, 232278, 59163, 107614, 78478, 783, 26802, 14739, 71192, 24401, 6177, 132210, 16470, 172405, 36077,
       18137, 145476, 178321, 98063, 16599, 146328, 61558, 137040, 72150, 102620, 196054, 185691, 97813, 31853, 186788,
       79247, 209082, 1561, 89963, 116354, 150842, 2405, 241567, 58309, 40865, 83813, 55382, 83600, 164804, 173259,
       1224, 225900, 222424, 4322, 92789, 28883, 111658, 173444, 137819, 89656, 132820, 248243, 34782, 141992, 209978,
       90172, 174425, 100940, 103868, 230827, 157765, 40212, 36772, 120901, 4723, 128750, 89373, 122261, 59095, 105541,
       45243, 107941, 195667, 13956, 203863, 111626, 64468, 174023, 149833, 100724, 160147, 66407, 29051, 198396, 60061,
       35322, 157247, 94783, 31813, 36372, 102732, 129980, 149521, 233912, 25874, 26787, 222240, 75434, 153584, 118126,
       121276, 75264, 129648, 19254, 7097, 209030, 127251, 210088, 54705, 124187, 192955, 123174, 115942, 162394, 257893,
       28122, 92370, 12344, 83106, 226571, 116647, 99731, 148673, 102330, 129240, 171076, 97102, 23648, 134010, 18473,
       100404, 143314, 155945, 44407, 90949, 122660, 23019, 186671, 108297, 55230, 188334, 109097, 104049, 173192, 143941,
       60928, 208003, 180195, 70454, 59713, 192150, 130437, 140040, 243625, 52312, 14185, 7575, 80661, 211739, 73197,
       47873, 75495, 244638, 51483, 52490, 146822, 91179, 6510, 131758, 122930, 189197, 98269, 71088, 18968, 120384,
       100715, 187560, 175601, 11692, 126373, 173141, 27676, 237576, 120943, 65815, 104448, 75932, 2622, 256020, 46511,
       33142, 54467, 85909, 67816, 215445, 170807, 1960, 260617, 198776, 34674, 160124, 249780, 67375, 12470, 73273,
       75123, 214494, 118372, 121340, 33007, 29711, 84586, 194387, 216212, 54360, 65826, 202663, 121942, 259388, 171189,
       102876, 47814, 183475, 26215, 149240, 183490, 17149, 201847, 104009, 88579, 257614, 44675, 73385, 1645, 228796,
       103504, 26190, 8431, 96836, 171841, 173226, 81947, 190360, 50, 129287, 22020, 7447, 69938, 176450, 116752,
       14824, 261545, 82263, 108563, 123912, 54539, 33010, 242197, 78555, 101882, 143435, 28681, 125449, 246752, 188226,
       91330, 100035, 212561, 78122, 226821, 176186, 60343, 193152, 114945, 47763, 243782, 83885, 46269, 10150, 13969,
       83410, 168632, 188165, 98470, 228060, 234047, 88934, 154489, 185219, 26006, 2302, 151839, 64747, 232698, 229754,
       103761, 222177, 218806, 62351, 127123, 43670, 70336, 75109, 233215, 101074, 90205, 74159, 86673, 96003, 27246,
       53653, 172351, 206745, 117363, 140216, 3908, 21307, 259738, 138888, 130484, 87018, 158356, 15578, 64268, 211209,
       1959, 136999, 196820, 116656, 146122, 12166, 32106, 143195, 203935, 95643, 49694, 77700, 106301, 106751, 23941,
       112589, 16841, 140529, 129970, 62824, 167170, 38540, 97746, 203673, 93093, 4014, 61496, 15125, 180938, 61220,
       53321, 80592, 181621, 111145, 90645, 181021, 48189, 177055, 126106, 77476, 14081, 193226, 66030, 155403, 32715,
       84666, 41703, 109807, 127519, 55943, 14762, 7305, 96188, 102474, 75230, 74454, 172032, 113118, 238067, 24697,
       63095, 208350, 145314, 10292, 187515, 190770, 73471, 3670, 2201, 43525, 154407, 144249, 20308, 138854, 126431,
       111284, 170845, 215575, 68367, 23951, 65839, 122326, 106410, 97100, 105646, 51194, 118311, 90829, 52154, 122385,
       658, 184228, 209616, 56075, 177237, 205432, 25884, 241672, 218363, 119380, 27209, 199238, 22883, 18884, 189441,
       37494, 121396, 144078, 67742, 217270, 83932, 34519, 156308, 111054, 27507, 100395, 260927, 78525, 38466, 255839,
       11656, 44671, 14083, 7624, 43115, 27243, 48790, 245191, 81879, 94458, 244156, 1989, 72719, 165523, 23874,
       55427, 69330, 131681, 74154, 49552, 11377, 47900, 119798, 231643, 122702, 150071, 159742, 7196, 129462, 214378,
       88262, 201310, 184994, 116822, 52807, 108880, 105366, 203566, 46974, 24122, 164237, 115576, 38787, 172599, 41988,
       93984, 237875, 75974, 11045, 133885, 151038, 106412, 88269, 64838, 94228, 149695, 146503, 95631, 715, 73274,
       13138, 219384, 11601, 94078, 81298, 198923, 89105, 31800, 100252, 108910, 176348, 190229, 5452, 17086, 36455,
       3029, 42346, 16496, 48890, 206201, 61287, 19501, 256361, 73561, 73188, 149486, 17089, 120238, 197975, 247488,
       51312, 8182, 170911, 110749, 88041, 7752, 31, 149921, 108373, 22087, 144532, 113868, 3987, 176734, 194735,
       43010, 237828, 182092, 119038, 59424, 176039, 12707, 185793, 21815, 79483, 89720, 187242, 59178, 124710, 93994,
       123006, 237379, 150465, 16058, 217330, 169409, 27790, 239709, 258475, 3872, 32744, 96096, 56876, 199501, 258676,
       36416, 29835, 16867, 114020, 81413, 63473, 79290, 210309, 157293, 80490, 26531, 14982, 69718, 156987, 257453,
       12039, 1940, 54504, 58329, 128165, 176933, 131007, 37807, 220944, 109475, 45510, 199032, 117107, 121935, 184246,
       107901, 242577, 91986, 13505, 230907, 74509, 29812, 25573, 242459, 409, 42227, 231302, 39781, 178018, 223063,
       14235, 102089, 118907, 61969, 254110, 181895, 88752, 119061, 47233, 114623, 41426, 246147, 98201, 102829, 88585,
       123022, 76338, 241918, 7064, 145940, 108284, 1596, 114134, 72788, 86682, 238356, 52132, 37925, 261911, 101342,
       33226, 232045, 109188, 43370, 8482, 133233, 35362, 185833, 235776, 67034, 260216, 102940, 57691, 35985, 184195,
       67165, 9197, 156017, 88173, 240775, 195922, 50741, 254298, 136140, 32939, 105164, 18797, 21784, 62065, 96901,
       45806, 71249, 138457, 97230, 15289, 38467, 99182, 216525, 55326, 87412, 163274, 178084, 30674, 141818, 74619,
       77081, 167881, 101381, 74801, 114117, 26990, 63473, 193755, 135325, 72086, 221696, 12428, 64459, 257372, 205112,
       74115, 130236, 216633, 93782, 208793, 138429, 14369, 48941, 120175, 98254, 248141, 198094, 17810, 227926, 57385,
       8733, 17041, 95419, 127936, 187860, 233088, 125434, 216302, 188192, 7921, 141248, 6201, 58098, 30167, 208483,
       24411, 130168, 90325, 63615, 33123, 205122, 108812, 259940, 139823, 124598, 153757, 185037, 83132, 200223, 210920,
       46387, 32404, 91884, 79079, 23210, 71830, 40894, 166512, 94538, 119252, 105972, 2830, 114085, 33947, 184181,
       73168, 144696, 83850, 42572, 11386, 178090, 38455, 44972, 236856, 4380, 42834, 222574, 106931, 70932, 101777,
       59032, 164757, 94246, 42615, 215794, 171642, 61749, 98684, 46773, 107313, 164071, 252687, 16333, 113621, 200812,
       112414, 179749, 193376, 117638, 72885, 76414, 124086, 235887, 125612, 52099, 143168, 16530, 28461, 7087, 224452,
       48973, 222654, 31757, 43635, 119086, 14013, 23088, 221674, 25647, 79595, 172224, 76990, 62472, 21486, 247497,
       113469, 42065, 44759, 4208, 174832, 123145, 84393, 14942, 89265, 100001, 61709, 213977, 99547, 111043, 83928,
       116139, 127668, 25712, 95555, 238745, 17095, 121609, 241277, 108212, 43601, 253192, 61422, 65956, 174239, 235116,
       1845, 117866, 186033, 911, 247695, 108424, 31473, 229741, 237571, 13213, 247, 81361, 34106, 111258, 170886,
       23205, 109759, 210895, 3738, 46319, 184763, 119184, 82071, 117814, 1077, 215555, 23069, 96479, 198920, 204123,
       19942, 85939, 209358, 119567, 199495, 116862, 117020, 144020, 84203, 85708, 34355, 205247, 88111, 19525, 48159,
       699, 212865, 49311, 129089, 22521, 195502, 115059, 72093, 200604, 117323, 95215, 171419, 86408, 131061, 157612,
       45191, 239157, 72393, 117132, 82767, 174473, 38209, 185285, 30939, 73755, 190685, 233723, 13071, 245892, 241708,
       120842, 148990, 69697, 18451, 17154, 252309, 29477, 176716, 182378, 73155, 199327, 138781, 100151, 51832, 36232,
       81179, 161053, 222916, 30426, 67166, 40237, 123, 158982, 134864, 99241, 63140, 142340, 129133, 24804, 142105,
       106156, 244450, 138353, 60320, 52915, 21858, 118458, 152695, 62172, 53719, 145283, 20996, 68804, 42019, 13426,
       62538, 92503, 78741, 58670, 250672, 15305, 101605, 210898, 59572, 69044, 171498, 46399, 41512, 195721, 118582,
       33837, 80570, 80634, 4947, 161567, 24898, 76440, 145819, 205748, 30141, 131763, 239731, 19416, 54899, 238194,
       85698, 209982, 72852, 89287, 120544, 159351, 98586, 116926, 48400, 66004, 217830, 95279, 117185, 137681, 133975,
       122728, 83197, 140470, 105823, 189745, 51437, 83308, 133398, 54376, 39809, 82006, 71490, 128836, 145953, 6571,
       35931, 150917, 241515, 26562, 169890, 14522, 57954, 6292, 10980, 7450, 54338, 95806, 128253, 59368, 172740,
       77127, 42757, 110133, 73000, 216153, 23964, 85956, 138936, 16272, 65145, 231620, 87505, 4202, 164970, 137978,
       80256, 226820, 86222, 93870, 89758, 57457, 54624, 34832, 39908, 99260, 64283, 160190, 29753, 134822, 121683,
       29003, 43343, 261360, 21157, 64857, 25092, 48758, 25468, 163213, 111019, 147194, 135284, 108516, 23543, 40162,
       50177, 140138, 147538, 77216, 254531, 253702, 94478, 219213, 121527, 31615, 119108, 211815, 22038, 154248, 66827,
       127414, 148379, 93352, 80944, 123773, 33429, 128636, 31848, 117062, 44270, 92470, 23322, 92147, 202107, 136690,
       29177, 27223, 84487, 34236, 7562, 169984, 67096, 9132, 222426, 41892, 258722, 33532, 21970, 129398, 104200,
       34456, 78478, 91598, 4685, 160840, 242003, 92330, 55814, 53872, 64502, 187296, 1305, 12352, 164416, 172373,
       22504, 72107, 66099, 13439, 106687, 61387, 80293, 200426, 125174, 12348, 89333, 73252, 98865, 77058, 182103,
       2688, 106749, 140456, 32686, 48046, 223527, 116741, 121252, 194559, 94179, 88323, 234501, 9564, 27612, 124715,
       107626, 167973, 64437, 64623, 26070, 93459, 110989, 142851, 257952, 78740, 42917, 96167, 89369, 57455, 81052,
       130220, 62003, 103883, 30452, 179483, 140434, 81781, 208240, 176341, 60335, 64287, 148448, 5171, 12156, 139023,
       1896, 182432, 14566, 15627, 138451, 212429, 85077, 197293, 192480, 74339, 52496, 181178, 72539, 31310, 184216,
       4175, 138825, 189405, 61512, 126442, 65090, 121192, 42462, 39899, 52113, 42334, 198670, 81909, 219666, 56556,
       102212, 103140, 233694, 102750, 171491, 98730, 68063, 20698, 213649, 112453, 125144, 89364, 51298, 185978, 247732,
       116482, 208941, 110756, 31487, 14458, 62112, 36728, 137598, 161750, 6962, 164221, 110763, 104278, 131721, 242688,
       54664, 69185, 251710, 30030, 202589, 198637, 30381, 56431, 39784, 118148, 76833, 148643, 109303, 30580, 150265,
       72552, 104911, 125887, 80754, 229331, 257751, 62170, 210025, 94457, 51336, 135556, 213628, 119993, 101128, 161083,
       16464, 80812, 171634, 54846, 172391, 151809, 45162, 109682, 11085, 65293, 160223, 173072, 59982, 190070, 60192,
       68011, 232965, 111467, 18339, 120634, 62303, 67258, 126585, 198935, 31774, 83564, 169201, 24160, 177884, 66782,
       8497, 249226, 206360, 99962, 103856, 143327, 56025, 174968, 38473, 82135, 115568, 144668, 95367, 30066, 65375,
       89039, 103273, 51359, 61669, 123273, 229991, 50842, 166720, 29756, 49277, 214244, 28869, 83892, 124757, 70752,
       64853, 179749, 200828, 111297, 121112, 187936, 114648, 246019, 114364, 22355, 180844, 65839, 17856, 109360, 7448,
       82627, 238597, 142046, 39482, 68485, 32769, 2434, 26542, 19531, 116476, 45077, 249631, 29740, 88437, 261021,
       121802, 176574, 96715, 94035, 148988, 96087, 99962, 135850, 209906, 26405, 251966, 177976, 30696, 86967, 114748,
       68323, 159129, 18332, 22557, 123702, 57833, 40033, 142297, 231832, 42134, 191341, 108929, 20923, 3830, 69803,
       26893, 189881, 16425, 103357, 17573, 2141, 21914, 182202, 120147, 3729, 253562, 102979, 82490, 212609, 88598,
       127924, 15577, 238312, 43412, 224686, 83284, 15552, 115429, 182004, 74761, 211684, 13539, 118797, 172793, 257280,
       102768, 143027, 66834, 81594, 104832, 154465, 41295, 22314, 150941, 71025, 83380, 151368, 11959, 168778, 168793,
       88990, 192584, 113921, 95039, 205885, 437, 126488, 163808, 8191, 34130, 210398, 52140, 2419, 31393, 138525,
       71513, 260217, 21792, 92640, 116652, 16069, 103600, 75675, 118158, 25393, 196458, 112189, 34308, 123745, 48628,
       67186, 83297, 260923, 43332, 133526, 214473, 112788, 252069, 210594, 62096, 181107, 169315, 104802, 97527, 258214,
       76102, 260373, 121766, 101330, 123480, 221259, 43604, 29803, 74217, 108975, 115204, 86996, 35988, 194653, 112470,
       71578, 68934, 18281, 28050, 89217, 142943, 62328, 55638, 31745, 41703, 225721, 236618, 34957, 92290, 142270,
       126744, 173089, 57444, 20981, 61120, 4115, 103196, 97561, 105538, 128996, 123094, 208820, 2608, 138222, 116413,
       91622, 241490, 143129, 33149, 172013, 24252, 5306, 214987, 2644, 52807, 142316, 37621, 122580, 227754, 148152,
       1542, 19516, 85163, 77055, 92644, 261606, 65719, 10287, 45051, 114476, 54838, 142475, 11010, 71493, 102793,
       89328, 256845, 232536, 89143, 88707, 185280, 87697, 171958, 169104, 123513, 174829, 28650, 107883, 190998, 167778,
       5501, 117748, 83507, 61745, 202219, 225097, 52160, 131853, 215959, 40651, 161628, 63494, 59157, 159184, 43177,
       50357, 26268, 147743, 56666, 227783, 117453, 128353, 212664, 19014, 11617, 78975, 45389, 120878, 168970, 144656,
       62945, 153749, 150119, 81755, 37644, 113524, 108813, 194458, 145238, 47246, 159948, 237287, 56416, 68245, 198675,
       53676, 106495, 62280, 49116, 195188, 183978, 121310, 256703, 183456, 108649, 130730, 211446, 14286, 221949, 211422,
       14171, 247478, 153109, 56081, 186921, 260012, 12931, 57588, 160571, 81145, 201898, 249291, 18833, 248079, 49961,
       68468, 133288, 88470, 946, 87266, 20596, 41496, 240275, 189455, 88760, 194650, 164895, 63443, 249554, 40072,
       128223, 193480, 84691, 114570, 139659, 81430, 47064, 32807, 135427, 5962, 3136, 66201, 110837, 243901, 13604,
       119437, 79566, 93594, 107561, 71751, 128951, 16770, 171614, 53524, 130798, 192019, 229051, 33893, 39606, 169412,
       94922, 258560, 240084, 119017, 248331, 239764, 30891, 257281, 29381, 119047, 69541, 52904, 40564, 96874, 223111,
       127980, 113740, 45081, 36865, 82153, 170775, 124968, 194097, 93720, 7018, 53603, 177788, 92965, 183792, 188696,
       69744, 228205, 88940, 62636, 79758, 415, 29293, 221972, 148435, 92483, 223178, 74080, 25009, 204908, 59309,
       72462, 20940, 244284, 33193, 98624, 254855, 125255, 53868, 40517, 3752, 196041, 93461, 26178, 205817, 81974,
       31760, 35599, 69241, 54272, 182991, 259203, 30504, 109644, 255957, 64402, 28300, 259595, 114355, 209994, 69106,
       93331, 151197, 11020, 76016, 203610, 150346, 11665, 216149, 106276, 90962, 244745, 186701, 21812, 66341, 163017,
       103070, 195562, 202380, 32775, 115199, 146544, 54663, 107719, 213193, 45936, 217673, 111157, 112566, 119911, 6804,
       16586, 114109, 82020, 74140, 54007, 246276, 18620, 78452, 157448, 92378, 262100, 93778, 118630, 104953, 161911,
       56964, 234463, 159680, 63975, 59962, 39409, 121559, 43522, 14721, 68287, 100477, 255044, 63910, 131720, 7437,
       75802, 197171, 136339, 90338, 188744, 229807, 14009, 109507, 230479, 107624, 157048, 107190, 57082, 134993, 63608,
       9482, 226463, 102829, 103046, 140199, 27917, 49407, 153796, 253052, 13155, 96552, 30822, 83070, 179901, 217164,
       115360, 151193, 118926, 116359, 164622, 193566, 125522, 227271, 6836, 113731, 233314, 17970, 280, 161108, 151393,
       49838, 254322, 185398, 107288, 3416, 162744, 48005, 134742, 157577, 78846, 43470, 227510, 79471, 45855, 228942,
       47844, 156408, 124155, 118551, 54158, 16384, 65959, 38190, 217197, 60920, 51233, 154969, 130746, 31895, 111788,
       64684, 20898, 12545, 23383, 4109, 150627, 67249, 9278, 54654, 106694, 210123, 167313, 101824, 166924, 184524,
       103360, 259290, 236636, 92802, 24488, 128344, 33320, 220015, 55667, 112995, 22360, 180042, 117105, 110596, 243200,
       25447, 257491, 66853, 17099, 21284, 140717, 127874, 129615, 63635, 113812, 251281, 181242, 117078, 65086, 255355,
       116179, 32895, 70243, 70999, 255695, 50269, 84725, 44152, 119986, 71481, 209650, 245943, 6711, 188376, 251699,
       97714, 152149, 67644, 66234, 230758, 102315, 84896, 137324, 97423, 65882, 1184, 79151, 64462, 181833, 110023,
       22516, 194552, 33496, 36531, 147867, 215786, 20821, 36710, 64703, 25646, 97701, 32115, 127530, 23909, 58637,
       20068, 232145, 93243, 35293, 213137, 96281, 77409, 201226, 195152, 79977, 85549, 65472, 20181, 182749, 114938,
       104034, 34192, 26831, 102918, 28915, 75479, 31105, 185106, 141587, 37836, 18251, 153805, 122943, 247857, 143419,
       108222, 106893, 205288, 91461, 171105, 260824, 10778, 123944, 68688, 54822, 186020, 142734, 73308, 213641, 76646,
       24564, 97606, 87157, 58749, 250234, 215342, 78777, 174014, 238291, 42909, 240180, 144060, 102359, 261962, 257915,
       110159, 106840, 158443, 42416, 36799, 42458, 109924, 123352, 212909, 13575, 258912, 93180, 109802, 217163, 245089,
       20021, 79843, 183073, 10869, 112127, 219525, 84118, 205995, 160047, 61857, 203005, 114042, 118999, 9640, 249395,
       47603, 244923, 200757, 37637, 162915, 130006, 65632, 85358, 220120, 59761, 204068, 235596, 45144, 228818, 163578,
       90930, 15598, 92041, 99557, 75679, 157328, 111802, 82519, 255252, 127514, 68391, 112244, 34951, 42051, 230685,
       93859, 211009, 100943, 51676, 56477, 16551, 88746, 127985, 243686, 62387, 228620, 93743, 130255, 217088, 68605,
       95538, 173209, 169496, 124844, 246344, 188606, 109441, 33761, 110198, 118345, 10835, 203444, 106747, 144970, 45305,
       60182, 237380, 260759, 33002, 109093, 21580, 48538, 158868, 228537, 2652, 105771, 16431, 68680, 218220, 184962,
       66198, 245366, 2318, 68845, 164869, 64477, 127668, 57860, 79341, 119466, 25989, 45730, 21196, 4530, 48468,
       48350, 44529, 49407, 55568, 205613, 224011, 47255, 202010, 113837, 104660, 121357, 87688, 68686, 174447, 164271,
       74986, 70047, 137815, 111806, 50647, 47620, 105634, 161198, 198466, 17329, 59957, 89223, 93574, 55670, 55892,
       57073, 126953, 12757, 38620, 57939, 169269, 6556, 17535, 176940, 63864, 202997, 102950, 46587, 208828, 22347,
       32966, 83135, 110503, 91052, 3392, 156632, 100857, 259178, 42655, 32085, 13589, 20865, 6481, 45723, 70941,
       111247, 187162, 145469, 1305, 116181, 260270, 122829, 54736, 137827, 82263, 102792, 158048, 42185, 21540, 36308,
       32306, 92422, 143712, 1180, 102347, 250981, 30863, 186009, 166714, 18052, 84917, 261616, 80237, 223053, 203063,
       21829, 121474, 112087, 69288, 149439, 72505, 77347, 193910, 109106, 39064, 241561, 250180, 4596, 8650, 44678,
       4882, 246583, 25293, 3453, 104208, 230108, 96878, 143752, 38487, 41682, 44047, 237029, 104372, 172484, 62565,
       56588, 22200, 30967, 59375, 96225, 188335, 67224, 143779, 190813, 93458, 120337, 53104, 35848, 148800, 211535,
       15936, 182734, 217724, 72883, 143402, 206018, 42857, 160178, 212598, 57998, 58055, 195661, 84796, 157012, 133331,
       64766, 12882, 133209, 81301, 48526, 209056, 71329, 100316, 128267, 96966, 154681, 83882, 92528, 137456, 252208,
       70017, 88473, 98142, 88985, 46333, 258048, 114499, 53526, 246707, 56658, 173600, 104833, 54101, 178643, 162608,
       100171, 52957, 98961, 76356, 130162, 9810, 9307, 182, 210297, 116930, 237534, 24816, 4034, 210443, 10672,
       98093, 211602, 244136, 99456, 174554, 128725, 124926, 46181, 243182, 7095, 132429, 107532, 78231, 58315, 183739,
       56077, 240981, 252016, 43336, 189440, 213023, 11838, 61429, 170546, 73748, 52631, 152973, 62788, 216529, 208820,
       13704, 42451, 72666, 80280, 58897, 279, 96724, 259883, 194041, 100568, 183887, 169579, 118669, 19538, 25956,
       53670, 39080, 170195, 124921, 40351, 136846, 113433, 147582, 161214, 38863, 14134, 21893, 20877, 143201, 206508,
       57067, 94091, 41957, 52677, 174967, 210830, 75460, 178464, 153849, 76465, 157350, 72007, 98302, 77074, 183829,
       66832, 77408, 214391, 13739, 82101, 201198, 112497, 252165, 33036, 40601, 121489, 240019, 127309, 236117, 167082,
       15448, 41986, 68406, 125599, 235312, 193493, 11929, 26096, 231270, 30282, 96645, 108559, 6105, 85503, 76064,
       92420, 154758, 92559, 111450, 93323, 64938, 56894, 148068, 81739, 121703, 64335, 97084, 77371, 178240, 103720,
       82576, 77399, 240039, 110810, 205941, 189235, 38902, 51505, 39305, 46434, 83001, 148903, 118744, 243781, 135124,
       118091, 22899, 2760, 127989, 144295, 31515, 118205, 197083, 45459, 16694, 237897, 132579, 107967, 49711, 9032,
       53718, 91488, 258198, 129866, 82660, 252200, 61902, 212482, 137454, 72592, 105645, 140080, 69438, 172410, 40100,
       42170, 187689, 59724, 9833, 77394, 47581, 117394, 209209, 153933, 105208, 84960, 190063, 18288, 14203, 94263,
       101812, 149648, 39881, 82030, 255383, 257957, 53627, 77219, 194506, 33295, 15742, 226035, 112686, 97284, 150896,
       91775, 19797, 180619, 71793, 95791, 18756, 79897, 96174, 30557, 11936, 59406, 135368, 62117, 160144, 87469,
       25388, 179509, 241623, 27313, 69618, 237118, 86678, 113493, 235531, 119440, 43603, 67272, 52921, 48876, 101312,
       27230, 29546, 220480, 85032, 146422, 129173, 114188, 59910, 49180, 98083, 168270, 111204, 113869, 196010, 142972,
       70327, 77028, 15566, 98549, 241985, 167728, 18358, 142062, 53022, 45649, 13208, 24928, 51058, 259021, 15233,
       67016, 145765, 179586, 121775, 235062, 83408, 114595, 209385, 72421, 17632, 137710, 231416, 22647, 232063, 99414,
       46876, 173569, 173729, 38108, 99612, 27377, 80579, 67730, 182231, 118328, 173574, 22763, 126129, 125029, 159764,
       85669, 12109, 173724, 109859, 53174, 228893, 68839, 79374, 59805, 27305, 217469, 30200, 68771, 251540, 66388,
       72755, 206238, 6950, 97315, 104295, 188839, 28820, 131917, 240688, 48275, 46766, 188276, 47713, 211928, 256291,
       125755, 174769, 148403, 58188, 197614, 162058, 98971, 177335, 162388, 98410, 91587, 194614, 34805, 106794, 257744,
       74956, 27243, 105420, 117218, 18044, 45656, 62285, 30273, 160182, 123878, 115847, 80269, 28109, 122954, 116061,
       9720, 47792, 140, 116844, 168312, 103245, 111107, 70773, 119165, 130100, 194043, 212988, 89049, 121444, 122127,
       122773, 146780, 195986, 108389, 226129, 147513, 110680, 169957, 14627, 74598, 137343, 42283, 50117, 76697, 158257,
       122494, 103726, 75898, 56638, 121226, 126155, 70624, 34630, 81248, 58473, 24763, 11285, 74031, 227029, 33359,
       61670, 10934, 259925, 6287, 53434, 247072, 115611, 214915, 50731, 58247, 153782, 79225, 77194, 5740, 54488,
       18243, 163494, 204793, 444, 13634, 82323, 32150, 173841, 224865, 92351, 131177, 222601, 13001, 163958, 56415,
       119129, 182081, 167833, 28183, 114874, 76975, 26816, 129554, 217297, 23790, 160313, 6179, 1832, 160191, 165823,
       101162, 22639, 236929, 114692, 137908, 144862, 80499, 139921, 72452, 24667, 196083, 100260, 37391, 251033, 9367,
       62380, 174083, 211407, 125088, 8538, 88238, 32420, 219940, 163455, 95898, 76524, 185131, 57599, 93722, 164413,
       39039, 117347, 66297, 59757, 213305, 231052, 9333, 54232, 199446, 104685, 144462, 260315, 31890, 18429, 242412,
       95081, 57097, 232220, 8958, 146208, 219900, 125186, 177721, 133045, 25298, 225487, 168596, 115702, 201696, 236035,
       106099, 71442, 76428, 126859, 88072, 81211, 62638, 22206, 159004, 95341, 109602, 36205, 48589, 206370, 12488,
       24165, 134661, 190272, 58074, 222476, 196822, 21725, 14403, 131312, 128718, 144912, 168140, 12615, 57694, 113520,
       77229, 41685, 49914, 82111, 228179, 141029, 70527, 42426, 85339, 86794, 7448, 10735, 15228, 12200, 209727,
       72747, 101713, 22879, 37645, 137919, 245559, 123230, 198434, 230821, 99886, 67045, 224957, 127469, 109630, 26152,
       4922, 143962, 105716, 37372, 255731, 64556, 25614, 112532, 23982, 1462, 14173, 167119, 31762, 30963, 25729,
       88968, 137812, 63915, 30289, 75288, 75209, 66716, 26111, 50676, 116368, 25156, 148976, 90932, 62425, 241699,
       51724, 215338, 99206, 48820, 65211, 59406, 59734, 53638, 67907, 23205, 46075, 29380, 83099, 196237, 137513,
       47730, 62470, 105874, 111721, 60570, 155389, 99162, 228133, 52694, 80021, 47564, 111797, 47736, 187099, 73782,
       27516, 48507, 109036, 101731, 203720, 132302, 63754, 160805, 38888, 29458, 114557, 254808, 25581, 243044, 222752,
       21679, 112028, 130351, 101864, 18955, 101229, 30013, 211904, 142461, 69028, 14356, 67396, 59185, 22184, 14865,
       75970, 199172, 190067, 114970, 117204, 252534, 113737, 101164, 189557, 59123, 116099, 253586, 2014, 22338, 246987,
       55894, 220856, 261536, 79454, 261970, 69699, 73107, 89785, 131059, 85371, 242760, 243015, 20195, 3776, 165966,
       84742, 169991, 218892, 23940, 134472, 138333, 98372, 178047, 170440, 44444, 233739, 140313, 93047, 108591, 163766,
       6273, 220143, 63299, 53459, 7674, 18237, 92410, 74685, 98562, 29736, 97600, 147642, 104239, 226370, 181525,
       82677, 147109, 84497, 77012, 235038, 27656, 46340, 93170, 201117, 63235, 230457, 144730, 78295, 201215, 237691,
       61926, 145278, 237987, 91529, 84933, 127422, 56845, 137472, 146572, 26512, 91875, 136073, 28040, 191045, 31594,
       760, 186538, 259996, 39447, 33998, 111922, 98162, 34858, 5720, 104092, 129649, 74036, 26537, 216446, 110624,
       125703, 213583, 236606, 65850, 246139, 86374, 120190, 62545, 76464, 92637, 36444, 92123, 94690, 208043, 91431,
       11146, 219553, 247431, 28834, 177467, 120593, 1155, 99045, 198080, 93864, 73948, 229079, 45146, 56450, 85282,
       103108, 31086, 239125, 44425, 12640, 124552, 107391, 187061, 15882, 17130, 231083, 248122, 22724, 96050, 58257,
       44679, 96939, 234161, 53541, 67904, 163154, 45705, 45828, 196852, 100092, 194994, 261468, 12707, 160677, 17606,
       46034, 188009, 43822, 109738, 189062, 150898, 8755, 59378, 124600, 123514, 222360, 97319, 129278, 136616, 109651,
       11608, 211728, 94712, 38177, 176170, 129651, 48811, 78669, 11477, 101763, 44426, 21261, 78109, 83654, 211620,
       84458, 78930, 62302, 99288, 85851, 61316, 15463, 194881, 150634, 109210, 112705, 47182, 92486, 261874, 238326,
       75673, 87714, 177481, 116619, 102183, 238739, 91790, 145336, 234785, 26437, 57016, 219522, 56327, 153770, 161577,
       64755, 48930, 128040, 7237, 127080, 116868, 125126, 65051, 86408, 16852, 230353, 14378, 91417, 168615, 189810,
       66352, 187265, 221304, 3359, 175703, 212850, 121208, 131375, 44004, 111651, 250139, 65688, 68715, 140280, 32924,
       30007, 243763, 28849, 15941, 93199, 85958, 47630, 151798, 48940, 33479, 129932, 139367, 66413, 7627, 247496,
       126669, 52235, 53492, 75360, 79761, 36212, 116645, 11365, 246874, 85311, 259781, 163288, 62291, 134409, 219405,
       112015, 32102, 218309, 61783, 42188, 147533, 113852, 217989, 212467, 38217, 144268, 212315, 16883, 206360, 229155,
       112107, 203809, 229801, 76993, 178349, 81762, 116535, 31148, 212843, 122922, 232698, 170516, 7029, 47286, 68148,
       65663, 12670, 70866, 49147, 92635, 124760, 82032, 134170, 195319, 104017, 153459, 5172, 36777, 136521, 131054,
       72980, 177690, 206380, 92894, 123843, 119677, 17620, 39554, 199952, 106701, 98958, 139668, 79443, 261481, 73748,
       124457, 202101, 221860, 44502, 192541, 183619, 14174, 237228, 69982, 66388, 32878, 185211, 11247, 102097, 24247,
       127077, 204594, 65411, 5070, 134964, 129526, 98763, 69029, 82431, 68826, 58072, 151224, 48315, 221816, 231380,
       8630, 16826, 26264, 81548, 173823, 217175, 76705, 261885, 133170, 36815, 244414, 144239, 119304, 151741, 87593,
       39860, 80447, 102350, 58946, 107221, 101225, 71272, 8551, 185111, 13137, 155382, 70894, 122180, 78868, 221639,
       49091, 53103, 150768, 10587, 234126, 77375, 50763, 7527, 188740, 78669, 196149, 238098, 67325, 126615, 211039,
       91035, 1473, 135000, 7272, 102565, 20625, 37295, 80444, 4955, 107378, 49851, 76450, 10471, 216385, 200759,
       112130, 66860, 223295, 12045, 1200, 212601, 109373, 152791, 197534, 47289, 67451, 71853, 80243, 122248, 9515,
       20039, 57677, 131957, 8672, 227198, 163109, 28303, 118561, 206477, 16758, 14580, 181585, 40947, 174540, 233918,
       67421, 63147, 289, 77169, 230793, 203884, 103529, 155338, 208482, 86014, 177022, 172452, 79791, 44876, 207964,
       53973, 24617, 14628, 62103, 5029, 204973, 54332, 19437, 244577, 110384, 101159, 85550, 30146, 162350, 22182,
       749, 223855, 824, 85369, 210126, 148434, 26537, 32331, 64020, 116669, 44865, 447, 112596, 241310, 186481,
       10056, 212361, 30771, 13944, 141839, 109160, 64903, 34324, 225819, 79852, 8612, 160254, 36032, 205943, 18780,
       93952, 28920, 149464, 77976, 218285, 184560, 42575, 90626, 151744, 3325, 128891, 36911, 98323, 182890, 25866,
       28148, 50459, 83557, 109376, 37356, 89512, 55088, 74702, 21729, 75638, 182074, 236451, 114419, 35649, 139217,
       113196, 208136, 51543, 48695, 213323, 251571, 27379, 127125, 173862, 101599, 248171, 192913, 56764, 180472, 33921,
       25171, 86030, 93460, 118544, 219799, 106462, 25965, 239323, 190635, 3382, 156539, 18264, 2658, 35840, 198824,
       81568, 31038, 41204, 86727, 19282, 231960, 40768, 225015, 77225, 41944, 125929, 108517, 44498, 38386, 258906,
       89149, 194259, 103328, 7619, 186714, 5719, 121781, 36327, 237073, 29166, 72955, 81587, 131029, 43609, 162072,
       22481, 215618, 184110, 101128, 35980, 2771, 29283, 33839, 238803, 10596, 197128, 92222, 114679, 68338, 34807,
       112558, 64236, 259418, 52896, 204073, 167611, 92064, 122472, 100008, 73015, 195540, 195374, 111798, 173993, 56643,
       41295, 4197, 17197, 68638, 206782, 133110, 63618, 190693, 168855, 46387, 37869, 25305, 116844, 209248, 258343,
       21741, 249388, 113124, 19596, 103913, 180026, 75616, 179991, 181978, 86179, 21944, 197192, 25509, 35363, 253575,
       51212, 30563, 179053, 124068, 4201, 93918, 32324, 167464, 168303, 87603, 98028, 54118, 97012, 225792, 179057,
       58737, 32740, 213643, 122883, 106466, 68237, 96555, 18769, 37406, 60021, 23732, 77797, 74623, 236864, 188502,
       90782, 60098, 64495, 77619, 144527, 169516, 115172, 170316, 224845, 46778, 29030, 120611, 39306, 163504, 160305,
       28028, 76263, 251906, 4952, 75809, 122156, 5637, 242834, 70562, 114039, 229184, 250262, 88918, 90829, 39661,
       86577, 79889, 257097, 80562, 121520, 97696, 111308, 223276, 206092, 62949, 143256, 176859, 114086, 127957, 245708,
       47113, 46785, 78813, 121465, 106432, 197493, 91574, 96388, 149002, 33708, 189156, 8092, 73935, 193686, 145471,
       69865, 100074, 231892, 18074, 176779, 238485, 77495, 102273, 138198, 41259, 152376, 241794, 6861, 119947, 121997,
       124342, 68131, 259448, 84081, 111582, 167953, 114939, 135853, 7424, 88612, 3326, 97170, 46790, 148503, 151241,
       67199, 13373, 160490, 88571, 125664, 144861, 125862, 50533, 48509, 33248, 252535, 97927, 114684, 260316, 85690,
       121120, 190341, 153811, 87872, 184113, 138888, 122062, 256740, 94295, 52150, 194567, 249504, 124913, 192997, 58050,
       92115, 41228, 244627, 5505, 204458, 119914, 118865, 166674, 91729, 63500, 214964, 207231, 60335, 256520, 182624,
       74247, 238807, 175421, 19580, 34423, 73833, 61494, 139543, 242273, 108937, 132788, 247930, 2029, 83069, 67706,
       35771, 209200, 231449, 321, 190724, 3179, 54488, 29547, 1980, 95461, 202005, 241456, 104696, 162840, 28165,
       123887, 239172, 114390, 79757, 240289, 104156, 33374, 118663, 172258, 121129, 241169, 173211, 101622, 48887, 240754,
       75291, 128483, 30194, 91178, 250178, 94823, 121151, 260383, 83538, 93374, 238577, 66881, 48283, 152950, 13708,
       93458, 8527, 172685, 5279, 88957, 139370, 50648, 68293, 215613, 53257, 150059, 27954, 21867, 215236, 125549,
       3025, 225471, 225018, 17482, 142986, 19173, 85802, 143837, 171868, 105157, 157217, 217239, 129525, 211864, 116031,
       45398, 146035, 8341, 78561, 218476, 27991, 122833, 121920, 171870, 21894, 131167, 79584, 94063, 63515, 179986,
       98956, 150080, 107305, 11662, 52805, 163333, 112885, 178104, 128705, 106575, 79884, 112436, 4378, 52134, 184872,
       11938, 161592, 178503, 6439, 42004, 250752, 43875, 132173, 1671, 66753, 138041, 121911, 69775, 231053, 83961,
       35083, 161883, 128020, 119484, 216823, 77174, 48268, 246518, 175295, 5970, 91761, 154955, 39351, 96459, 142184,
       69613, 150531, 104004, 53506, 118156, 62853, 35893, 22718, 74603, 17212, 209975, 140893, 107369, 138767, 173006,
       130566, 196391, 239926, 43193, 195697, 29651, 50019, 218497, 165434, 81007, 108641, 132799, 94167, 147056, 166011,
       51384, 24952, 99653, 118610, 241604, 255796, 73400, 220954, 246920, 59033, 138436, 223168, 84760, 181168, 75651,
       124885, 237501, 226798, 104143, 146364, 6267, 5244, 157560, 123602, 43556, 137526, 31050, 61675, 61065, 98828,
       41224, 117237, 63807, 91774, 257942, 173689, 108300, 196610, 217073, 95858, 226575, 74970, 129673, 233982, 45361,
       35723, 95762, 109646, 114686, 163339, 206454, 100482, 200794, 98097, 47471, 129528, 38064, 96223, 45137, 152263,
       13641, 116328, 243882, 103459, 135842, 84863, 69773, 166918, 45254, 38311, 15077, 216917, 85954, 11140, 256222,
       84098, 109175, 132013, 27457, 203996, 90708, 3984, 65523, 258895, 56835, 204396, 104034, 74647, 15660, 37988,
       114898, 106704, 215370, 121663, 60775, 61516, 69311, 146159, 130982, 98802, 138995, 45649, 57580, 93981, 103869,
       97790, 125940, 230114, 26843, 195422, 72667, 48636, 51621, 115512, 83129, 139528, 234886, 2380, 227, 145325,
       94694, 117668, 65251, 109515, 81060, 196593, 52316, 77542, 250897, 58712, 185730, 35881, 111579, 68713, 24185,
       101666, 158429, 191092, 37768, 86462, 15637, 42464, 51442, 245830, 88981, 243184, 175952, 73819, 131169, 229506,
       21263, 197746, 112326, 40623, 34881, 139499, 117962, 159401, 32993, 90200, 104797, 84605, 129233, 164041, 63377,
       100533, 227103, 30669, 123466, 123933, 209487, 28336, 70452, 89280, 101120, 17173, 151729, 2649, 249246, 190864,
       87917, 224805, 189348, 61509, 201000, 249169, 45450, 140547, 168407, 113037, 16584, 56372, 111970, 150735, 248457,
       2923, 33833, 125236, 79889, 14525, 83428, 48212, 132462, 258880, 54481, 135997, 88156, 109057, 63903, 19519,
       40611, 83501, 181383, 123607, 76993, 199807, 23544, 252940, 49675, 86864, 92661, 140907, 88094, 40722, 104874,
       33055, 189844, 88813, 42565, 186598, 252113, 109418, 185603, 12463, 99851, 88703, 162451, 43135, 66905, 157753,
       69986, 197268, 148122, 8084, 146745, 187981, 27360, 194064, 161008, 63677, 123808, 62615, 11268, 196458, 187014,
       110537, 67743, 93401, 94110, 133685, 235410, 123683, 249686, 188157, 90894, 24719, 207207, 123260, 75671, 219380,
       72681, 18271, 81943, 78671, 223815, 181828, 128053, 144198, 17658, 84165, 39724, 189539, 4035, 67411, 79605,
       94870, 72755, 14870, 118681, 155298, 67303, 104278, 77201, 178559, 76524, 51041, 247133, 87989, 24659, 108130,
       129786, 109628, 217379, 11883, 68489, 20270, 87457, 29931, 62680, 37145, 131759, 141552, 83897, 243390, 149465,
       79642, 114645, 157478, 20113, 234330, 4863, 27098, 182544, 25218, 81478, 60831, 98318, 16807, 93232, 78671,
       34757, 206481, 176992, 109477, 79805, 82475, 42872, 141000, 160276, 63971, 5453, 70992, 123357, 38275, 47948,
       29772, 232094, 253510, 51069, 16081, 206324, 79489, 166082, 239992, 99003, 205564, 241613, 118181, 134402, 18265,
       119992, 229487, 261435, 101795, 201281, 143494, 29927, 204318, 181589, 3251, 211945, 91206, 50302, 4351, 125380,
       18553, 23854, 60982, 93111, 243721, 219925, 86655, 185670, 108511, 5763, 118229, 189962, 109654, 5195, 61829,
       32603, 72718, 148577, 56652, 227341, 114818, 87547, 107629, 110162, 56284, 204270, 143493, 57840, 124489, 51284,
       8601, 260205, 92370, 52618, 2330, 24917, 100250, 37502, 92965, 119953, 260274, 82850, 54197, 235077, 108656,
       55520, 63307, 251158, 92094, 194007, 143027, 123571, 3074, 171209, 35004, 55458, 245498, 57690, 152420, 218750,
       104329, 211020, 101033, 79913, 198056, 90183, 14494, 202709, 176984, 82278, 48526, 248612, 24477, 54791, 251716,
       66875, 6006, 31117, 69350, 163446, 122301, 114845, 190603, 55683, 60620, 12971, 200665, 36627, 20228, 247860,
       30273, 57984, 135064, 114589, 246934, 159066, 22414, 192599, 235527, 55819, 116395, 26607, 24533, 40506, 108395,
       101358, 132945, 64832, 62176, 254454, 121993, 46025, 27737, 27791, 47330, 13656, 184608, 111701, 110232, 129562,
       72584, 68088, 149339, 94092, 98299, 175267, 117576, 165780, 102875, 118193, 22272, 72948, 43058, 88806, 148917,
       124839, 181393, 257142, 3260, 139357, 182211, 49392, 154836, 71815, 117414, 38758, 93614, 35997, 53768, 187536,
       35793, 86994, 50984, 39665, 80779, 193988, 80257, 36694, 148044, 57453, 40256, 59886, 95254, 154264, 3184,
       117297, 190773, 68336, 88368, 173138, 237457, 26799, 225954, 249497, 122248, 126433, 177046, 34667, 159880, 110080,
       19646, 247746, 86832, 11792, 50115, 90050, 73843, 218538, 19559, 14911, 19262, 245003, 18189, 165853, 235374,
       39325, 156015, 179979, 36916, 215819, 83348, 79198, 230974, 162750, 107052, 114627, 257000, 99791, 163089, 183011,
       34404, 95013, 190129, 32153, 88497, 189284, 126588, 59620, 132593, 1079, 141730, 61706, 115306, 191288, 237636,
       26178, 214029, 176664, 124162, 118173, 123838, 44866, 236044, 35136, 57717, 206492, 224616, 92683, 186937, 196205,
       77026, 251111, 155176, 41672, 247417, 163505, 72591, 190265, 86045, 95775, 55770, 106221, 5548, 242753, 8667,
       1467, 239950, 128283, 60039, 196565, 150770, 17280, 23375, 13306, 87076, 245097, 504, 28056, 74329, 632,
       56734, 173085, 209317, 25909, 32777, 250957, 71890, 220345, 126461, 15211, 94117, 40659, 3028, 173384, 74898,
       6701, 242763, 176521, 125076, 147441, 241560, 18649, 193788, 221199, 92861, 173433, 52254, 8903, 58573, 112105,
       14176, 208060, 155080, 66699, 112204, 29709, 60931, 147470, 260060, 124725, 140068, 129604, 123841, 123862, 158149,
       102184, 226491, 50000, 78918, 181162, 18276, 59632, 146465, 116942, 46685, 8611, 215549, 124136, 172741, 175897,
       79024, 121564, 82325, 75900, 50947, 101504, 30395, 194991, 59146, 6120, 203524, 233045, 123887, 198580, 251513,
       41121, 237986, 188499, 58011, 7461, 256128, 15026, 22724, 33336, 109697, 90641, 130283, 3621, 199123, 146298,
       109312, 219459, 14126, 18387, 114608, 90721, 116203, 191724, 121758, 95652, 198998, 261021, 21583, 173184, 194218,
       74162, 234870, 146333, 40980, 128040, 91358, 23361, 96663, 31424, 112614, 191166, 54654, 52890, 140522, 188732,
       52237, 241625, 211148, 22267, 101250, 148101, 50209, 48312, 17928, 114244, 147661, 145, 47596, 1662, 87322,
       124728, 152605, 144036, 124034, 157296, 28908, 18992, 41175, 176784, 23240, 141720, 194038, 113072, 108985, 120938,
       51479, 251439, 112358, 573, 80374, 228188, 35896, 243047, 116553, 78332, 112039, 86689, 104761, 101892, 217919,
       17483, 134432, 155643, 14488, 230088, 52631, 120860, 138487, 209761, 98454, 136017, 244887, 77303, 155145, 135860,
       100818, 223068, 100099, 56210, 209412, 123690, 99412, 81713, 64883, 48732, 252096, 165894, 31993, 252655, 234521,
       95553, 64790, 101440, 55007, 75150, 215639, 128631, 15680, 260439, 45807, 189219, 157059, 120812, 172088, 15450,
       122285, 70035, 237855, 31700, 39184, 176798, 104624, 117103, 41932, 56763, 246818, 162091, 120261, 209989, 211111,
       58998, 180528, 218394, 97557, 98786, 10938, 61206, 92341, 65772, 29858, 78814, 85569, 26129, 57698, 43643,
       55762, 30800, 61294, 99024, 51297, 112806, 79307, 243716, 196172, 90260, 4793, 137440, 37005, 20825, 142016,
       63102, 181840, 55284, 5818, 255897, 32535, 107155, 159599, 178251, 129747, 38139, 25140, 53330, 118619, 52633,
       1437, 7325, 41244, 22255, 15951, 205175, 85528, 765, 155271, 80226, 120689, 248623, 103267, 1186, 88336,
       33277, 22304, 115539, 100090, 199867, 171494, 90175, 115780, 240589, 42311, 246898, 221509, 71498, 58338, 21512,
       19303, 123896, 120964, 59318, 140140, 180999, 115500, 78037, 185986, 55206, 103949, 172318, 110043, 180184, 256626,
       77365, 180641, 40538, 25149, 174205, 28515, 76166, 198627, 217765, 66320, 64728, 106516, 52250, 187980, 4704,
       15680, 52682, 162798, 54618, 219673, 123123, 9537, 28882, 164513, 12945, 224684, 240291, 54515, 3094, 129441,
       40026, 252078, 227678, 121312, 247956, 160677, 49244, 134040, 53693, 99333, 256842, 120892, 69500, 158276, 58532,
       92285, 240323, 54785, 34093, 241729, 195100, 123457, 96626, 63736, 69479, 199089, 227012, 108963, 80916, 100076,
       47847, 70552, 53578, 13134, 236438, 230778, 88304, 192175, 42611, 1017, 19038, 183918, 62297, 157554, 246106,
       25270, 244052, 123769, 82231, 94926, 233588, 128374, 136737, 114387, 60870, 57078, 135321, 107151, 34466, 135805,
       66556, 75747, 12614, 64990, 195181, 30212, 121952, 122709, 16630, 116649, 158950, 153565, 102996, 114969, 81656,
       38830, 218653, 256757, 71435, 89932, 165878, 29346, 172533, 184128, 58185, 12962, 17187, 63466, 203149, 229005,
       109004, 189620, 149742, 117444, 60266, 228979, 54345, 21186, 17515, 2320, 146020, 174865, 112954, 110291, 143910,
       22843, 14404, 112077, 81511, 81991, 13617, 3272, 258437, 191398, 52364, 29550, 72051, 129231, 206757, 240558,
       13198, 29277, 67746, 55534, 80955, 5496, 40258, 198776, 71038, 118631, 186255, 158561, 113946, 38436, 132543,
       31155, 170894, 136306, 10641, 116817, 191290, 82200, 74340, 122600, 44088, 136263, 132498, 88091, 116718, 115617,
       4210, 174, 244865, 17484, 237123, 49765, 89964, 47525, 33560, 27835, 221913, 61482, 112405, 191846, 214259,
       7679, 163796, 122977, 28243, 171559, 138995, 130883, 75730, 165682, 56764, 39562, 82660, 92139, 30265, 21356,
       23942, 2920, 59819, 79936, 187388, 242799, 95172, 45768, 154754, 41219, 21395, 58224, 108645, 53021, 126343,
       79091, 39018, 251596, 51003, 34371, 89440, 73091, 79634, 46209, 75597, 51850, 210848, 21697, 10979, 165554,
       52786, 245676, 249971, 45014, 35135, 240695, 52547, 31890, 219587, 99760, 75249, 122677, 63247, 71865, 17367,
       123249, 31152, 132466, 38492, 197879, 222426, 54487, 26060, 134104, 103148, 802, 255754, 71568, 140376, 260723,
       71700, 19191, 19928, 6991, 105341, 95572, 52245, 66844, 151830, 35485, 160373, 105604, 130984, 223666, 112792,
       40416, 187647, 97607, 115932, 191314, 241109, 88635, 80771, 158922, 44684, 156129, 51972, 71242, 36186, 248619,
       110170, 188443, 254530, 115784, 222706, 243160, 21023, 38269, 10707, 44508, 139136, 186811, 43938, 97695, 7140,
       5510, 234752, 237338, 78412, 57582, 96883, 112042, 255324, 139323, 50013, 188261, 161102, 96997, 259884, 149937,
       82273, 248672, 211501, 49237, 8141, 212217, 18488, 259532, 209156, 92972, 130031, 147846, 112009, 148327, 59439,
       89896, 83893, 113431, 2343, 96641, 223560, 28342, 20429, 217536, 9106, 230838, 107676, 74761, 169566, 48011,
       99153, 11094, 49414, 14493, 218944, 163910, 109882, 161171, 154151, 72811, 176374, 194974, 90435, 162099, 56907,
       127323, 152856, 100828, 10968, 61470, 148521, 118125, 61640, 124062, 16528, 139609, 164319, 51505, 235065, 114794,
       111599, 202586, 86007, 118784, 145573, 53657, 66371, 38795, 256246, 77870, 126654, 94080, 92818, 75350, 210496,
       109151, 90227, 188564, 15926, 186650, 27237, 106177, 106002, 184290, 63081, 216950, 88432, 59064, 29773, 54717,
       55561, 101788, 229886, 66743, 99851, 2242, 123869, 174623, 45139, 71854, 43229, 128148, 124934, 232336, 255793,
       23630, 258998, 74962, 94913, 249303, 142832, 106461, 225654, 194403, 89014, 202946, 217961, 79550, 135558, 77046,
       74031, 36921, 6208, 112843, 230742, 115337, 107694, 226173, 138861, 16028, 164433, 32165, 111226, 21333, 234642,
       54272, 210262, 97665, 33252, 144415, 117187, 114002, 80149, 175245, 56626, 92939, 236712, 105953, 256028, 106116,
       34524, 219735, 259264, 515, 6296, 8174, 64940, 216880, 43414, 13137, 30947, 86576, 98877, 148174, 247962,
       36185, 188805, 66831, 58149, 136889, 104259, 11407, 173917, 204499, 37573, 265, 108819, 102431, 128231, 133486,
       19868, 244000, 187467, 84824, 130546, 176150, 120248, 220562, 105366, 89107, 147790, 58757, 106302, 61566, 223950,
       14283, 33920, 109374, 32863, 241669, 252049, 117248, 261210, 261546, 93730, 84669, 106337, 83827, 157058, 151443,
       87001, 61246, 137077, 54290, 24917, 206602, 5840, 33244, 246919, 102818, 84358, 141745, 88960, 78983, 67670,
       61971, 111862, 35564, 117933, 76626, 38178, 44061, 31354, 199892, 38577, 89039, 209369, 114399, 41922, 73802,
       104462, 200772, 11705, 67499, 113702, 178076, 17135, 174003, 99712, 28189, 222273, 251653, 86013, 30188, 53742,
       50468, 32801, 22913, 109638, 56145, 128107, 124512, 131854, 6693, 105596, 116148, 12100, 49485, 166116, 42791,
       103374, 185506, 205489, 46064, 42736, 16979, 21902, 37408, 235148, 4376, 239638, 120556, 50556, 173270, 166109,
       118431, 85211, 2847, 31324, 117972, 195590, 27068, 24524, 140250, 127116, 91740, 191486, 3277, 88887, 175713,
       102994, 9965, 202854, 42122, 158030, 155201, 4913, 162917, 260142, 120298, 56243, 22831, 18303, 52299, 25993,
       72322, 213457, 182802, 35920, 218385, 243496, 8544, 249290, 142282, 6543, 115354, 19382, 15146, 64914, 179928,
       9354, 56949, 90314, 99687, 228934, 242135, 63644, 34934, 210237, 44943, 144755, 54342, 54836, 117909, 115624,
       121758, 237640, 21762, 119374, 16147, 226615, 93805, 38693, 37459, 115957, 23218, 259371, 41896, 237573, 198714,
       49952, 199643, 65383, 80440, 126641, 200727, 81739, 235972, 165191, 63137, 94678, 3150, 52515, 6687, 108494,
       129260, 164050, 143518, 107626, 82817, 49404, 57013, 189922, 181954, 95327, 178146, 253275, 35331, 259590, 49697,
       13129, 103266, 3537, 46193, 220038, 198729, 52818, 118189, 173063, 2167, 145225, 69121, 106796, 109376, 143764,
       47080, 51809, 158341, 76076, 149376, 62994, 9694, 131827, 129351, 22937, 48323, 26153, 116613, 245357, 237559,
       79781, 233741, 240580, 124555, 165419, 37033, 130908, 43124, 187866, 48740, 117712, 88979, 39164, 187489, 120076,
       112506, 116617, 224170, 130889, 261348, 79180, 82528, 88041, 244276, 104220, 179511, 62494, 102464, 260363, 42021,
       46575, 22606, 48521, 75270, 201138, 32870, 109190, 115187, 127067, 90192, 121107, 188794, 2773, 257799, 76508,
       44132, 179682, 89571, 18936, 188351, 137675, 30536, 35070, 4098, 118684, 83045, 151775, 4835, 177514, 133439,
       28809, 188460, 29315, 40575, 229149, 172194, 80856, 60052, 39796, 70005, 203613, 67360, 28609, 4628, 147065,
       21527, 106211, 18006, 31037, 155186, 204277, 65867, 147647, 167141, 35543, 213576, 65672, 124204, 40656, 27167,
       60799, 194590, 81157, 7706, 134081, 145314, 95586, 106521, 31046, 43102, 107378, 107594, 85654, 26555, 237270,
       36646, 260396, 90152, 74808, 137289, 34140, 101207, 150237, 99706, 121635, 252130, 154808, 34226, 119819, 131983,
       43890, 97067, 8176, 60852, 86046, 19088, 121526, 173102, 375, 118146, 151544, 96484, 11780, 137869, 58653,
       17292, 80247, 219354, 64947, 99324, 6199, 13974, 210062, 152245, 45295, 255913, 64537, 19449, 44117, 49613,
       83367, 21345, 215326, 124452, 69528, 44250, 130643, 232977, 226796, 49183, 158785, 132649, 78513, 205618, 100612,
       112232, 187140, 18011, 15395, 259209, 117106, 90382, 153743, 165026, 53587, 250722, 75613, 27019, 259396, 208203,
       52789, 189350, 243093, 9956, 69922, 123927, 91148, 106372, 200657, 33127, 127684, 164348, 40816, 146986, 15803,
       15870, 96448, 218743, 113332, 157122, 200119, 64676, 190991, 89449, 74992, 114180, 212018, 74636, 178425, 85842,
       53804, 40241, 132634, 25235, 73682, 122588, 97666, 10383, 218567, 16653, 136003, 184778, 13614, 247841, 71416,
       93080, 34175, 39159, 27372, 179816, 74142, 40209, 83378, 239819, 62289, 3815, 122460, 58897, 98510, 37620,
       92874, 231494, 68085, 81714, 118497, 1809, 84462, 77013, 91272, 93592, 138733, 225149, 38353, 87925, 109358,
       42248, 228548, 197982, 57409, 63127, 121756, 40299, 178767, 128110, 129097, 203518, 150558, 106699, 108553, 211474,
       21581, 162345, 142024, 733, 62180, 128672, 5607, 180495, 132143, 31989, 231907, 6839, 14980, 101559, 25348,
       69905, 181769, 102525, 112459, 39277, 237484, 96567, 85185, 37931, 28260, 81557, 71741, 52336, 249583, 152843,
       66570, 186078, 30637, 106195, 78933, 41364, 109985, 90901, 174210, 119238, 156913, 191313, 66747, 208004, 111519,
       90999, 256787, 12004, 14653, 235473, 11365, 74093, 145374, 88514, 32596, 139683, 181589, 56585, 260978, 147402,
       83106, 70313, 135342, 33683, 173236, 238820, 6839, 262116, 161394, 1341, 97524, 183655, 2904, 129667, 174629,
       1094, 109260, 108685, 14464, 120054, 239716, 31390, 69414, 188296, 28995, 248068, 177367, 129341, 105694, 119203,
       40108, 218161, 259515, 16701, 77834, 229261, 71507, 255272, 258109, 112454, 52322, 87403, 88874, 191288, 34608,
       38808, 18766, 37992, 73612, 40185, 177019, 93697, 157876, 85935, 95434, 29366, 84169, 87364, 138520, 62771,
       114138, 226491, 109361, 114046, 121277, 71342, 75882, 97704, 234546, 56342, 35130, 125748, 84091, 236396, 77925,
       107244, 179160, 169547, 740, 218283, 149845, 130023, 8379, 154356, 23972, 66198, 96428, 61636, 124531, 24685,
       114298, 178626, 83182, 29496, 129809, 101976, 62494, 132012, 86284, 17377, 212735, 74541, 51783, 116423, 191138,
       23217, 130634, 100731, 47661, 109127, 31926, 48950, 183978, 211802, 130176, 231141, 88785, 130392, 34963, 250382,
       15045, 70023, 3928, 95154, 47145, 15293, 6782, 100535, 41151, 3957, 85939, 206686, 13806, 84983, 141441,
       126548, 35660, 222612, 123320, 227265, 170404, 25418, 132975, 31642, 21190, 187790, 254026, 31527, 108753, 3194,
       67573, 203320, 217771, 74672, 85335, 203003, 29044, 181957, 253498, 99172, 16274, 9758, 40573, 197399, 173084,
       120865, 156526, 33444, 86077, 251286, 46695, 57193, 111080, 219265, 103535, 90672, 66306, 107205, 185038, 84924,
       38074, 1313, 115308, 44527, 16958, 3231, 122677, 134718, 77603, 21592, 245728, 166376, 5524, 193842, 248651,
       59513, 246217, 121096, 105016, 48246, 58319, 101144, 21503, 201126, 120524, 188374, 211661, 69887, 177597, 95421,
       13115, 177374, 237485, 77160, 168098, 81731, 102025, 228055, 255584, 12232, 184386, 222422, 22630, 144409, 3151,
       1610, 252061, 177889, 77811, 60527, 73594, 116226, 13165, 44261, 87905, 47750, 222153, 128717, 251228, 134728,
       8261, 248224, 71103, 118358, 41479, 216400, 106701, 146424, 76594, 41188, 69356, 190185, 127602, 18927, 112502,
       37740, 151133, 115577, 116562, 248712, 43013, 115441, 125172, 67484, 99307, 183271, 154, 73855, 52938, 79321,
       15729, 104, 72584, 69726, 157072, 123428, 46765, 261834, 258367, 103837, 123461, 233588, 99369, 134048, 97265,
       119355, 210387, 249348, 1943, 214709, 28423, 106050, 203642, 195832, 123006, 25749, 172946, 103455, 49405, 26460,
       17064, 222362, 28541, 10653, 108745, 30971, 2732, 59578, 2836, 82410, 234419, 152462, 82532, 118967, 102361,
       129356, 197748, 86218, 52172, 82553, 100926, 43503, 162679, 202600, 81844, 163592, 134526, 108214, 47165, 186836,
       122784, 218919, 148998, 105267, 23778, 243773, 55925, 3142, 102801, 83219, 125475, 115687, 112236, 226846, 173102,
       64305, 50611, 51746, 28401, 144641, 146100, 22245, 259704, 171423, 20, 177182, 112984, 94140, 233433, 134696,
       14561, 192245, 95234, 31960, 125429, 115653, 39043, 64625, 37437, 73450, 28580, 261041, 52161, 14745, 137431,
       88430, 227929, 159897, 7292, 175729, 178391, 16244, 251152, 122386, 65432, 170443, 183226, 44166, 170045, 169266,
       38772, 222581, 234618, 8785, 132219, 10199, 117403, 184463, 142135, 90678, 11985, 98676, 15940, 192689, 31863,
       8525, 184489, 195071, 127778, 129158, 221995, 89282, 170008, 148025, 54716, 210278, 239643, 91977, 76277, 19166,
       99133, 241150, 225524, 102231, 53947, 1972, 62636, 87610, 63918, 56345, 155418, 22021, 1445, 124010, 47100,
       121445, 181979, 74031, 79076, 201912, 208993, 26627, 207842, 72459, 120534, 67997, 167440, 119921, 250145, 95436,
       129654, 90909, 101650, 114564, 89612, 75651, 130781, 156049, 45212, 32071, 133182, 46891, 110395, 88508, 579,
       107875, 253359, 178253, 30269, 213585, 114386, 12902, 106541, 68478, 128374, 158746, 56227, 38800, 138940, 197318,
       114149, 138611, 82023, 540, 250194, 215917, 2755, 200155, 79474, 61062, 179351, 252964, 31288, 212612, 159540,
       90418, 229822, 79971, 74129, 169680, 206906, 10156, 57263, 166390, 21316, 4208, 168196, 50862, 103265, 26343,
       24327, 129989, 143189, 103838, 43908, 153153, 54535, 41396, 84629, 12246, 79075, 246963, 63483, 207850, 122684,
       11906, 89671, 24957, 16900, 18480, 26169, 31406, 36674, 233193, 112660, 4032, 92057, 121190, 213342, 192638,
       108299, 66348, 101621, 43788, 44313, 48938, 35710, 26195, 207664, 71978, 245026, 223065, 94614, 193320, 8295,
       130203, 93871, 19476, 17245, 61957, 13478, 6460, 209950, 24545, 91010, 161240, 41304, 109081, 130520, 78120,
       110932, 164436, 75059, 88927, 150550, 135258, 125044, 199092, 123838, 66978, 109148, 50780, 119775, 139787, 167495,
       126853, 18984, 105829, 111038, 163107, 33290, 40600, 176790, 213328, 25718, 99045, 240674, 71843, 50635, 6931,
       59377, 144011, 238054, 115049, 141932, 18801, 13111, 92062, 99939, 33782, 132465, 161496, 98539, 207423, 360,
       12450, 23469, 229257, 42043, 61151, 144297, 50745, 60767, 119224, 81604, 160983, 113730, 20726, 199790, 93586,
       112801, 39782, 194511, 58660, 67079, 65807, 120195, 228017, 259889, 61324, 169166, 188913, 36050, 20137, 228215,
       18589, 206630, 196189, 490, 229914, 116163, 69750, 247954, 170876, 14045, 63590, 206611, 51344, 141933, 222568,
       77237, 7415, 198407, 36134, 183993, 84988, 22966, 261737, 109487, 101544, 81924, 233154, 124097, 213000, 190971,
       13164, 242863, 81198, 20393, 140246, 120880, 125830, 204213, 45055, 4952, 118887, 237833, 128140, 59143, 254476,
       608, 199671, 171656, 114513, 130556, 131604, 40281, 190348, 167070, 123022, 188434, 24056, 41542, 171146, 128178,
       85761, 62436, 114989, 10490, 7598, 19999, 31762, 171192, 83163, 101407, 183317, 197205, 69295, 239131, 69986,
       121630, 199456, 157623, 56197, 79847, 136437, 114008, 12166, 161875, 58845, 127690, 168617, 128352, 7965, 134889,
       125807, 108013, 124920, 43140, 158930, 55672, 116119, 206393, 141458, 111098, 30943, 207264, 27614, 78915, 115696,
       81826, 259892, 148638, 9526, 161603, 169462, 109669, 91112, 248642, 22878, 20458, 102642, 9281, 216148, 58436,
       52457, 135604, 154966, 75618, 88748, 259728, 112055, 177102, 125837, 127695, 240203, 237615, 57605, 42626, 156098,
       7922, 235690, 242360, 98188, 20230, 189201, 74078, 101984, 116685, 58706, 3762, 38645, 40536, 128576, 174153,
       65850, 99573, 45154, 44391, 108295, 189087, 99223, 15605, 70862, 71289, 61495, 128856, 114930, 50188, 130663,
       71243, 101706, 228944, 31229, 139209, 75568, 111554, 82624, 163880, 73035, 213557, 121411, 27111, 17970, 99162,
       81724, 108964, 131192, 46886, 170869, 70560, 110677, 244426, 216590, 59414, 236806, 46659, 95216, 31900, 69582,
       12522, 31931, 13640, 51907, 184318, 80437, 128875, 110509, 201356, 105966, 132923, 92369, 20963, 199451, 182364,
       36407, 23460, 19580, 43229, 161925, 245069, 85244, 187366, 47498, 99220, 214202, 3054, 98241, 249474, 129516,
       66830, 55655, 83598, 106275, 227943, 136294, 57288, 183097, 244815, 16237, 71684, 114150, 73982, 136595, 46428,
       124820, 12342, 99135, 103939, 69173, 86950, 75851, 118304, 25583, 84778, 29232, 140625, 121970, 164104, 36181,
       56143, 195756, 158138, 43436, 129126, 198616, 128089, 1679, 196685, 113173, 57251, 16030, 42341, 253944, 250622,
       60788, 170513, 124796, 54405, 31594, 258717, 19542, 70462, 249002, 125543, 77178, 10028, 52994, 10219, 168010,
       114731, 35001, 89121, 24819, 78505, 120348, 71810, 137072, 251381, 3140, 174763, 210973, 100167, 237832, 75522,
       76141, 143254, 20211, 81997, 72845, 201012, 6779, 41816, 193973, 27661, 56627, 154040, 9742, 182478, 192471,
       37868, 151309, 206753, 82239, 179729, 219218, 74211, 33904, 202785, 80235, 183872, 171432, 71991, 121278, 219104,
       35786, 112802, 92447, 32048, 22725, 201564, 17964, 180051, 30883, 111289, 109501, 150168, 80803, 47836, 196510,
       24446, 97368, 102307, 23227, 49239, 3494, 114430, 136934, 101596, 97351, 57612, 195639, 86428, 198233, 169997,
       53328, 129054, 99656, 34337, 173319, 109846, 128378, 149532, 234506, 104495, 205934, 104575, 39554, 211375, 225641,
       111092, 3402, 14758, 99474, 190937, 135496, 38938, 246896, 7759, 55909, 35575, 227116, 24373, 76020, 69167,
       14555, 227013, 251320, 94733, 226798, 182401, 35063, 82357, 4350, 107486, 215269, 70594, 130496, 111420, 140842,
       10042, 186712, 112085, 62001, 172992, 196633, 105127, 247404, 180270, 103409, 97494, 93276, 99614, 91104, 177091,
       45743, 121676, 191561, 59487, 118994, 210608, 77983, 181543, 128883, 127656, 89173, 145321, 42932, 72324, 157031,
       120998, 82745, 254175, 35305, 39316, 76693, 129639, 253844, 38257, 87852, 210228, 253530, 60753, 98763, 179354,
       80398, 81313, 183760, 35721, 53841, 90882, 35936, 135227, 115161, 14883, 215264, 251667, 14948, 209877, 249040,
       45570, 7994, 214625, 99988, 260361, 30130, 79687, 261325, 251748, 13445, 252573, 149471, 111704, 90649, 216478,
       78822, 119958, 95341, 125941, 68723, 198906, 87842, 144070, 74680, 22960, 136245, 137814, 62099, 192116, 2130,
       84999, 229927, 261749, 3704, 186357, 33284, 1954, 83399, 93577, 16961, 28860, 157533, 32986, 42160, 181641,
       56301, 226156, 98075, 63889, 209132, 94450, 18091, 145426, 174785, 88262, 204749, 166283, 78137, 2103, 26104,
       38595, 261714, 249340, 1790, 112260, 255331, 10177, 122568, 94288, 51340, 57046, 174309, 20181, 190357, 114152,
       49390, 130919, 46421, 82337, 39410, 79854, 71727, 132159, 28692, 30300, 179661, 155244, 45065, 131484, 179490,
       80482, 77920, 127172, 112833, 259584, 91803, 98725, 50290, 86355, 72535, 65094, 220284, 47486, 122650, 186838,
       47848, 275, 63069, 115266, 258392, 255572, 5143, 192413, 99061, 129496, 225750, 106153, 87081, 3630, 260096,
       89278, 21100, 185822, 4980, 118628, 89331, 79367, 244611, 112424, 63540, 217551, 66674, 13864, 171149, 192197,
       36427, 208088, 194945, 116695, 77700, 196411, 72088, 21402, 153334, 54187, 88431, 254308, 9526, 156114, 186769,
       93601, 88300, 131010, 92124, 16547, 162805, 80483, 242130, 31537, 66881, 38159, 27486, 56856, 259303, 252866,
       77761, 59952, 95634, 30591, 159553, 175434, 123372, 185613, 171048, 77174, 124919, 37337, 40788, 161498, 30088,
       58940, 114665, 203229, 105602, 187864, 232610, 21183, 89210, 199182, 38382, 144364, 148104, 89064, 124664, 48507,
       41351, 210048, 172266, 103874, 204588, 251643, 17098, 209576, 159216, 99966, 210169, 186699, 8958, 261087, 70673,
       1650, 141276, 163757, 117731, 249839, 15050, 76197, 77028, 223288, 46114, 171718, 190868, 30486, 168887, 230121,
       80856, 118851, 204576, 66715, 244895, 16526, 129970, 184453, 131356, 128872, 22492, 172408, 83233, 246397, 230272,
       58047, 241952, 184063, 64374, 217345, 71553, 89453, 234925, 140383, 13313, 151692, 203567, 43037, 200020, 190448,
       9866, 21803, 67337, 9615, 141943, 125599, 25669, 10777, 176511, 63603, 30038, 11474, 102861, 246369, 20512,
       63634, 240503, 52005, 43971, 154743, 119252, 10794, 44865, 207996, 72128, 87769, 171445, 35555, 187739, 5016,
       80600, 171066, 202991, 128081, 249389, 1921, 14590, 50002, 152061, 27803, 183569, 76949, 62009, 117256, 111234,
       126958, 39322, 240229, 101162, 170654, 131508, 117732, 182663, 150622, 43740, 176323, 38013, 130028, 122378, 5908,
       13478, 131823, 159676, 6943, 69400, 88256, 112145, 143532, 144149, 121538, 120866, 39197, 11873, 53473, 67054,
       14867, 41858, 194668, 4348, 53269, 17602, 13698, 3997, 231046, 27449, 19458, 87069, 127149, 231366, 173454,
       87537, 203174, 144115, 102046, 131638, 113229, 101730, 37727, 245428, 70133, 48897, 261754, 104528, 124593, 152844,
       78093, 179538, 158084, 41228, 48786, 85658, 73545, 216052, 241768, 69928, 9804, 173926, 107931, 167421, 131307,
       128676, 248993, 256499, 53876, 44861, 255511, 100059, 37487, 213683, 13076, 35773, 145751, 101820, 220530, 78209,
       48682, 93713, 141017, 5162, 248363, 42608, 47611, 105674, 150004, 80038, 43685, 257820, 15630, 93841, 229460,
       121115, 12842, 238872, 10180, 177878, 122134, 121897, 220405, 248897, 92685, 243466, 122446, 43216, 8979, 255894,
       51216, 112610, 128312, 97099, 95696, 204833, 78836, 5278, 50127, 88033, 152305, 238837, 51008, 153253, 127461,
       63938, 180535, 76606, 129743, 238778, 139574, 28039, 78245, 79127, 54769, 64508, 91919, 38249, 222518, 198523,
       100284, 182425, 15346, 100140, 173767, 189500, 38331, 107862, 204386, 10667, 259937, 51897, 1498, 132067, 79395,
       56026, 208743, 124227, 53783, 201631, 244215, 129550, 62435, 169073, 61577, 235317, 187591, 33609, 70395, 94525,
       116815, 59059, 183528, 64365, 67711, 1875, 78535, 39022, 82749, 12539, 128244, 83189, 50189, 162356, 174471,
       123761, 74831, 207333, 77267, 170318, 208390, 45154, 143433, 258374, 82007, 117623, 247919, 119329, 105469, 60262,
       35912, 130019, 138782, 66206, 172627, 250370, 125657, 131436, 66781, 22596, 80555, 101468, 94327, 207108, 102453,
       80541, 66769, 251484, 89086, 99297, 59848, 46035, 15579, 116204, 41140, 208992, 3649, 89680, 191350, 71270,
       28251, 180739, 44934, 55004, 258662, 64280, 24664, 111989, 227873, 1088, 139496, 48606, 127147, 93924, 225665,
       56584, 45303, 84108, 127054, 155362, 153846, 18392, 126978, 26052, 76987, 88740, 56093, 26342, 17937, 122905,
       103556, 156229, 205556, 102721, 135828, 12256, 14759, 168883, 93621, 119546, 29351, 153563, 25510, 130316, 146523,
       80344, 43546, 136993, 129188, 254240, 240706, 115657, 125463, 105402, 125378, 195885, 164629, 44905, 27824, 66289,
       13838, 2772, 182016, 24687, 360, 172059, 65600, 227249, 92291, 103970, 52531, 53520, 19680, 246009, 41869,
       86472, 86873, 157120, 42411, 252632, 142063, 44722, 9970, 3615, 86758, 230877, 96147, 61210, 143633, 44385,
       106434, 216998, 125470, 20436, 144414, 194830, 103540, 26113, 117893, 8419, 115981, 67256, 25435, 7914, 140035,
       86002, 224232, 148546, 112056, 213817, 212610, 33119, 58764, 12496, 42885, 172532, 127725, 70401, 128639, 41096,
       27731, 71012, 198160, 106319, 228987, 186558, 101402, 26826, 77394, 19043, 177018, 47991, 60795, 23752, 136075,
       101558, 58990, 134885, 44214, 119616, 134598, 82982, 151379, 151262, 6581, 140051, 241908, 79782, 13951, 86395,
       20008, 139301, 240227, 108866, 57039, 198189, 46589, 123755, 175947, 36903, 217027, 220356, 110216, 262132, 89619,
       6572, 125145, 122252, 51984, 80883, 150654, 48497, 27281, 102695, 37329, 92970, 84686, 119505, 121583, 120943,
       98425, 179934, 88375, 8378, 140765, 75949, 93675, 134577, 125371, 69114, 39839, 256524, 118078, 145923, 201671,
       41018, 106943, 131554, 75256, 147223, 113505, 65634, 260930, 130086, 64167, 190605, 47583, 59782, 169587, 168700,
       26952, 69892, 10025, 99052, 107730, 246461, 59157, 135392, 255077, 125634, 169134, 146662, 34184, 178826, 134577,
       89488, 157429, 248744, 123301, 175390, 185804, 86960, 212156, 237233, 114199, 126496, 225526, 108459, 153185, 197202,
       47201, 91541, 231744, 78659, 116668, 182045, 20481, 127488, 249383, 70192, 117570, 186924, 30201, 227721, 204288,
       97483, 18824, 108963, 69213, 176547, 60913, 53900, 102989, 206180, 35231, 202634, 98431, 130901, 106800, 153463,
       9399, 63279, 220014, 5709, 153491, 157384, 28476, 94895, 126086, 127280, 107294, 215584, 128350, 184863, 113826,
       85842, 180368, 188085, 115357, 89413, 37883, 28044, 102756, 119057, 127407, 131430, 155085, 18715, 25133, 185999,
       13254, 178432, 88223, 14707, 207322, 106656, 75121, 6071, 10617, 102363, 229808, 203914, 48059, 209803, 237322,
       128174, 205235, 117501, 56940, 82927, 140568, 19719, 155306, 108128, 61075, 50755, 226334, 89002, 199058, 16612,
       109081, 130417, 61616, 60131, 177550, 116207, 77805, 61316, 133243, 35041, 106459, 221897, 84661, 149670, 225660,
       129233, 82480, 84455, 6429, 144144, 34680, 116199, 91244, 167019, 73699, 129027, 261179, 33043, 19793, 126911,
       125159, 79710, 55966, 63354, 56416, 39518, 43475, 79866, 187067, 23789, 67405, 209354, 32040, 220227, 235467,
       109163, 49697, 31855, 80531, 248706, 214502, 119700, 243751, 89292, 30404, 149149, 202230, 15877, 229415, 188980,
       797, 237203, 164723, 66566, 129235, 137605, 130850, 22538, 232339, 91090, 127851, 119334, 40421, 234870, 7480,
       114931, 159434, 134864, 102461, 236151, 206150, 2020, 130193, 75801, 107067, 140746, 143730, 39390, 168591, 78164,
       19618, 91, 189962, 29665, 166677, 255753, 61417, 181434, 225024, 55688, 75743, 2979, 37865, 9464, 88217,
       22572, 262125, 54937, 99907, 29900, 36433, 129775, 175524, 191054, 101946, 182984, 14102, 38789, 13166, 160807,
       32087, 157336, 68868, 28529, 236377, 70032, 17916, 235091, 167132, 72263, 261569, 186933, 79351, 9844, 54209,
       92471, 169014, 82125, 89156, 242995, 182496, 38316, 186587, 248545, 43294, 137389, 132824, 89327, 124043, 206515,
       45802, 210022, 167855, 27868, 248174, 75825, 49064, 259086, 184394, 35662, 161140, 119799, 11575, 85195, 166843,
       108807, 253283, 85075, 111819, 4194, 51590, 28803, 29188, 6146, 8489, 215413, 53956, 96839, 154630, 127517,
       27725, 125842, 2478, 51568, 98689, 193081, 8406, 88023, 11056, 29657, 159124, 245323, 103927, 75346, 209034,
       105433, 223108, 40668, 27143, 5811, 32722, 44028, 235800, 14347, 17594, 235422, 260824, 9721, 250346, 172052,
       130045, 244044, 151350, 85930, 2720, 109058, 71053, 176594, 68246, 100335, 109955, 5881, 110110, 155575, 210438,
       105737, 188239, 162174, 2167, 225102, 92003, 24485, 74666, 236325, 85839, 196020, 153268, 49251, 138735, 229240,
       128775, 253241, 146453, 87215, 245623, 226414, 125376, 204096, 34458, 26403, 260372, 132013, 113240, 150887, 59510,
       42120, 75871, 200453, 129704, 62533, 60590, 20668, 149324, 8045, 67677, 181596, 69578, 103919, 188413, 37338,
       56707, 82632, 114606, 61352, 187154, 73061, 129283, 164319, 88545, 55745, 259490, 32938, 79176, 245987, 260047,
       7148, 163159, 125220, 110390, 41846, 240341, 84956, 178917, 113803, 52955, 189509, 204137, 2119, 98026, 96527,
       77551, 56532, 25146, 1659, 22779, 5985, 157, 199251, 2606, 80753, 70972, 92488, 24774, 221524, 184005,
       25151, 22260, 102327, 85625, 160085, 69930, 7038, 51856, 181987, 41078, 181863, 89626, 19586, 88677, 113339,
       76044, 229937, 132362, 86738, 231305, 129069, 94520, 188377, 117306, 33453, 174604, 175155, 11698, 37603, 168298,
       10313, 58794, 94654, 55856, 140445, 231983, 123973, 188320, 60413, 28538, 47179, 221532, 33651, 166506, 72612,
       13223, 182732, 162068, 79373, 80462, 113651, 89112, 77944, 85242, 84270, 73221, 6779, 112870, 16571, 207339,
       63756, 211562, 244254, 17623, 145030, 128934, 37932, 238365, 94493, 86826, 5629, 230383, 80363, 32333, 113184,
       69599, 168354, 146106, 89517, 134292, 208798, 83544, 24520, 257845, 115517, 4171, 58264, 76810, 88769, 135633,
       102052, 219489, 241288, 32598, 142697, 67425, 88890, 196012, 56205, 118252, 101576, 203727, 50558, 185514, 188182,
       102118, 195046, 96772, 94999, 152905, 186, 7802, 57062, 146245, 76219, 119841, 131350, 17064, 46760, 220138,
       126788, 120204, 50710, 106352, 210814, 164312, 14381, 188239, 155577, 15958, 72832, 250500, 77918, 229929, 108522,
       45205, 82270, 143173, 4575, 47385, 68764, 70994, 9362, 102951, 50835, 165912, 135418, 13248, 78121, 12642,
       105109, 81173, 230555, 119940, 246881, 161355, 99168, 73431, 141915, 107796, 140776, 43378, 28375, 223250, 105827,
       34547, 8866, 116611, 27332, 31919, 53128, 100278, 103304, 169110, 124245, 101546, 196116, 93957, 75067, 216222,
       115535, 160381, 91466, 83715, 148836, 16834, 50811, 93974, 253030, 55805, 111776, 37342, 9872, 139134, 203185,
       4123, 41286, 116536, 91157, 99193, 69055, 57465, 197062, 124857, 72379, 244685, 58821, 73093, 203174, 73056,
       36356, 53111, 194889, 62376, 48019, 102736, 61703, 126818, 147832, 50911, 244512, 104444, 107567, 147810, 188448,
       59134, 253831, 200588, 79120, 234649, 79038, 117377, 160751, 148124, 113538, 255174, 261452, 116709, 109862, 238576,
       35390, 24876, 154834, 4585, 58905, 190489, 34218, 143548, 255465, 36530, 191156, 201143, 119191, 177404, 133405,
       85097, 142469, 167246, 10709, 26579, 147383, 17744, 90003, 149056, 20404, 204767, 200854, 82630, 167608, 152406,
       96392, 49060, 151599, 112675, 64656, 176004, 123291, 29881, 21090, 26437, 214891, 113084, 40602, 130840, 189688,
       31499, 157450, 61983, 47023, 156282, 165170, 119886, 258201, 109745, 75381, 40468, 48588, 96756, 75593, 117259,
       64240, 238162, 115407, 3782, 121744, 19833, 8414, 60487, 76417, 70506, 169752, 127412, 94213, 30506, 53300,
       28223, 210476, 139103, 94622, 34519, 191340, 106255, 153160, 206003, 53988, 59318, 251942, 97834, 173457, 96133,
       52957, 3578, 31960, 88912, 202821, 220883, 100138, 162856, 142473, 130013, 211213, 84328, 45271, 217917, 179745,
       53875, 245679, 32020, 21708, 39957, 216558, 26748, 69182, 168734, 90884, 175578, 251380, 120198, 262037, 61854,
       51721, 173073, 209063, 23572, 149772, 54233, 37368, 147215, 169726, 59644, 140785, 31460, 38096, 31449, 148658,
       30615, 177624, 79862, 96466, 251372, 157153, 1028, 65409, 90539, 70678, 6207, 83947, 104040, 158054, 195320,
       34895, 19384, 7655, 79074, 163808, 69314, 87674, 19567, 100473, 85855, 104073, 15079, 58438, 105710, 140626,
       45426, 175643, 136223, 109566, 62940, 196240, 99411, 7464, 205184, 42107, 146299, 227673, 13502, 244279, 240208,
       9411, 251290, 92954, 12356, 246670, 260779, 76397, 223585, 73894, 6771, 121821, 1494, 44161, 178088, 239130,
       98723, 102584, 164760, 38580, 210470, 149131, 100048, 82914, 23701, 97709, 224298, 199827, 32221, 14137, 8637,
       95528, 47392, 205026, 98012, 151920, 191878, 52095, 21219, 66470, 27580, 61248, 164250, 68324, 1887, 178487,
       120769, 111320, 155452, 83835, 221342, 42129, 22665, 78016, 108474, 89490, 82742, 205524, 55994, 93111, 110468,
       77532, 226106, 70335, 96215, 63228, 197231, 67495, 46991, 86731, 106690, 133042, 21928, 94654, 98590, 81475,
       80618, 234048, 44022, 19764, 187683, 202796, 109569, 136803, 231657, 122671, 4424, 193667, 17952, 76731, 164652,
       63994, 194331, 217448, 33933, 17088, 138201, 98896, 230411, 183614, 94585, 115251, 187843, 18466, 24778, 194782,
       114953, 188350, 39536, 23720, 131449, 246280, 104498, 87820, 208555, 59897, 86428, 34812, 43027, 80232, 31816,
       20740, 193105, 8180, 21969, 140451, 247758, 86755, 83567, 202723, 72146, 3095, 172963, 16001, 257002, 126699,
       14771, 139975, 77131, 9477, 233742, 113460, 97487, 19334, 109143, 93307, 211989, 90349, 7658, 174806, 90755,
       73435, 188572, 244206, 11098, 176428, 38529, 118455, 200709, 81207, 118897, 182024, 22213, 91518, 208257, 232144,
       121397, 113851, 262041, 106358, 202270, 245145, 108598, 54584, 170058, 74672, 195923, 204091, 40115, 207415, 216965,
       28547, 95844, 47752, 42886, 199567, 68535, 82378, 40111, 90127, 22630, 114678, 190433, 33900, 129262, 77589,
       61349, 176529, 249693, 30546, 89787, 247048, 77154, 184307, 110961, 121002, 138517, 96683, 98053, 149249, 115998,
       87349, 227847, 164820, 76378, 123024, 56999, 63956, 80835, 74804, 24453, 78173, 254590, 117271, 128139, 152365,
       32576, 29060, 49749, 11968, 9752, 68510, 98305, 259410, 85615, 23018, 73220, 255695, 48745, 39964, 89301,
       3707, 94927, 219075, 17965, 201684, 86469, 22702, 38349, 78186, 7131, 168890, 17189, 86069, 89291, 23091,
       109708, 74923, 202238, 48931, 51627, 125130, 114632, 127914, 221412, 27963, 199811, 155963, 42649, 150365, 4428,
       19757, 104634, 243790, 81337, 245068, 118850, 55033, 38538, 257673, 80384, 72046, 246163, 99834, 66374, 213726,
       71526, 101113, 136477, 82264, 200770, 63024, 122585, 33871, 46930, 39198, 250921, 96049, 47076, 88018, 179054,
       94070, 213654, 43748, 80125, 9628, 245904, 23400, 174290, 16704, 49302, 99671, 206420, 61320, 121649, 149463,
       54970, 69426, 207558, 23366, 219067, 144355, 121166, 236189, 55962, 99918, 169012, 215679, 63092, 71205, 35845,
       89136, 251422, 234867, 117608, 166304, 187814, 17848, 161792, 7962, 32816, 235012, 180814, 71132, 245859, 190212,
       104727, 232624, 258360, 4752, 433, 243814, 128977, 59502, 28908, 59625, 135856, 239820, 47085, 37765, 105020,
       38367, 256250, 24757, 22853, 74025, 154616, 103753, 45977, 202065, 125228, 11901, 198476, 54217, 64305, 205359,
       124835, 179647, 261501, 107976, 209990, 138950, 63052, 87393, 188144, 88345, 251487, 250773, 57014, 64574, 135356,
       73232, 260718, 68305, 7608, 65401, 46280, 91260, 169406, 136511, 6923, 218051, 224802, 107096, 251176, 154750,
       108127, 116375, 196531, 31074, 50917, 111840, 42423, 33563, 222657, 63086, 82297, 17300, 78205, 209856, 23697,
       37664, 5020, 142024, 77658, 99097, 196589, 39031, 143461, 139242, 7273, 73345, 223690, 331, 76286, 245491,
       13258, 18733, 189693, 103841, 231675, 131198, 126016, 190048, 77160, 55963, 82227, 73936, 67198, 133994, 3126,
       19247, 179101, 47907, 72224, 204854, 171791, 18960, 54346, 159489, 80113, 22234, 200252, 122324, 20991, 195670,
       25650, 157009, 118543, 100212, 234790, 28139, 3080, 133579, 13560, 49217, 45721, 187867, 14516, 7449, 184206,
       46199, 173298, 97910, 22745, 217875, 257079, 48929, 218016, 23917, 54725, 143980, 138395, 39399, 20878, 129950,
       86064, 197174, 152786, 120435, 203440, 40963, 52506, 219381, 180418, 25210, 210293, 93591, 35484, 45445, 229983,
       111935, 156221, 102704, 74925, 252132, 83415, 59639, 54008, 162699, 19613, 48329, 76546, 58946, 172426, 249041,
       36502, 132084, 246411, 123622, 72743, 101086, 115876, 219514, 129410, 10997, 71817, 164380, 67718, 211325, 243952,
       29498, 222157, 109859, 53841, 98219, 163352, 114930, 57888, 111297, 69142, 100440, 181281, 43806, 69974, 210678,
       27248, 89744, 210197, 104900, 47178, 160787, 81856, 216350, 5655, 61350, 72359, 89853, 28506, 28633, 226874,
       43810, 89326, 128888, 125808, 156664, 256920, 68169, 59847, 253208, 52520, 119587, 200231, 68343, 217562, 103973,
       102103, 152422, 102178, 44578, 198842, 224735, 23423, 96648, 1208, 76668, 195796, 32288, 87189, 165740, 243654,
       93417, 98063, 214752, 115603, 230030, 143358, 48650, 140075, 222922, 9876, 240375, 45223, 125612, 174470, 236596,
       57017, 231565, 186397, 81691, 159464, 68163, 87333, 254623, 234310, 71632, 169037, 130736, 26903, 134987, 209773,
       98978, 28800, 105941, 105349, 99293, 223269, 72479, 161483, 118151, 64036, 180470, 121003, 14934, 27666, 105604,
       11003, 186692, 181265, 44507, 116244, 139768, 40743, 59584, 72423, 124997, 172580, 14004, 102711, 25, 149657,
       86497, 156559, 206591, 67849, 44649, 89151, 21937, 51639, 17286, 128248, 71548, 177193, 49157, 87660, 232169,
       14014, 249708, 243299, 64723, 54751, 52521, 114556, 174949, 46600, 116299, 1621, 91662, 1437, 85078, 174320,
       116168, 145714, 86456, 35583, 256732, 88171, 5108, 48677, 140899, 111121, 148456, 158426, 113228, 194888, 148828,
       78149, 52454, 66392, 75292, 47562, 117987, 106577, 78740, 259209, 103063, 43435, 100747, 116667, 237139, 109074,
       72449, 187027, 661, 126831, 115274, 224170, 130566, 250982, 257383, 15275, 192707, 197555, 111351, 104766, 117109,
       65512, 184278, 195187, 50799, 24928, 59247, 80356, 160904, 61737, 7335, 135665, 37194, 66382, 228526, 105235,
       114149, 96677, 71998, 27978, 217014, 44978, 55887, 203499, 9568, 123139, 167487, 162400, 56172, 188572, 259456,
       46971, 252262, 131288, 57742, 5123, 9163, 68085, 186912, 20192, 82836, 96851, 51884, 104948, 106640, 167770,
       59257, 246497, 172370, 107148, 225738, 137681, 69955, 218765, 171290, 44365, 83218, 238767, 86238, 244041, 50334,
       94073, 76381, 230008, 73144, 156063, 41838, 7420, 167184, 162646, 22266, 232839, 191247, 37394, 142310, 203143,
       37044, 79540, 154866, 88266, 160204, 13543, 2404, 261038, 133422, 99048, 189236, 232472, 34778, 253980, 74411,
       40635, 48084, 91648, 69194, 51634, 12880, 28301, 209811, 56559, 115929, 111152, 119646, 11189, 119706, 119619,
       58246, 22280, 4817, 111335, 124702, 110839, 80719, 233551, 221217, 38316, 56177, 156499, 55149, 231198, 226626,
       92627, 221726, 184729, 127567, 60857, 217258, 117065, 125329, 222342, 44883, 92552, 167233, 130835, 207731, 215805,
       459, 95225, 260842, 3621, 127756, 196312, 107982, 111150, 63060, 26143, 255141, 199750, 7965, 39202, 238448,
       31083, 123798, 231085, 55849, 209553, 90930, 95756, 205048, 151342, 81832, 237538, 38519, 31145, 127986, 16162,
       65964, 174109, 21549, 121400, 192734, 64487, 106824, 183329, 12375, 42361, 34466, 8031, 128747, 99768, 89131,
       92880, 76841, 46791, 8185, 94881, 251868, 4608, 153357, 112692, 22073, 148555, 19953, 95401, 137451, 214060,
       24083, 7467, 252491, 67041, 155664, 185891, 12223, 207217, 152467, 120702, 102361, 198773, 45083, 158739, 164660,
       119030, 179547, 4470, 123846, 194022, 89747, 803, 77086, 64964, 60835, 33359, 139234, 3231, 188359, 72266,
       119104, 46731, 16256, 67948, 187093, 20259, 9823, 16156, 149008, 14454, 50155, 173504, 50267, 77295, 88452,
       123238, 98599, 199264, 90820, 259080, 176191, 113720, 141565, 104698, 48032, 53883, 119644, 5664, 27794, 118306,
       127705, 199581, 176059, 2250, 235466, 40665, 124210, 156623, 227782, 48323, 75313, 169045, 1322, 149308, 151782,
       90329, 56800, 123012, 128521, 99281, 208799, 126566, 129694, 28983, 21094, 88062, 168554, 23756, 134332, 54287,
       74126, 82999, 66640, 83532, 214488, 194217, 96916, 258154, 44972, 23730, 165897, 66867, 125698, 256082, 74408,
       83720, 218051, 122975, 111024, 35061, 213067, 70787, 129350, 181121, 54300, 24895, 28358, 128081, 83344, 74932,
       76299, 212943, 207376, 113622, 223935, 28986, 124949, 246671, 91613, 88520, 21409, 166660, 71950, 128573, 256202,
       460, 45678, 193727, 5245, 119105, 97937, 26325, 254434, 107741, 24380, 130332, 213373, 33391, 195246, 3560,
       39968, 102978, 165805, 47194, 132217, 196035, 55120, 187724, 170307, 12958, 159570, 196818, 5552, 121410, 173175,
       88335, 64704, 187429, 70429, 144221, 163383, 58214, 227769, 248354, 83157, 81780, 197630, 108485, 156044, 24900,
       56058, 148107, 21389, 84032, 212473, 214468, 124986, 162141, 253752, 110051, 68661, 43811, 55836, 204009, 109769,
       84504, 85292, 198930, 23209, 10453, 160497, 73468, 200230, 119278, 128624, 173480, 166049, 67936, 156966, 141150,
       121587, 106732, 81256, 53390, 53136, 168327, 130920, 154452, 77097, 75919, 138531, 241862, 5540, 73823, 6609,
       76907, 32692, 127173, 35988, 207714, 143504, 4257, 102719, 25, 107590, 231827, 214124, 36140, 114026, 252285,
       104405, 55594, 117020, 37777, 66855, 110343, 25470, 194997, 28906, 127655, 179193, 135267, 47401, 151099, 176182,
       78823, 152773, 242756, 79951, 129558, 112018, 73462, 99681, 179158, 119891, 129, 186690, 88400, 89156, 209510,
       52918, 24199, 149965, 113033, 241633, 248851, 23732, 72433, 203454, 71334, 52505, 194662, 124590, 141125, 155335,
       81972, 30970, 172564, 107081, 180549, 59536, 85663, 134065, 87315, 110018, 4672, 231773, 123795, 239963, 60186,
       35772, 103984, 253603, 22237, 214235, 55797, 63437, 166625, 251155, 91994, 134220, 2517, 29778, 107986, 219937,
       537, 153435, 186086, 44949, 50201, 91480, 126990, 86722, 17709, 91090, 203160, 180942, 52602, 138566, 63414,
       25241, 87616, 201309, 46673, 101113, 199120, 22261, 50908, 209785, 13933, 187855, 80837, 118848, 140576, 202514,
       130764, 6593, 85968, 21510, 211766, 241774, 7146, 99834, 55461, 43218, 135181, 87774, 60510, 155226, 38653,
       26846, 86637, 192373, 39508, 95954, 261081, 26328, 138692, 40118, 101483, 231007, 261616, 93399, 4240, 205372,
       83224, 95701, 239170, 50753, 109828, 172777, 119149, 213453, 93740, 127078, 149234, 106268, 22759, 66056, 54661,
       29230, 186891, 175304, 68895, 133720, 51271, 11960, 103446, 122947, 57206, 43130, 182105, 76256, 142778, 144162,
       68429, 59537, 33083, 43372, 222770, 75122, 71099, 119719, 165594, 125671, 251311, 84606, 27003, 29678, 185116,
       85830, 14629, 152045, 5688, 23985, 62405, 8705, 86761, 85293, 72329, 60032, 104968, 13754, 154204, 162717,
       2929, 10027, 186612, 22480, 144605, 235259, 74035, 238692, 243026, 92188, 80108, 201826, 26539, 70873, 6848,
       87590, 26464, 110048, 23917, 140946, 241713, 80407, 24070, 250754, 53996, 99395, 100841, 85694, 212149, 217539,
       130423, 145325, 142921, 122921, 142938, 121263, 561, 57295, 958, 116056, 60220, 98049, 8715, 21366, 22349,
       124917, 189304, 253714, 36939, 119383, 65298, 50074, 18164, 103421, 12011, 53170, 92042, 14715, 213642, 9182,
       95255, 88962, 181367, 123775, 134952, 204419, 80052, 7007, 73359, 93827, 234156, 60284, 99872, 235500, 180873,
       34447, 155345, 3879, 5928, 88652, 235874, 245, 121711, 24352, 45960, 79381, 59476, 31649, 52250, 40924,
       8168, 28536, 99347, 23531, 34695, 192982, 16318, 83779, 154910, 119914, 246180, 144800, 18385, 27316, 17158,
       70470, 172876, 150399, 77739, 153026, 41085, 71236, 65588, 166424, 12983, 137611, 86075, 41785, 141261, 234870,
       6720, 27529, 124341, 51861, 64744, 114938, 24720, 10254, 255935, 73614, 78486, 159473, 90807, 204943, 212178,
       69746, 3753, 13225, 56916, 71381, 92314, 50768, 148409, 214535, 110322, 58570, 81888, 28753, 2889, 245650,
       96235, 122211, 52252, 99284, 189600, 119250, 54945, 100493, 179866, 38967, 205558, 11165, 61674, 213295, 217483,
       12217, 192857, 243076, 6020, 37010, 163929, 14628, 14302, 52094, 24529, 124141, 239395, 66083, 121686, 6632,
       111298, 9745, 47124, 30886, 29291, 245010, 122573, 145508, 249587, 125161, 180732, 141738, 125685, 142702, 92190,
       109781, 5966, 69491, 47687, 72285, 140668, 9526, 216421, 160727, 74556, 54738, 82401, 73227, 129556, 193937,
       111408, 6225, 6764, 130546, 141303, 98968, 66605, 50983, 50919, 45246, 152766, 27771, 24366, 133467, 62059,
       629, 32148, 245653, 66730, 144153, 126955, 72812, 247118, 115706, 108126, 88192, 58045, 66135, 239163, 82671,
       120123, 88970, 188404, 82324, 41272, 67733, 110144, 144550, 111605, 19438, 53735, 134928, 112110, 161813, 232021,
       88492, 119351, 118936, 22312, 205528, 45166, 24872, 180641, 177652, 121438, 75796, 39186, 4222, 139388, 132547,
       60625, 99637, 183023, 41087, 218418, 253932, 87173, 7920, 211080, 110051, 236738, 250252, 47235, 126130, 61612,
       55954, 238653, 43457, 128701, 243230, 93008, 102749, 132318, 244619, 117598, 89089, 132427, 57509, 115811, 92454,
       30680, 219207, 18035, 53983, 201362, 4274, 93859, 157248, 34120, 14343, 68687, 175262, 35450, 242905, 159961,
       6112, 173210, 109140, 56668, 178981, 77260, 108454, 253625, 256040, 3232, 188469, 28719, 88516, 1390, 222628,
       122224, 26021, 139317, 31054, 159557, 160946, 90916, 27746, 86859, 127808, 145851, 247017, 126127, 186096, 27578,
       30792, 167559, 127594, 13150, 155138, 144852, 19435, 180566, 169533, 92017, 57446, 13209, 95126, 174934, 217172,
       88373, 140143, 179523, 44050, 122273, 252329, 22253, 799, 2300, 76121, 135749, 207987, 63396, 252545, 251110,
       95529, 196432, 206246, 57849, 248573, 188179, 44386, 47726, 117035, 38466, 216030, 175265, 27717, 219621, 132780,
       34831, 238294, 4664, 12429, 161292, 1559, 45463, 63474, 163358, 4793, 72992, 251159, 24433, 166664, 211636,
       97880, 182378, 20609, 42659, 228401, 216612, 87587, 42543, 40451, 93963, 116041, 178735, 76177, 32831, 155145,
       125658, 112815, 80641, 2810, 43567, 213644, 96816, 178315, 10036, 125670, 21756, 137676, 113019, 178286, 180853,
       22006, 8100, 83759, 42836, 259832, 41720, 22603, 159267, 61756, 78814, 180843, 42832, 93347, 236761, 170198,
       41559, 129262, 175703, 70714, 53913, 240236, 90560, 89380, 187609, 55225, 223462, 203613, 111937, 137260, 172574,
       101128, 155482, 88271, 8475, 220768, 34089, 81412, 35442, 132811, 30844, 154826, 74042, 73075, 8909, 91477,
       125421, 73912, 60738, 115220, 108805, 174310, 53020, 202896, 157377, 38209, 79807, 93899, 30724, 7793, 216022,
       69797, 206833, 236880, 14974, 202706, 234748, 71994, 150435, 96389, 174, 210447, 257123, 42447, 162215, 167,
       28827, 60393, 95519, 127299, 154465, 36180, 95321, 27606, 147305, 45829, 201296, 44368, 12169, 102545, 248104,
       67738, 22949, 261266, 27977, 10669, 148564, 70310, 234209, 244481, 109492, 161084, 16593, 80713, 42307, 43676,
       83071, 240052, 61471, 70913, 241709, 94795, 121538, 147062, 223667, 122146, 91397, 33764, 67203, 171812, 23779,
       40076, 133037, 205697, 60238, 259007, 91795, 24452, 135965, 136753, 83406, 241722, 76977, 65548, 26905, 83765,
       13539, 209774, 250003, 25906, 23584, 74898, 62866, 83823, 248454, 116338, 16827, 109354, 74237, 252846, 248378,
       89330, 40775, 209160, 44437, 39340, 126671, 74896, 8941, 129579, 58638, 253784, 253294, 86393, 124756, 66716,
       6629, 10642, 75574, 64657, 221758, 222419, 38796, 90534, 210817, 42753, 190933, 15469, 125949, 96885, 153495,
       23946, 45741, 250052, 40795, 140966, 231386, 66832, 167689, 235505, 113118, 175150, 250235, 54613, 204772, 194951,
       97499, 238576, 93425, 112246, 174535, 207761, 40634, 121579, 220076, 51478, 144718, 98056, 46734, 140863, 108529,
       109164, 20066, 99837, 5812, 165646, 43922, 40425, 96719, 85756, 89051, 114939, 248754, 74113, 212434, 249429,
       57185, 83598, 19316, 70772, 24651, 155237, 25897, 211506, 160080, 56454, 233053, 52453, 65759, 55978, 195087,
       118120, 173170, 117377, 34188, 48879, 31277, 113748, 4570, 178364, 84442, 2330, 56245, 2666, 29729, 175756,
       94978, 230317, 30731, 4659, 224315, 20108, 130728, 193738, 132028, 114378, 61847, 101629, 38973, 115258, 219313,
       33739, 106106, 142559, 49996, 64359, 250486, 46683, 135391, 138620, 48803, 16392, 61235, 41717, 37605, 88089,
       81413, 51878, 244624, 21530, 96188, 212277, 110884, 120576, 174983, 106483, 57248, 217394, 62453, 159126, 171037,
       111769, 5769, 137526, 32393, 209353, 47688, 2302, 88974, 79429, 81160, 215259, 109282, 60019, 26683, 145138,
       74339, 102606, 86911, 117878, 56365, 236996, 127130, 22224, 41459, 83159, 10992, 198878, 100146, 77141, 245812,
       10984, 246151, 170628, 21065, 82088, 139520, 96102, 162580, 90373, 56539, 244606, 127051, 58453, 146780, 81200,
       40449, 216543, 91394, 79607, 109024, 112710, 24269, 249779, 104742, 82171, 44711, 226876, 22780, 42939, 216071,
       8365, 211293, 181573, 43300, 168551, 145995, 30296, 7053, 196190, 116521, 239088, 35442, 7202, 225209, 90169,
       23149, 28813, 13958, 71921, 203461, 59174, 63054, 115038, 248491, 6009, 240058, 262006, 950, 154729, 34896,
       129508, 10823, 155535, 86354, 204956, 23424, 47894, 134319, 220372, 61660, 129909, 151821, 34937, 67472, 201375,
       45203, 77745, 178497, 85071, 145860, 139925, 115711, 238053, 69808, 24134, 76122, 200098, 110147, 226291, 151565,
       15932, 175779, 37652, 28179, 120777, 170834, 4872, 167603, 36929, 18456, 129076, 164196, 120232, 198674, 75556,
       60219, 145593, 243619, 10179, 214914, 217443, 125793, 82867, 200965, 115211, 73338, 18810, 98917, 195919, 244327,
       122352, 38216, 252860, 28852, 210619, 4253, 109624, 156230, 224316, 90438, 137910, 250944, 114001, 22114, 77015,
       104452, 207813, 91748, 45415, 209956, 146627, 101501, 252980, 124483, 34400, 176303, 155548, 43069, 60815, 109882,
       14143, 109620, 50555, 122562, 94951, 32431, 38142, 102982, 168218, 68239, 7275, 208215, 51292, 203827, 205969,
       125819, 183139, 87836, 43915, 148093, 225854, 102045, 146251, 152894, 112121, 27844, 232778, 57095, 213604, 221994,
       49567, 192954, 197803, 98008, 141621, 2746, 119655, 26720, 136599, 98950, 108034, 16494, 29769, 237762, 55370,
       116432, 71584, 59501, 50801, 27345, 95098, 75527, 141940, 166818, 108977, 243660, 192310, 24693, 73125, 204768,
       102827, 81920, 242459, 78140, 65600, 247919, 117092, 19838, 114343, 22540, 132254, 100653, 55139, 173584, 207424,
       109162, 107444, 131193, 2520, 193419, 38074, 14706, 119942, 157155, 129835, 95306, 200189, 36751, 216472, 72014,
       127866, 104199, 10008, 23924, 203280, 147661, 47329, 97211, 228259, 98680, 27218, 105954, 86216, 86872, 215894,
       76168, 229429, 90862, 69454, 247666, 20682, 110551, 111629, 81348, 30795, 46668, 234090, 57995, 144006, 247391,
       20375, 116087, 52893, 78111, 67327, 239974, 32839, 94051, 137298, 43757, 90979, 18811, 61767, 202880, 240369,
       3508, 229168, 188113, 12050, 128224, 87538, 89906, 30098, 131217, 56225, 249905, 47069, 113349, 205515, 31731,
       91052, 12808, 206841, 1061, 211451, 140623, 80833, 188381, 125365, 12284, 184980, 101633, 102358, 124188, 128893,
       129958, 234807, 28791, 69625, 75591, 140352, 89493, 71997, 184582, 31105, 63359, 95714, 57356, 212721, 211669,
       112210, 33393, 185645, 21944, 120745, 94510, 34804, 74160, 72692, 58383, 231391, 32680, 93355, 232456, 172556,
       49267, 225895, 133298, 121599, 190152, 233882, 12380, 176848, 158847, 48602, 12525, 104110, 92924, 9139, 239955,
       29620, 140862, 199074, 86037, 100225, 118077, 21524, 64264, 73503, 7337, 117413, 160866, 15861, 202381, 235817,
       121894, 253098, 186145, 72319, 24046, 30403, 104378, 166063, 247152, 43601, 181074, 9222, 77680, 250162, 229791,
       64874, 95962, 206272, 123959, 200753, 196353, 97986, 26921, 97531, 95753, 179252, 234014, 6075, 161410, 69011,
       72046, 79391, 207614, 61209, 132080, 41495, 121614, 37111, 94620, 33730, 86265, 76880, 35367, 160010, 4181,
       53915, 255730, 59393, 31898, 250367, 88663, 16932, 103409, 68642, 112383, 20651, 199323, 73174, 110259, 134982,
       112900, 140063, 77791, 108938, 130015, 214971, 36967, 224271, 70184, 71793, 11089, 88872, 10907, 133885, 192628,
       119963, 234604, 30392, 52987, 136993, 150993, 51599, 242424, 36551, 39682, 197115, 246349, 60380, 31023, 231454,
       32998, 158941, 102177, 49132, 167011, 248609, 104850, 172897, 165236, 109347, 140867, 65691, 39869, 211211, 116871,
       61474, 172868, 159986, 114533, 80141, 201035, 6903, 261868, 167573, 116542, 2217, 104986, 28728, 243938, 255694,
       88937, 129975, 164210, 76356, 56609, 159760, 72475, 13040, 206798, 112638, 16614, 97680, 13313, 69209, 28174,
       45485, 172316, 144843, 70549, 226484, 69105, 106337, 66234, 120715, 28369, 164581, 154202, 105241, 162573, 125796,
       52381, 108836, 72399, 24761, 83097, 39764, 99481, 228254, 130463, 11914, 78856, 158354, 67471, 154469, 161115,
       8372, 85653, 142974, 46716, 105148, 237319, 78784, 88656, 244993, 72891, 46203, 230501, 53038, 260816, 104345,
       56236, 46836, 51678, 29723, 36410, 251804, 59753, 116032, 204158, 124945, 5360, 155570, 111470, 148069, 92603,
       19035, 252343, 235188, 3903, 112028, 193959, 122358, 235593, 28952, 69042, 37543, 81770, 70495, 125607, 216234,
       102330, 70551, 174445, 41246, 239385, 134524, 63164, 154366, 200274, 126964, 153446, 132805, 88099, 228771, 102826,
       20151, 175330, 197917, 17462, 77676, 94857, 26773, 102342, 32719, 100494, 113400, 206321, 38715, 171611, 232600,
       2803, 125543, 196348, 123754, 215527, 216916, 22244, 177448, 227691, 1252, 212487, 83959, 31081, 82152, 177100,
       30805, 181714, 85837, 55313, 18936, 257230, 120637, 88078, 238255, 115236, 137767, 257267, 59886, 21786, 251662,
       53857, 123822, 250224, 72746, 39579, 36327, 31910, 1115, 259473, 6839, 259854, 183608, 123105, 258467, 197517,
       24471, 2449, 249258, 26004, 204572, 236774, 61926, 83944, 178489, 64436, 195122, 244089, 2416, 54718, 88694,
       19392, 189666, 151891, 49565, 133268, 90596, 89617, 248895, 50677, 29939, 69199, 43940, 55445, 91618, 196966,
       73052, 87116, 92754, 116469, 156095, 6491, 42738, 186877, 126430, 17505, 196351, 249844, 64129, 233096, 149635,
       97874, 77011, 156836, 14399, 141053, 132111, 55664, 30047, 240192, 2331, 35136, 161704, 4398, 175389, 63894,
       63301, 173860, 18430, 39085, 82906, 133805, 110769, 236950, 186937, 78925, 149215, 175518, 59497, 236234, 26346,
       53468, 237228, 125468, 65174, 251547, 257929, 5300, 104460, 98240, 117020, 55263, 79285, 130849, 154986, 253642,
       23787, 230799, 80068, 15778, 219141, 162554, 18818, 258287, 166413, 86642, 36327, 26622, 86696, 97931, 20755,
       111139, 30355, 207559, 98543, 101812, 126984, 58941, 190019, 199725, 80328, 46648, 212441, 90214, 222380, 144146,
       67205, 103450, 191927, 62344, 137844, 62881, 84554, 55678, 38448, 73069, 79713, 163123, 84402, 211247, 112368,
       80328, 26458, 251910, 94266, 139350, 108699, 84253, 141951, 212864, 68123, 180140, 188296, 89364, 123639, 227591,
       58914, 131108, 237448, 31676, 86751, 129074, 185, 233032, 196494, 73395, 162711, 102610, 77418, 94859, 252879,
       127408, 105358, 151727, 47379, 180409, 47134, 51659, 218209, 186700, 26450, 72017, 180772, 9245, 18650, 85367,
       101293, 7992, 90264, 32726, 51502, 37482, 79810, 99075, 260965, 90147, 206389, 238003, 61765, 245124, 195047,
       114865, 58761, 224990, 58169, 20289, 34510, 37343, 142354, 131645, 117442, 143294, 164637, 112926, 250050, 10928,
       21501, 11519, 116947, 3402, 199910, 106842, 11794, 153837, 18845, 37558, 89292, 89175, 127436, 9629, 149089,
       73205, 217376, 237965, 48924, 42399, 81842, 116485, 208654, 85118, 59393, 127202, 166873, 41318, 251003, 90770,
       123367, 137906, 144977, 111347, 256781, 98140, 110581, 78984, 201220, 67146, 48717, 32356, 103473, 70728, 249528,
       23508, 53347, 197109, 75133, 125696, 42913, 128954, 171127, 121945, 38136, 131964, 147081, 104117, 91356, 252055,
       64287, 258418, 215628, 5217, 107613, 18457, 100010, 125438, 171768, 22094, 182162, 60453, 82768, 131960, 259255,
       11228, 46462, 251546, 124107, 210639, 39429, 38236, 218455, 55876, 29683, 47203, 163860, 16926, 43713, 132010,
       123994, 104722, 179263, 93310, 169693, 126695, 97210, 255854, 34574, 65457, 250260, 212599, 62223, 136385, 239572,
       14420, 184644, 28650, 73379, 128995, 241287, 32363, 219898, 178675, 128076, 103038, 140046, 104409, 119791, 224386,
       54131, 182272, 75740, 19836, 157668, 242452, 102934, 260943, 164522, 15997, 217935, 194728, 24816, 92730, 102432,
       27724, 109393, 40778, 72992, 201782, 170931, 103161, 23527, 236582, 41197, 230630, 39341, 11097, 220698, 43541,
       60887, 258340, 149882, 98056, 80092, 177411, 29053, 242022, 33572, 28825, 249131, 87437, 124154, 246658, 191723,
       125062, 219498, 174855, 129822, 85048, 27618, 105861, 146616, 134366, 24665, 177057, 159924, 27784, 220697, 134577,
       44594, 748, 235667, 41698, 70030, 253836, 125374, 1344, 13722, 103425, 132404, 212521, 94897, 73506, 210418,
       24374, 149868, 185381, 119213, 87586, 183107, 108510, 164202, 117703, 21448, 226342, 22342, 114186, 9896, 37414,
       35684, 7625, 5756, 10599, 199052, 177687, 86091, 3502, 24788, 85695, 126960, 58971, 12442, 243363, 110916,
       41792, 142685, 58850, 130130, 46451, 17542, 88922, 194012, 77190, 95692, 108065, 121740, 27907, 129619, 101889,
       10326, 32403, 205441, 36294, 15277, 40823, 32623, 159683, 119475, 30742, 43089, 120832, 25264, 182053, 89112,
       75334, 99060, 115038, 43005, 46867, 145858, 107524, 68632, 137932, 24110, 93310, 184887, 60899, 157137, 192252,
       1790, 41926, 71578, 63135, 17136, 13372, 7318, 216868, 65603, 128152, 46176, 48805, 103624, 128840, 59869,
       64239, 233692, 100336, 11349, 46717, 4923, 77653, 2310, 228870, 99452, 178869, 62623, 24997, 181347, 132831,
       74476, 53383, 255215, 106720, 65764, 212226, 100695, 202561, 190020, 105249, 201789, 133105, 115254, 178243, 98901,
       122903, 227670, 145659, 53152, 122907, 126515, 74549, 184498, 127987, 103633, 85301, 24660, 91375, 133613, 24460,
       130484, 216887, 56543, 1792, 198465, 116486, 46548, 5452, 9746, 36834, 233924, 195494, 34382, 68973, 122489,
       29167, 111057, 196519, 92946, 73416, 241841, 11109, 155629, 248918, 97204, 40129, 181053, 90888, 186637, 75827,
       32873, 104662, 90179, 33139, 112624, 38426, 82426, 3838, 100776, 99899, 76320, 17957, 114882, 189340, 261608,
       111691, 166963, 16100, 126469, 37699, 53075, 76203, 73662, 227957, 119099, 79098, 74169, 105973, 118424, 74188,
       117265, 229337, 196509, 1523, 241666, 71893, 126602, 219401, 99011, 62066, 143000, 199604, 104619, 115555, 151958,
       16672, 235491, 203948, 51896, 207437, 80575, 35580, 233838, 158613, 38228, 78215, 37946, 16155, 94533, 235389,
       105613, 20200, 150650, 1211, 107126, 241329, 40960, 187500, 153049, 22860, 88793, 140713, 77206, 134223, 227140,
       33325, 97233, 71074, 33947, 116767, 79128, 64007, 119854, 208106, 85549, 67571, 108912, 15899, 170455, 174734,
       23004, 167011, 79198, 32397, 180387, 116614, 127631, 33009, 104954, 52055, 150070, 61834, 78510, 217359, 27965,
       31659, 130953, 155143, 64285, 133924, 132330, 9714, 248623, 250003, 4553, 189412, 61350, 61437, 220417, 234693,
       52253, 18385, 27768, 17941, 46468, 88971, 90125, 77199, 47018, 130141, 221867, 254960, 51858, 57710, 117943,
       81862, 39197, 156406, 126219, 47898, 84404, 108990, 249537, 30598, 60758, 187960, 153353, 96664, 58119, 50864,
       16794, 240122, 204775, 67122, 124922, 256961, 36576, 259168, 210811, 21124, 12294, 140012, 55873, 128698, 47121,
       17172, 89044, 193747, 91617, 98592, 918, 59800, 77346, 177577, 69618, 49618, 128278, 19185, 206316, 2173,
       18320, 39626, 113570, 76469, 112179, 102421, 129107, 51817, 91601, 12615, 198297, 213820, 37451, 102185, 9208,
       113961, 195381, 239662, 9472, 219464, 109794, 114804, 24450, 114136, 68719, 55682, 200815, 53512, 89808, 120428,
       40590, 118208, 202011, 38943, 194025, 240211, 40082, 40917, 58416, 115972, 238400, 260217, 94869, 75604, 212853,
       87781, 244864, 28403, 104693, 169987, 171287, 33700, 139751, 104572, 81008, 28171, 92305, 60301, 210258, 142859,
       102556, 49809, 185793, 40534, 214148, 148739, 84302, 185511, 142011, 115633, 90503, 11839, 52710, 174906, 163673,
       8732, 76083, 124784, 67639, 213224, 66912, 45347, 80195, 150859, 88109, 242503, 243838, 124653, 206441, 187679,
       63649, 171299, 182507, 61104, 127361, 225928, 85797, 193706, 65046, 13565, 163785, 56656, 33227, 147638, 34677,
       120452, 120101, 208353, 87810, 188276, 197444, 1762, 36105, 230180, 26820, 175620, 145827, 89500, 221808, 176524,
       100191, 87104, 198675, 110082, 19374, 246510, 38296, 51897, 106336, 122031, 204517, 58550, 72475, 224194, 192603,
       91296, 199948, 91880, 78215, 198239, 35518, 16087, 205637, 234350, 126237, 95586, 222798, 16105, 143656, 256735,
       33407, 232729, 3211, 106643, 218501, 97528, 81080, 194232, 109475, 109857, 232627, 180667, 67598, 150387, 115801,
       49413, 67461, 184397, 120828, 34948, 47226, 4751, 174001, 11014, 112214, 183564, 70476, 30253, 196277, 192257,
       111245, 148885, 11385, 18244, 204082, 187650, 76050, 120588, 146555, 116406, 21275, 205288, 62067, 206726, 84143,
       97853, 258754, 39998, 105469, 240725, 176230, 96533, 201569, 14606, 121284, 214767, 37088, 58567, 119606, 139290,
       22691, 235290, 146762, 6266, 181335, 239334, 32303, 259006, 250626, 18769, 48032, 72295, 73131, 119914, 116295,
       24241, 40694, 256022, 5103, 31164, 41704, 4717, 67855, 219289, 108995, 125118, 164010, 77522, 137734, 40336,
       46934, 250790, 126555, 117208, 67637, 231632, 9200, 212402, 75813, 128492, 203087, 79578, 80778, 156639, 128349,
       24047, 6998, 65520, 89006, 247710, 168332, 100057, 238153, 51761, 56274, 214250, 211999, 112935, 238279, 245097,
       19756, 209214, 74851, 36547, 209650, 233821, 12254, 60507, 113336, 27640, 47270, 230012, 31290, 173758, 44676,
       120276, 4613, 226218, 10237, 260341, 129929, 56022, 40536, 46392, 69782, 146992, 152933, 117793, 130009, 204785,
       130770, 10163, 246996, 98748, 22806, 54074, 127243, 135453, 252552, 103166, 241079, 23361, 126248, 235027, 37883,
       92703, 101866, 208905, 10454, 197053, 218700, 52680, 126549, 232260, 84750, 209500, 239161, 45969, 98689, 173801,
       35832, 256092, 106999, 75680, 229832, 148884, 122355, 251129, 139633, 4585, 37781, 167118, 100824, 176242, 48642,
       94729, 81209, 7911, 126347, 79527, 73126, 121990, 47535, 133084, 99907, 90799, 107163, 68211, 4614, 238071,
       26773, 198374, 45942, 71465, 35670, 145563, 100316, 56766, 132758, 117397, 40642, 133842, 103509, 34726, 142101,
       25594, 7269, 22499, 78602, 22171, 195653, 43538, 167690, 76248, 1206, 158659, 11881, 26243, 93977, 129681,
       14840, 14949, 148959, 110456, 230938, 137995, 33882, 244182, 76299, 37315, 244364, 230008, 125820, 211376, 231869,
       49687, 171694, 194258, 1256, 107223, 118278, 37204, 74017, 245830, 15636, 218792, 233414, 13475, 84883, 61425,
       10156, 108551, 238462, 77759, 184883, 147918, 24818, 48452, 130630, 47348, 213778, 150583, 112986, 101210, 211883,
       55618, 222470, 252665, 120021, 130189, 161211, 65265, 193078, 37813, 52276, 81993, 123940, 98354, 256233, 21164,
       9591, 54144, 189035, 11728, 28996, 227427, 85455, 130713, 54056, 63824, 76851, 164596, 103601, 80659, 11873,
       120097, 118277, 92281, 50904, 6131, 155041, 78172, 171705, 131169, 65627, 80844, 206235, 128661, 176123, 30130,
       108931, 234734, 130271, 119503, 74684, 170335, 33336, 226481, 173195, 101256, 152918, 61236, 34796, 27930, 164735,
       27360, 78994, 228844, 123766, 223891, 136536, 2530, 70387, 202570, 126535, 112241, 78152, 19564, 14512, 221970,
       107405, 101779, 50457, 36165, 188973, 65698, 45967, 66967, 149019, 28410, 227210, 70746, 76744, 130174, 115326,
       45625, 151939, 114365, 86165, 215081, 257142, 2050, 242550, 170472, 8437, 195227, 12383, 13062, 206205, 78379,
       54918, 89213, 27175, 106796, 252691, 221389, 116415, 66864, 219724, 32087, 218450, 44304, 75283, 206699, 92492,
       100711, 35736, 12579, 37857, 118237, 4285, 53609, 121128, 195604, 68678, 90883, 226108, 17678, 82803, 1233,
       3405, 144494, 162094, 20028, 147597, 75159, 82162, 251093, 79894, 9649, 76749, 105985, 24863, 231193, 160191,
       44283, 48367, 26952, 10206, 153372, 69752, 25126, 106658, 117977, 119441, 250028, 35654, 2529, 150958, 12749,
       85646, 164931, 243767, 50385, 64852, 148987, 88165, 108940, 120921, 77161, 307, 24746, 29294, 112389, 52292,
       111045, 115855, 238283, 64479, 159863, 29180, 107811, 115624, 32293, 53216, 229413, 145580, 129064, 184791, 72554,
       100989, 152357, 113429, 126609, 6628, 48224, 67413, 209779, 20295, 62087, 168844, 196646, 99018, 220645, 137578,
       115381, 140620, 203879, 126372, 135726, 143579, 42539, 174962, 29468, 104687, 211262, 146279, 27609, 193927, 33565,
       71509, 136518, 122162, 23573, 14813, 81086, 45534, 17563, 124543, 122075, 1024, 16151, 19148, 104910, 52763,
       82890, 13140, 140078, 77719, 184145, 255130, 15825, 109410, 16798, 42726, 190113, 91018, 73791, 29297, 43920,
       24533, 229280, 243977, 104939, 90149, 150959, 127422, 130552, 94923, 28148, 247482, 204265, 24498, 242496, 13898,
       59629, 65465, 101579, 98011, 23699, 54137, 36909, 250395, 249661, 2605, 183341, 162079, 70938, 228106, 150702,
       125383, 144079, 43239, 51285, 115341, 61975, 55067, 229713, 22977, 126995, 232224, 90254, 91043, 159611, 240056,
       94263, 79238, 122396, 73754, 125107, 183190, 127743, 256504, 79672, 90291, 28271, 90716, 117313, 192103, 247662,
       91668, 258654, 184046, 96353, 26579, 181540, 38064, 194088, 4511, 39777, 146776, 4221, 102627, 95417, 155327,
       38889, 232452, 4693, 73763, 104522, 21355, 32683, 27812, 55174, 107083, 169263, 158266, 14483, 165965, 129474,
       108717, 60284, 112076, 79001, 108, 9970, 24498, 159003, 37476, 71045, 173552, 49346, 37027, 180235, 88850,
       42397, 133823, 244880, 46075, 126738, 74509, 8299, 99703, 164554, 129231, 254252, 237316, 4133, 80420, 31728,
       86834, 207136, 60262, 48657, 144243, 239436, 84673, 225667, 252742, 46694, 44834, 38385, 88309, 221434, 190134,
       95582, 93505, 259015, 90512, 30325, 121473, 14937, 58935, 95684, 86100, 81278, 116443, 36698, 138433, 141622,
       3775, 13957, 105412, 54372, 179785, 33059, 56825, 94783, 154542, 61233, 117442, 75289, 92382, 186910, 70509,
       40480, 203358, 186495, 41324, 117286, 204361, 7936, 184898, 10960, 90023, 7975, 22782, 74426, 26595, 3607,
       45799, 222395, 96331, 92430, 138895, 156598, 70432, 145465, 118713, 61504, 228994, 162022, 67020, 86661, 87372,
       83407, 110487, 37579, 86507, 225807, 100086, 37874, 73209, 16490, 18447, 134775, 39944, 20530, 93165, 50366,
       83806, 63490, 133923, 114409, 64831, 98290, 53673, 130074, 163280, 22219, 90821, 5699, 99169, 105553, 249564,
       109116, 15831, 43537, 115419, 184021, 23764, 79538, 159658, 250469, 112817, 108458, 115380, 2020, 123059, 63145,
       14055, 160172, 126757, 12134, 34147, 12724, 93402, 136622, 210731, 9120, 58597, 192986, 65059, 123477, 36389,
       61958, 167409, 233725, 40724, 139523, 125012, 114085, 195673, 95716, 22339, 5409, 214221, 46198, 544, 108704,
       101472, 54224, 196595, 3987, 134635, 26814, 88204, 250311, 27816, 107006, 231418, 3571, 122194, 55095, 99671,
       114857, 249892, 11738, 41862, 82565, 78687, 76855, 241364, 61244, 10131, 3338, 52116, 33799, 140798, 226704,
       12349, 240026, 45864, 41312, 59898, 159672, 114712, 141149, 120821, 45503, 223349, 66610, 73649, 28352, 158473,
       56804, 24778, 244138, 60151, 27963, 172087, 127083, 196078, 7622, 38817, 146398, 15812, 82224, 176388, 173161,
       55058, 119072, 239451, 8014, 144767, 225, 64137, 149622, 1208, 106606, 140725, 91241, 12943, 196374, 253260,
       9121, 142245, 21747, 20136, 207261, 207277, 100191, 118331, 211449, 94895, 137098, 223570, 74058, 2360, 232009,
       61371, 97317, 160509, 116434, 168082, 189410, 100492, 161786, 61188, 106422, 234556, 171687, 106595, 240218, 253245,
       84242, 58433, 178977, 60032, 234052, 56023, 113335, 11111, 124042, 121373, 168883, 176950, 3120, 80137, 244831,
       6757, 104949, 6237, 125664, 105227, 222206, 36327, 261089, 157499, 114474, 73188, 251866, 50960, 40326, 70577,
       15610, 178979, 18661, 10543, 223120, 177568, 20513, 210592, 243750, 32754, 219, 153693, 64031, 20365, 7658,
       91946, 192105, 37120, 129289, 61398, 157953, 57869, 45051, 32416, 67919, 140709, 38383, 68395, 112095, 221008,
       70704, 193945, 72401, 67861, 79536, 153544, 1150, 32688, 44769, 226, 19892, 111534, 12801, 83794, 47039,
       13311, 59539, 96814, 92392, 64920, 25876, 26858, 197712, 172578, 117271, 253529, 147378, 121714, 75715, 35434,
       127912, 76437, 46478, 123087, 69414, 51918, 35636, 248022, 114050, 66817, 123362, 20252, 22997, 61303, 87066,
       105671, 134197, 125908, 116448, 136434, 153947, 111580, 34273, 225708, 56802, 71486, 147253, 99440, 236824, 123731,
       12789, 235120, 211635, 5274, 252333, 41321, 98728, 53292, 235792, 55752, 43651, 100254, 130488, 165996, 237598,
       12747, 79843, 257187, 112148, 217965, 254032, 62912, 89224, 169543, 108416, 60404, 145035, 107102, 132940, 189029,
       120060, 236873, 257341, 39039, 208844, 182541, 124492, 26439, 13102, 19879, 76500, 251045, 10743, 212760, 119830,
       56572, 185884, 126583, 108569, 248550, 193667, 62052, 66698, 117425, 108696, 69048, 4312, 95641, 133433, 176673,
       27450, 51754, 148435, 124371, 212949, 196160, 7966, 185947, 211705, 117739, 83316, 128018, 39904, 3079, 42154,
       65555, 107362, 205905, 55358, 132293, 60838, 22522, 183250, 64604, 46943, 6834, 231008, 25288, 79281, 51907,
       26723, 211841, 156566, 24517, 239497, 212941, 64096, 127422, 29812, 104586, 120639, 81070, 74576, 10555, 70351,
       117074, 98035, 47383, 83433, 41735, 23228, 90353, 49187, 184328, 87504, 161170, 1337, 58911, 135100, 232185,
       90353, 4745, 183531, 9136, 192346, 234981, 112702, 118522, 94866, 101949, 103092, 48834, 32142, 204756, 219166,
       100667, 144138, 79482, 1657, 23868, 103690, 28474, 247135, 206517, 8537, 175150, 195548, 102265, 236562, 173595,
       99073, 245561, 163437, 106644, 236168, 160097, 587, 111282, 29041, 65697, 150982, 39152, 92384, 76042, 259956,
       20368, 193133, 147969, 85169, 97055, 75016, 11024, 125550, 101528, 23766, 194671, 25642, 62363, 167807, 142132,
       85664, 24036, 148017, 19119, 93902, 27380, 24277, 155299, 140, 26797, 50914, 174135, 31286, 260013, 180346,
       29694, 227025, 164330, 51792, 257936, 85785, 85693, 135558, 119504, 57413, 183993, 96703, 101708, 118533, 10607,
       94275, 252080, 193110, 16584, 35567, 62040, 6401, 201654, 201633, 115073, 145929, 109889, 10463, 161888, 193652,
       19443, 29647, 66273, 2901, 13813, 105850, 82357, 79710, 199706, 76332, 124375, 90617, 129355, 114653, 35475,
       116252, 799, 147146, 53850, 9688, 136799, 48704, 130899, 2090, 38908, 259479, 227765, 19976, 73353, 255407,
       18098, 236201, 194455, 17338, 180925, 146525, 14957, 65392, 226901, 31524, 103395, 106842, 40195, 175823, 60711,
       126036, 20681, 17773, 75821, 169333, 81576, 129446, 40201, 162177, 48819, 258942, 4624, 59982, 9958, 539,
       42543, 45616, 197981, 23971, 118011, 142520, 18764, 231886, 201535, 123873, 110261, 187806, 129343, 65453, 92523,
       5886, 98966, 73040, 19706, 35256, 128870, 55512, 39276, 2050, 24423, 26584, 103220, 47694, 139186, 69354,
       16920, 240325, 115552, 59835, 238282, 229842, 35611, 145943, 149404, 46124, 235790, 63973, 12361, 196045, 13731,
       56115, 157250, 105462, 128877, 141972, 258020, 43100, 211057, 154659, 114875, 88581, 168305, 110519, 209162, 81789,
       124788, 52691, 195051, 103561, 61339, 148230, 86454, 177030, 27217, 112274, 61937, 197691, 9914, 235820, 83216,
       60664, 36674, 10625, 129663, 208065, 190107, 100873, 8134, 120643, 126101, 37735, 171358, 102188, 61427, 118090,
       114672, 138736, 50638, 92606, 66051, 46369, 99680, 135980, 30393, 68573, 259025, 255898, 121141, 179285, 213770,
       108139, 131096, 114935, 110609, 180936, 251602, 88212, 170100, 97878, 39921, 236670, 14984, 4670, 17967, 186269,
       122638, 49577, 49580, 76823, 253325, 30874, 39078, 51252, 238098, 19547, 114519, 32732, 108727, 68248, 210002,
       109644, 98284, 201142, 106759, 49387, 161571, 84552, 73033, 184526, 47974, 96700, 83616, 39855, 26310, 139692,
       1121, 76239, 15391, 109262, 159890, 30184, 11459, 256514, 180891, 82674, 83650, 259294, 66070, 29211, 75745,
       69034, 59677, 240929, 121466, 27803, 10472, 4143, 220923, 204800, 101370, 17214, 23620, 6822, 160421, 85874,
       5000, 227917, 192763, 56337, 17126, 19368, 8267, 102039, 246500, 103434, 177205, 29935, 69410, 234307, 27669,
       3806, 44910, 187450, 5308, 132639, 63740, 80303, 180756, 40826, 105658, 180398, 25091, 57383, 68200, 61408,
       72689, 261561, 239547, 104835, 64540, 45848, 80020, 69532, 32920, 29459, 202865, 127543, 80353, 250382, 222207,
       82349, 221579, 123025, 96220, 228117, 51876, 81379, 58067, 234947, 127040, 132257, 204763, 25858, 255118, 153010,
       124661, 93730, 44057, 70561, 61257, 154408, 88074, 166526, 46197, 13036, 165282, 31609, 49882, 222766, 237781,
       100844, 16642, 70717, 92656, 63064, 67792, 5261, 39291, 161242, 71643, 53295, 56355, 11570, 209533, 260667,
       130528, 234326, 171017, 117610, 120180, 131846, 2763, 22104, 248822, 112544, 240544, 232723, 120511, 124938, 257329,
       46340, 71467, 197067, 94306, 136558, 205579, 57947, 110683, 55563, 85882, 165732, 67575, 44606, 21709, 199947,
       42278, 126946, 236166, 55631, 104511, 172807, 19079, 224726, 30437, 108939, 12149, 118018, 45704, 139078, 25710,
       52448, 105468, 72549, 117185, 137939, 39127, 65093, 124926, 138634, 71336, 117547, 14900, 125370, 32036, 215934,
       116225, 128, 226690, 22212, 89251, 129185, 62025, 63019, 207456, 127309, 193756, 70844, 48806, 208520, 51236,
       48702, 217705, 52719, 25563, 666, 32962, 14984, 146594, 143694, 97033, 60170, 249697, 100929, 113663, 254940,
       127010, 122461, 42837, 101373, 123663, 197897, 31896, 183002, 51048, 5258, 41982, 55779, 129163, 65232, 258940,
       44623, 145114, 21474, 40890, 192416, 62754, 118745, 94700, 30237, 76690, 56073, 39077, 28163, 155844, 73743,
       116535, 163243, 183977, 130201, 208140, 181863, 11361, 34699, 67432, 113017, 11907, 224250, 51185, 176561, 8588,
       68691, 58643, 222308, 119906, 199118, 39680, 127582, 198691, 180166, 34362, 91243, 46698, 27898, 203489, 159837,
       10553, 122255, 130047, 73635, 253793, 45947, 1783, 40716, 89069, 53988, 87468, 26744, 9618, 154620, 145744,
       53113, 197609, 110068, 5233, 260023, 164572, 109473, 156442, 250340, 27490, 238397, 77768, 43032, 20783, 218457,
       114038, 244058, 261666, 97814, 153404, 76653, 28709, 208702, 151125, 9424, 157, 231437, 93804, 207953, 154109,
       51210, 43181, 92719, 100411, 167154, 172950, 58365, 177315, 118055, 45351, 59840, 111177, 59140, 103616, 106059,
       98115, 32340, 172992, 118255, 214275, 217382, 6523, 22542, 24190, 68696, 91208, 54375, 4303, 211120, 137115,
       61395, 98536, 29067, 116035, 207349, 118582, 47394, 94214, 161810, 122218, 37117, 121198, 82655, 29778, 146613,
       122441, 159703, 208874, 99243, 90158, 40799, 13557, 119056, 26726, 30297, 123744, 225178, 51664, 186075, 231971,
       22296, 65336, 139245, 64869, 14119, 108285, 61783, 43752, 238526, 125338, 211184, 56183, 56849, 152323, 55663,
       102973, 177338, 58601, 123458, 25935, 41203, 114948, 178271, 242304, 27350, 126584, 23687, 65015, 165229, 67761,
       45578, 248707, 218441, 52410, 73109, 22177, 47291, 176247, 50449, 108312, 145331, 157356, 59262, 201911, 252189,
       68641, 173936, 191877, 128771, 89124, 123356, 7861, 158116, 934, 63957, 153029, 229878, 101457, 213923, 93333,
       19813, 26262, 142087, 80154, 175418, 191226, 31387, 33445, 40653, 113692, 102741, 189580, 42873, 159211, 106710,
       43130, 241575, 92364, 78406, 122695, 56098, 24059, 251001, 18163, 37340, 242136, 190003, 54608, 201813, 230364,
       46352, 5766, 134423, 68796, 185261, 260967, 78596, 8641, 41814, 74274, 61996, 135370, 85743, 39056, 177993,
       40337, 90345, 137147, 16570, 246007, 235956, 99720, 148391, 255100, 111513, 127483, 214215, 33686, 84114, 28370,
       53358, 93553, 80448, 65348, 121741, 54103, 69904, 56605, 163151, 86440, 182374, 220011, 5453, 4981, 92194,
       94565, 116441, 65199, 8122, 174018, 56109, 61379, 136089, 253022, 108484, 133976, 236708, 59141, 181807, 230910,
       19541, 128857, 7299, 129110, 93358, 7822, 116560, 111171, 88519, 101097, 162669, 74185, 53937, 170083, 3455,
       24097, 7107, 259799, 123392, 169442, 65401, 69776, 85683, 10214, 111719, 245079, 118011, 44839, 20078, 234179,
       43946, 238628, 182881, 129176, 199723, 8636, 68397, 183850, 15439, 18441, 60449, 112750, 28793, 52269, 255012,
       63169, 105011, 232831, 5566, 195868, 165822, 60625, 66723, 237697, 54911, 108541, 142289, 102149, 42721, 18823,
       46522, 249867, 176762, 128784, 165484, 79444, 23693, 229339, 257820, 77461, 211490, 124978, 11757, 17368, 261398,
       96189, 5271, 191722, 130384, 93166, 108115, 107366, 36576, 69733, 72837, 45741, 84092, 63536, 5032, 105539,
       109449, 12342, 149431, 122679, 260893, 232982, 129657, 72810, 89317, 51975, 49711, 200406, 129881, 140314, 57325,
       20437, 148301, 103715, 33233, 72412, 74822, 11667, 136708, 102217, 35617, 81482, 239926, 100655, 29036, 146108,
       111794, 131458, 185035, 102091, 4398, 126836, 82715, 14070, 220298, 67366, 162196, 50200, 92891, 75653, 173093,
       51227, 87810, 67785, 110271, 253820, 89951, 88760, 173014, 116308, 91462, 172344, 60031, 70246, 53081, 238324,
       116028, 192261, 69807, 33032, 19706, 24495, 49957, 205841, 16478, 101927, 43749, 247623, 64585, 152912, 32729,
       116551, 15510, 108642, 45403, 65965, 237182, 48408, 221220, 13701, 116488, 98929, 157915, 60865, 248147, 83708,
       67649, 126222, 128511, 43616, 1493, 78007, 36263, 178955, 147572, 85976, 133543, 61351, 15707, 197968, 105855,
       115248, 6193, 48524, 102131, 187050, 202907, 25001, 198291, 21405, 90966, 152656, 184969, 78988, 79235, 83349,
       24187, 99135, 9620, 35809, 86493, 27864, 53606, 178000, 88501, 91651, 37694, 199013, 83718, 197824, 123058,
       69761, 22532, 132035, 100717, 27972, 160170, 99344, 108896, 26522, 80984, 9185, 223587, 103152, 95475, 82077,
       43812, 149175, 109670, 115507, 36222, 23104, 80597, 129699, 261912, 107788, 217705, 258020, 71601, 234572, 130918,
       28631, 36083, 98604, 71094, 204573, 141531, 48642, 91224, 177406, 91422, 155622, 43718, 62363, 63929, 32559,
       109590, 256263, 117957, 88876, 83973, 239472, 89724, 159364, 59556, 28462, 257915, 253960, 129007, 153457, 106386,
       110320, 13901, 104858, 103416, 117500, 151915, 43281, 254277, 164824, 70206, 81789, 118041, 17970, 101991, 171083,
       70579, 32299, 153053, 19121, 260915, 228174, 72487, 203499, 22413, 85029, 71899, 188641, 51143, 200754, 250437,
       65345, 71904, 44467, 114773, 167989, 144611, 14229, 154272, 103771, 103774, 3604, 211763, 22381, 36833, 98205,
       4811, 101901, 48254, 24323, 166286, 17138, 100275, 194247, 158898, 53100, 179485, 238470, 114363, 2407, 143379,
       68774, 122378, 193787, 2916, 104366, 205693, 93941, 22606, 185361, 14448, 117391, 53787, 103465, 148718, 204331,
       22033, 140878, 78558, 45278, 91404, 117606, 99781, 96684, 251843, 125073, 3273, 113070, 48684, 154869, 56190,
       108711, 38184, 104077, 25007, 137316, 101664, 105798, 174808, 26203, 86179, 16078, 146558, 25263, 72607, 248434,
       39649, 209476, 251225, 17271, 124232, 186917, 50196, 66079, 195236, 26692, 166379, 260712, 84410, 26156, 70901,
       130351, 202642, 172745, 1574, 17045, 155703, 70899, 115806, 162265, 75191, 164698, 64153, 119827, 45739, 41585,
       66323, 34403, 105966, 71264, 8513, 81144, 61820, 124774, 46587, 35245, 216270, 199620, 7343, 222967, 109703,
       53563, 151970, 210569, 6893, 70600, 57124, 72154, 39048, 105687, 40277, 155295, 250275, 69940, 87548, 249085,
       17602, 149872, 61663, 122241, 176912, 251973, 117246, 180468, 260511, 24903, 58315, 6239, 45015, 243557, 253612,
       80411, 189947, 129272, 12541, 205144, 119839, 46473, 239455, 68883, 32913, 207004, 23914, 119998, 159558, 61061,
       111740, 71858, 218706, 75999, 219431, 33994, 68202, 218907, 171568, 121992, 23944, 243471, 122215, 45710, 54101,
       127052, 10011, 79612, 16433, 173302, 217349, 21044, 166034, 199592, 88701, 60966, 174314, 70966, 235855, 191178,
       2420, 95180, 225433, 8123, 50309, 248321, 116402, 123696, 43509, 113884, 165914, 86333, 46828, 56174, 72941,
       116791, 206166, 99133, 77814, 47015, 239820, 105631, 174316, 226290, 56024, 64319, 109826, 14863, 90586, 246385,
       56849, 124139, 167317, 59939, 52198, 239249, 72213, 93683, 191836, 13838, 245719, 151992, 129945, 6551, 244427,
       31999, 131432, 241330, 26024, 173181, 228608, 69049, 29407, 101899, 70412, 249165, 41414, 57648, 48168, 202111,
       101173, 117284, 13033, 67718, 242643, 186284, 79914, 706, 246503, 94862, 232319, 104125, 3280, 23622, 96229,
       74795, 124333, 122938, 115893, 36105, 219905, 2279, 46481, 122243, 53108, 7525, 261316, 121402, 126970, 87049,
       46288, 171393, 245215, 60126, 132237, 99757, 128652, 155574, 95641, 26125, 203644, 10971, 8553, 33593, 128336,
       112646, 62345, 142377, 113831, 128241, 192107, 61876, 48744, 245684, 67398, 42669, 259020, 109550, 212986, 98763,
       96804, 123348, 120615, 34753, 159912, 186840, 2214, 64444, 108816, 62875, 68079, 193910, 112579, 93429, 182593,
       117418, 220920, 14638, 125334, 125856, 43058, 115286, 29538, 127449, 76027, 122914, 22859, 58275, 90466, 183576,
       101561, 31217, 103965, 96969, 236259, 206583, 70535, 140422, 14909, 11446, 45449, 124220, 121383, 87631, 21917,
       59716, 192884, 92804, 47622, 232118, 235618, 82518, 172391, 5836, 88321, 75824, 32472, 27615, 75146, 120599,
       109699, 65081, 179896, 38002, 166393, 109475, 24469, 9315, 243012, 53267, 168168, 229174, 95755, 254521, 194464,
       126544, 140080, 114689, 106074, 29853, 242925, 123253, 89799, 136588, 18429, 126865, 24046, 9329, 74810, 216975,
       73099, 125449, 183751, 38049, 228510, 73908, 108534, 215329, 143007, 88078, 208215, 223649, 127235, 73901, 235,
       33396, 37657, 24641, 63672, 182304, 151094, 65698, 155151, 206189, 31349, 99838, 261162, 77344, 189283, 24026,
       58102, 99815, 231620, 58552, 180299, 41398, 47544, 161984, 214920, 2218, 252728, 21247, 68432, 17535, 149717,
       43941, 158419, 26641, 172, 261584, 257322, 40362, 209099, 88044, 36520, 97746, 229640, 51570, 9526, 35888,
       17282, 27259, 117274, 66543, 35196, 33317, 90759, 142051, 253922, 82599, 179020, 1129, 105349, 201454, 121359,
       59245, 165235, 105829, 68038, 102571, 122020, 106221, 836, 218648, 56059, 169833, 9519, 91960, 7861, 185870,
       56964, 52867, 69014, 54753, 135918, 68485, 99641, 176060, 184547, 22916, 58768, 127703, 44379, 36834, 258856,
       29382, 185770, 100253, 47069, 67749, 187181, 30195, 180543, 18628, 75943, 224101, 21858, 104617, 221102, 242675,
       103102, 248292, 78296, 47775, 228176, 204512, 129598, 210743, 43075, 77837, 178071, 258518, 52350, 51473, 53072,
       109515, 210870, 241873, 95666, 12212, 908, 98209, 4442, 228407, 25708, 98788, 137751, 61384, 53376, 146373,
       112961, 140709, 82792, 66065, 70709, 170941, 89581, 135786, 219971, 77061, 170460, 204181, 110409, 101942, 134355,
       37297, 251235, 258746, 75428, 182353, 112091, 16152, 161062, 179360, 90467, 80458, 43984, 95940, 128059, 154587,
       5614, 202732, 115335, 88577, 71613, 187740, 54354, 70224, 241698, 16265, 164035, 108736, 55038, 32005, 175067,
       25458, 130694, 207179, 54468, 57408, 22452, 50376, 22301, 69848, 96782, 122850, 63486, 101477, 257331, 8172,
       79564, 120530, 139492, 2973, 159849, 205784, 122030, 249603, 172605, 89945, 253883, 138518, 4482, 17304, 175137,
       107326, 17240, 28312, 26249, 74824, 19859, 75919, 178194, 226744, 61162, 183537, 1298, 55029, 28542, 120620,
       116616, 145941, 234429, 57325, 214750, 100141, 9875, 132167, 99953, 124077, 217908, 32058, 120656, 103239, 241168,
       89709, 252048, 139013, 61327, 159762, 251254, 12171, 72571, 86446, 103644, 245733, 81349, 9893, 10800, 45070,
       8991, 175188, 205606, 70435, 255589, 106751, 20988, 86166, 19006, 1013, 58091, 86268, 55458, 84837, 534,
       17985, 88337, 184320, 21039, 20057, 19771, 10080, 217904, 173504, 26882, 12710, 223940, 93779, 247047, 128738,
       106027, 188746, 192432, 59314, 128395, 147958, 66395, 5702, 261503, 4280, 42125, 14363, 9085, 110365, 96037,
       33759, 240369, 93901, 71289, 223818, 123769, 96934, 117484, 75553, 79298, 251987, 108494, 51396, 257480, 39607,
       15508, 255039, 6281, 102337, 133547, 120806, 47682, 43346, 228419, 96476, 18818, 90370, 67237, 42668, 130133,
       96817, 239254, 197635, 118920, 67475, 138367, 120721, 47376, 213462, 70137, 135231, 200191, 67044, 111250, 102461,
       34823, 2052, 180670, 122657, 40768, 43235, 60020, 99898, 176009, 16723, 167487, 252487, 56715, 130697, 30417,
       16653, 32404, 257386, 65867, 218344, 184414, 73567, 132194, 215993, 44270, 84717, 53530, 9391, 102054, 236011,
       123666, 234729, 168050, 101364, 246229, 96693, 109953, 215216, 5532, 48086, 45659, 42758, 99723, 169021, 189864,
       63618, 208696, 244372, 26356, 108787, 198312, 16308, 110325, 103521, 45226, 133049, 145970, 18029, 60386, 66000,
       130845, 29163, 68948, 6447, 78466, 251235, 57821, 150433, 10297, 59256, 210283, 52730, 39404, 112235, 35031,
       74888, 50441, 219625, 19657, 206703, 15281, 102748, 252588, 108368, 43574, 153964, 7191, 77508, 119519, 88310,
       93800, 69717, 35681, 116528, 138529, 253389, 109548, 86735, 198973, 79732, 73644, 139111, 50907, 123453, 237446,
       65956, 11145, 86906, 100759, 159078, 229165, 115021, 170224, 91253, 13602, 237211, 125046, 50443, 230696, 143563,
       101727, 40576, 144180, 56577, 120540, 213529, 43545, 198571, 236754, 53912, 232919, 175041, 79016, 17472, 26797,
       131046, 120547, 109563, 64617, 132033, 114426, 27327, 206522, 157790, 21344, 164184, 187305, 5550, 227043, 63036,
       73245, 76707, 84599, 71378, 40154, 18587, 26900, 110428, 107136, 91138, 56613, 75218, 97138, 100181, 20530,
       33960, 136308, 143569, 45101, 221320, 144778, 129823, 27010, 201106, 49055, 155275, 207087, 99719, 208855, 124957,
       59339, 164395, 143109, 103985, 76880, 238323, 100797, 108515, 126818, 87524, 30863, 125121, 112037, 133013, 91175,
       123105, 64634, 100666, 76019, 150412, 140904, 31125, 137522, 185705, 52249, 24971, 261600, 99392, 169471, 72435,
       85312, 157328, 238073, 23304, 100619, 96215, 6716, 18123, 232659, 89517, 37221, 130471, 32909, 112679, 89415,
       65492, 203996, 211044, 97877, 155442, 178560, 73749, 225515, 187813, 10918, 166769, 26188, 24324, 97726, 40489,
       28747, 205452, 8110, 33798, 205377, 182573, 74108, 145067, 209475, 66055, 210421, 59143, 26628, 155333, 7094,
       8854, 143770, 164785, 22469, 252157, 157494, 129024, 216899, 242123, 61413, 101135, 251506, 113684, 186120, 59113,
       111247, 179125, 245392, 67045, 233684, 141422, 92626, 254626, 153547, 25264, 102631, 180042, 90229, 139698, 178747,
       35701, 259934, 252808, 109060, 11310, 105414, 10973, 233196, 186057, 101336, 218138, 136543, 13098, 243851, 1318,
       115499, 61776, 101195, 39872, 182085, 126416, 85772, 169637, 87483, 63897, 235579, 51552, 48012, 22506, 154525,
       84599, 92263, 248313, 124193, 191917, 106978, 5409, 80826, 80075, 120435, 231086, 218385, 79833, 144359, 70899,
       105816, 78651, 44433, 50315, 67606, 7854, 61845, 105486, 52223, 113882, 1504, 190867, 54374, 249849, 42332,
       70078, 235597, 117124, 2646, 259249, 141443, 20787, 198658, 73838, 84107, 35120, 75934, 93975, 156336, 119076,
       76362, 175632, 227307, 18783, 244599, 246041, 58380, 47273, 162874, 46542, 257220, 22358, 64967, 84852, 46366,
       114075, 201121, 92461, 101693, 186250, 34435, 11008, 176141, 102308, 116694, 159166, 41418, 61835, 121644, 32676,
       97499, 130824, 37281, 18355, 58227, 130806, 87912, 144093, 158131, 30975, 189734, 160520, 57459, 120835, 76422,
       2210, 65564, 40549, 19871, 238429, 25358, 12069, 45716, 137363, 31423, 196145, 107769, 13109, 149709, 79373,
       90690, 8128, 221266, 3806, 83378, 36984, 80968, 126588, 207689, 18442, 224605, 129902, 123884, 53088, 39367,
       122302, 132736, 206060, 29557, 37395, 207764, 80533, 112302, 175688, 3670, 186969, 258455, 122131, 101689, 141098,
       68548, 260167, 65989, 5665, 90414, 40720, 44892, 41702, 210090, 10072, 213035, 71723, 51504, 3554, 7624,
       87808, 153490, 129580, 61589, 107486, 17680, 50295, 61049, 94487, 15618, 39917, 124317, 32104, 170550, 37127,
       13125, 257166, 285, 105840, 124192, 56283, 17726, 40562, 128029, 78036, 203921, 234709, 44923, 176027, 13856,
       29619, 115037, 150830, 83816, 106771, 142062, 59900, 54183, 200140, 52447, 227197, 10107, 77706, 78115, 10745,
       64391, 112879, 153157, 39778, 73972, 170702, 73277, 73691, 76338, 87752, 135640, 7939, 3498, 190233, 68117,
       61062, 193790, 82719, 7560, 173926, 130404, 24432, 139049, 198968, 73467, 207, 235416, 113533, 29753, 206327,
       115711, 27782, 183732, 9167, 183840, 202404, 54932, 246905, 133511, 76415, 216462, 231793, 19276, 195698, 41034,
       100326, 191761, 206733, 97548, 105852, 37851, 118402, 187000, 12941, 1112, 73026, 255535, 28401, 62187, 243796,
       108421, 4458, 250304, 87894, 70365, 56005, 117229, 122396, 19383, 7494, 170833, 165828, 78245, 68397, 36883,
       74586, 19048, 145008, 4675, 240412, 151779, 67308, 95856, 237216, 79891, 12122, 154903, 25073, 46905, 44211,
       35825, 224164, 104314, 83931, 159219, 113597, 61381, 37173, 5517, 112461, 148406, 57266, 44876, 173758, 12978,
       34951, 161151, 136013, 129088, 91365, 210526, 119424, 101623, 103771, 3800, 35932, 192699, 101020, 246694, 174201,
       14461, 209577, 138000, 3602, 141415, 86689, 35873, 214609, 25825, 35303, 184303, 10096, 107389, 196298, 61676,
       93148, 151325, 79410, 128661, 133918, 180963, 93259, 109804, 44813, 54821, 155156, 220436, 91609, 221872, 61830,
       131001, 25914, 13136, 93079, 187913, 1952, 99835, 25871, 70047, 122993, 99423, 162964, 14896, 130579, 226136,
       92377, 127640, 193890, 111516, 219813, 182754, 125092, 81759, 159371, 27652, 43710, 46343, 66050, 257661, 118196,
       89201, 179566, 36306, 32436, 23656, 49532, 78705, 46958, 95226, 33761, 95991, 204272, 43706, 230318, 115397,
       57870, 193616, 181854, 69362, 1211, 227574, 58899, 74324, 143773, 64644, 32288, 47976, 39136, 163961, 181469,
       20835, 228800, 68710, 6206, 67168, 178503, 25687, 84702, 133321, 76276, 135523, 15700, 103037, 189785, 146483,
       22183, 162815, 144295, 14228, 148859, 134437, 98210, 258510, 35816, 39997, 186830, 20169, 124714, 244973, 39465,
       93627, 22293, 192186, 42828, 149061, 113348, 37950, 248260, 142478, 68642, 51088, 6811, 10373, 170383, 68531,
       15424, 25130, 144472, 23050, 11591, 255635, 101544, 149637, 120986, 67352, 81734, 251246, 1385, 14133, 218207,
       88279, 41494, 122041, 55533, 240935, 226979, 66958, 115652, 217618, 28064, 168888, 1958, 72323, 52491, 192262,
       128339, 150324, 10676, 9626, 142223, 124929, 37213, 162898, 155380, 31850, 47314, 197105, 32577, 224200, 250940,
       49637, 209636, 64126, 107231, 74896, 28939, 119650, 56154, 34492, 26504, 192923, 39993, 71165, 140054, 214693,
       83479, 163074, 119018, 68396, 254468, 98550, 56895, 68456, 86767, 25162, 160826, 101676, 63991, 232744, 72994,
       52588, 7837, 137221, 104276, 21246, 195121, 100087, 39469, 132335, 17563, 124555, 231705, 11602, 96798, 170457,
       119033, 145135, 43130, 70190, 40778, 180701, 112433, 179424, 224131, 7621, 257864, 122570, 69011, 119246, 91602,
       70703, 186677, 157711, 112813, 245578, 250110, 12793, 245809, 71747, 31515, 178499, 170532, 53285, 207061, 190220,
       113487, 150435, 155272, 123061, 82279, 237291, 130118, 105208, 185960, 125723, 107127, 1193, 778, 209144, 67778,
       6253, 59698, 85525, 19347, 31719, 153993, 45726, 13827, 141160, 108779, 4235, 156662, 117002, 61036, 79013,
       24488, 199046, 110752, 81220, 162445, 178749, 120240, 123235, 155196, 60782, 64511, 141203, 13571, 173817, 258432,
       60006, 144374, 54215, 49256, 49658, 169285, 75714, 206795, 2929, 57495, 228349, 20752, 2273, 148196, 116448,
       130285, 71018, 125502, 71242, 237512, 236700, 62079, 191465, 128284, 125123, 159414, 111976, 20428, 243820, 60890,
       24803, 196880, 220804, 105908, 28623, 74033, 34187, 170739, 236499, 104756, 77404, 207249, 35590, 114470, 232770,
       4349, 254035, 153349, 67766, 40341, 39668, 25780, 22097, 35081, 99332, 112540, 83465, 84043, 83447, 134786,
       121058, 117675, 185605, 102627, 222812, 220410, 23694, 174575, 144902, 104878, 89232, 210404, 84113, 198688, 226317,
       87680, 217471, 193760, 109086, 94631, 86751, 75212, 70358, 155482, 61080, 3311, 193477, 83445, 213329, 67772,
       39053, 229671, 212642, 23933, 97298, 235964, 80817, 105149, 4922, 30650, 255179, 146935, 10474, 165992, 209589,
       72, 167269, 93560, 79733, 167924, 74627, 47467, 148202, 175746, 98606, 236859, 187713, 49175, 31687, 232458,
       63701, 116383, 107820, 53357, 115751, 126096, 85272, 36443, 87395, 46679, 228653, 113527, 126322, 249931, 146786,
       122702, 172445, 135554, 111152, 186976, 17815, 120625, 156516, 230486, 58869, 167050, 39244, 70311, 1302, 86344,
       97267, 146877, 34630, 91245, 62566, 219582, 116743, 6522, 257334, 93890, 246521, 110291, 130794, 195160, 41398,
       45679, 92325, 247476, 109182, 178276, 126118, 91440, 102628, 245465, 90621, 105944, 201747, 42707, 241981, 224346,
       102970, 104369, 22780, 118014, 22544, 179314, 28645, 153078, 150853, 81985, 31833, 89513, 51397, 234964, 249495,
       129702, 13393, 135903, 62761, 150689, 259341, 29926, 100091, 209516, 50050, 220896, 117431, 85699, 237353, 14070,
       9973, 48780, 41166, 79115, 81497, 58755, 122057, 128879, 50002, 111458, 196949, 211519, 8870, 27734, 1459,
       130205, 156810, 234259, 91583, 140337, 37430, 21270, 123785, 150268, 1627, 105287, 108829, 22450, 93769, 256802,
       109861, 103357, 31325, 2836, 81159, 150985, 30559, 21857, 136869, 99261, 146536, 86193, 76822, 178300, 49334,
       102594, 192683, 69945, 97799, 115038, 167724, 6632, 111414, 147612, 116983, 67298, 138267, 29757, 135419, 38243,
       72534, 66565, 32443, 84448, 35979, 234753, 22102, 114519, 124730, 127956, 152902, 238375, 63983, 151381, 246634,
       7555, 90019, 144888, 122848, 212528, 215822, 76843, 78313, 181493, 91644, 170615, 85280, 68835, 220499, 91139,
       109410, 202691, 255858, 4342, 227844, 48430, 35176, 233070, 145315, 61557, 196442, 251061, 10040, 154454, 152498,
       92524, 157014, 76092, 51598, 65800, 1434, 35739, 36390, 246887, 442, 228644, 84567, 94349, 156925, 22095,
       109289, 14085, 176798, 51778, 197418, 202075, 73953, 46841, 101888, 29843, 89504, 218546, 81552, 180851, 97198,
       1590, 230932, 42676, 64047, 139691, 113575, 84437, 78883, 72761, 120349, 60843, 215914, 49982, 117498, 175422,
       100295, 2696, 48496, 78340, 9014, 211201, 121505, 86944, 19042, 52216, 41603, 81264, 41824, 121736, 126853,
       116279, 124794, 103646, 6454, 147372, 125196, 17876, 80274, 109579, 10800, 239612, 175830, 110508, 28371, 110372,
       1390, 88131, 199959, 112939, 33209, 208055, 59148, 150070, 225677, 527, 157640, 73578, 52644, 114469, 203097,
       24484, 94329, 60235, 81841, 110282, 103595, 89044, 239943, 185821, 63901, 56022, 79297, 5310, 255652, 236606,
       86000, 30053, 200727, 110367, 185452, 103462, 94414, 90093, 14111, 108784, 64055, 197786, 26281, 48305, 131289,
       116508, 83893, 17646, 42230, 141548, 38567, 1756, 261046, 149435, 110545, 7829, 163488, 123446, 104167, 11998,
       85925, 84948, 67580, 30334, 225975, 129701, 32996, 170504, 89146, 61157, 68447, 162850, 117680, 135073, 200214,
       19608, 16773, 182487, 108262, 5457, 195426, 38181, 168228, 254940, 105983, 1677, 148668, 120621, 206153, 51091,
       56032, 124987, 169902, 47847, 240998, 34945, 105148, 197321, 22493, 69400, 99708, 233438, 89712, 27703, 110626,
       81635, 124189, 243061, 20039, 117119, 194180, 110728, 94923, 93794, 25660, 166567, 31827, 122196, 22331, 112751,
       32842, 230767, 208898, 96191, 64730, 246146, 37310, 92205, 125806, 41652, 201608, 55738, 40632, 147547, 51187,
       98027, 192287, 207098, 72982, 228364, 203267, 115730, 90254, 79449, 40287, 250885, 81713, 90700, 221210, 126407,
       98690, 125528, 255972, 19855, 16651, 37006, 52506, 12646, 134736, 63283, 224033, 97896, 46620, 172377, 148769,
       42219, 246986, 140739, 89970, 112288, 91559, 28294, 10610, 5944, 92981, 69143, 133516, 122558, 29598, 131678,
       74081, 149289, 238464, 80141, 238099, 158886, 9035, 38569, 257682, 113308, 187881, 127751, 37414, 55669, 239054,
       80615, 258570, 129748, 128334, 49889, 93379, 78053, 187921, 38085, 94989, 31966, 21860, 58368, 244580, 80153,
       7912, 71261, 141820, 104542, 246922, 250643, 4587, 96501, 3594, 91836, 163302, 20337, 3004, 98680, 106037,
       113024, 18866, 34274, 20661, 175764, 154635, 67406, 155569, 137930, 78269, 193236, 80695, 59971, 102664, 217689,
       44664, 144723, 103421, 61317, 93173, 154206, 40817, 232179, 7889, 57425, 150018, 228733, 47043, 116275, 149074,
       74213, 156926, 106202, 31185, 51326, 42786, 129585, 50322, 171362, 65650, 6954, 158221, 25449, 55524, 249014,
       62530, 24379, 53388, 113562, 200240, 144125, 2858, 68154, 104683, 89070, 135659, 110927, 71823, 61619, 243468,
       22224, 80068, 199406, 107148, 71264, 136657, 48350, 116712, 196428, 38509, 57546, 23182, 108544, 6592, 40088,
       83692, 197880, 146987, 117736, 161117, 195661, 82560, 30620, 107283, 97100, 118504, 246940, 109634, 166858, 122570,
       7174, 218512, 58985, 101718, 75795, 133877, 80439, 192935, 25480, 9110, 137862, 209249, 66660, 85295, 39373,
       10807, 247777, 224604, 96462, 18775, 228495, 71631, 19043, 51079, 124986, 207276, 35336, 24003, 241021, 34728,
       79434, 4374, 224383, 27732, 129379, 48510, 80486, 190232, 48057, 94719, 37168, 218130, 94673, 228865, 219324,
       106833, 99118, 109090, 111876, 140372, 155850, 10128, 41865, 205499, 44992, 186859, 87809, 90062, 137098, 84850,
       65350, 183988, 166332, 24992, 72795, 148199, 72444, 196288, 109440, 53403, 106398, 220200, 51123, 25461, 185405,
       106136, 10289, 158547, 53424, 191053, 185197, 3467, 116638, 252234, 7610, 125293, 18459, 112229, 162275, 179033,
       125907, 227900, 31223, 90231, 49426, 185230, 47758, 126102, 228913, 123024, 57826, 217321, 86874, 242781, 97829,
       110668, 127653, 213411, 100381, 207931, 63342, 49694, 143758, 253968, 62744, 119241, 109780, 24396, 187101, 251681,
       38274, 228634, 238681, 101990, 127579, 60784, 117175, 140451, 196339, 94956, 124936, 233060, 60971, 64688, 209057,
       11338, 247175, 46314, 7464, 73801, 228843, 49063, 157392, 144582, 60794, 10570, 66317, 79838, 172541, 210305,
       850, 155856, 259723, 129724, 251317, 63703, 47702, 51727, 184804, 111161, 121575, 131977, 70119, 40906, 66626,
       17096, 251706, 165260, 104538, 134244, 108929, 93038, 119108, 201766, 69132, 26876, 2753, 67443, 131802, 176761,
       11466, 33262, 36091, 85963, 113609, 242798, 119438, 190068, 216308, 12221, 209204, 154971, 34538, 255029, 70390,
       118267, 81446, 217791, 37269, 137611, 247014, 85713, 184811, 134068, 70099, 179965, 236009, 78161, 223305, 143851,
       54498, 74162, 134354, 39320, 126360, 224681, 6361, 98685, 43947, 97554, 102570, 114497, 97791, 252255, 18070,
       87913, 95473, 206596, 84362, 96436, 155952, 31944, 128961, 19786, 2928, 208446, 15743, 105999, 247595, 41154,
       64374, 133732, 249362, 40217, 232644, 70295, 13360, 109808, 86967, 8221, 11629, 103923, 45726, 172742, 48270,
       105478, 130168, 111240, 120418, 251467, 151632, 117538, 260797, 66028, 120586, 91596, 89062, 118977, 98611, 243071,
       69104, 105550, 32346, 28759, 64638, 173767, 104601, 147247, 196500, 28011, 206317, 204886, 35023, 102807, 100003,
       30573, 28959, 7350, 67499, 202799, 29267, 42182, 150772, 82567, 20205, 142012, 254583, 59398, 90556, 2018,
       114544, 201746, 146706, 74783, 132069, 51511, 115125, 53617, 156304, 25673, 94120, 232688, 21885, 157173, 178373,
       75442, 11801, 158117, 60729, 116859, 121313, 86530, 38924, 183726, 104153, 84607, 231637, 98475, 91712, 151626,
       123504, 14825, 61020, 52200, 69222, 3690, 27051, 137122, 71131, 72209, 58076, 61221, 14515, 84475, 216299,
       37860, 77184, 256313, 27248, 79476, 176677, 51978, 104723, 102065, 14577, 99331, 68464, 4173, 147099, 223696,
       86087, 79632, 198934, 79986, 145249, 98830, 92846, 5888, 242023, 86558, 44957, 130610, 14980, 218220, 237576,
       38152, 76320, 135611, 16977, 81739, 228093, 110490, 20625, 218402, 97898, 40872, 31096, 26414, 143478, 93843,
       44736, 22221, 213262, 126696, 42012, 205716, 77877, 171797, 168743, 105009, 17419, 85598, 34680, 124809, 45069,
       27532, 14772, 208487, 102749, 146721, 108390, 89898, 176803, 149442, 89257, 36474, 25854, 72434, 241148, 199279,
       73869, 89271, 176486, 96429, 90024, 82096, 35389, 200594, 9209, 46238, 17919, 85391, 114247, 45818, 261501,
       40483, 151945, 198566, 71605, 232820, 138133, 92096, 94326, 79015, 131062, 38509, 171875, 57054, 132488, 9952,
       56110, 259398, 9849, 110439, 195053, 67614, 105578, 236925, 130783, 95823, 151511, 145227, 60716, 114041, 177665,
       42459, 91319, 231292, 79787, 136790, 63381, 114848, 88991, 249182, 115838, 125567, 152853, 14221, 24925, 257228,
       56144, 190945, 177839, 60912, 9500, 223920, 128138, 380, 171003, 88866, 145713, 198831, 53378, 157916, 112749,
       3415, 120384, 232823, 74106, 42914, 41462, 12592, 228138, 100731, 109373, 6503, 172464, 98634, 32998, 61719,
       60359, 224554, 134348, 56257, 135081, 203982, 117616, 3380, 92970, 37808, 213098, 113182, 32639, 142730, 104312,
       123102, 127379, 207209, 106069, 123290, 63675, 107561, 9891, 229020, 25584, 116293, 150152, 18782, 24166, 196628,
       3411, 195337, 145117, 31069, 132292, 210183, 101474, 182486, 77980, 31462, 82739, 1208, 95565, 6707, 149331,
       33018, 31498, 199575, 51811, 204024, 109643, 128865, 12494, 167709, 32087, 252508, 89134, 49331, 170619, 96604,
       39464, 25930, 194915, 14368, 200856, 234476, 64211, 106167, 165400, 49635, 194674, 137974, 91080, 62943, 167801,
       107163, 197252, 94010, 71335, 235556, 243489, 4220, 12959, 80371, 81123, 102518, 86803, 7260, 45551, 139459,
       80787, 14692, 85155, 89788, 64359, 35030, 25921, 209318, 156758, 107393, 88710, 238150, 119417, 196703, 225225,
       106572, 244989, 100204, 39991, 71245, 94238, 76892, 123975, 12417, 119906, 170717, 76932, 42030, 43776, 226354,
       107482, 180019, 136527, 1241, 242327, 40462, 477, 257065, 153966, 99576, 242940, 95893, 99804, 119926, 218648,
       103412, 214424, 242536, 121900, 125225, 14577, 15454, 56650, 21179, 30406, 192925, 90162, 118453, 8588, 179742,
       23230, 184264, 208973, 89421, 40516, 242140, 69528, 221863, 80423, 10904, 94794, 128379, 37390, 20630, 54701,
       68206, 59546, 232764, 111719, 61471, 50020, 92738, 127116, 117984, 81511, 123139, 14733, 65016, 6016, 81252,
       39149, 28082, 148269, 15629, 175378, 169129, 53618, 108528, 81256, 3737, 255861, 115714, 27663, 135664, 61490,
       56686, 120859, 129498, 54867, 109811, 45892, 5805, 233499, 250205, 77209, 76662, 37466, 72048, 56304, 33022,
       10237, 75323, 150286, 123622, 70152, 237228, 13026, 78539, 9524, 112044, 215448, 143186, 40, 156547, 147803,
       115642, 91144, 207593, 2584, 184743, 59560, 99327, 246059, 245256, 47407, 141038, 101279, 96759, 144815, 143156,
       52657, 143541, 177, 9294, 11323, 141701, 100598, 167137, 123989, 9339, 60809, 172893, 120864, 44507, 108409,
       6681, 70469, 95041, 62826, 32193, 104385, 94769, 149139, 23364, 51543, 157452, 103636, 28473, 59239, 201230,
       99495, 149551, 21254, 102799, 19803, 248627, 120939, 125026, 36180, 49304, 187001, 152478, 66355, 112025, 176777,
       47595, 254610, 44637, 33696, 59913, 257372, 98439, 102848, 46252, 44518, 221938, 259804, 56118, 105817, 68789,
       52910, 82222, 3986, 93409, 244362, 63019, 120297, 80820, 119985, 87393, 13229, 209624, 61811, 71836, 183514,
       102131, 255013, 114152, 84013, 103126, 59552, 7944, 84076, 251427, 12538, 214328, 182441, 4969, 222742, 22054,
       59875, 217450, 178282, 108246, 68510, 52717, 41036, 114602, 88262, 50352, 168694, 120756, 119206, 257831, 53977,
       109694, 159484, 93862, 87169, 48807, 156506, 34970, 132468, 74092, 15340, 225763, 99017, 2104, 225969, 206258,
       14026, 26969, 71200, 38351, 52706, 85442, 72324, 59562, 171326, 8388, 162226, 236549, 17855, 169701, 124731,
       23734, 159858, 208286, 82835, 41128, 43896, 80712, 209854, 167874, 72189, 253044, 54697, 32833, 189461, 95352,
       48643, 104901, 128078, 12673, 82444, 63173, 29682, 168887, 206067, 117664, 5097, 48248, 128410, 41048, 216023,
       84890, 9754, 33506, 120169, 226107, 160741, 84245, 122255, 247485, 4351, 34033, 84120, 130647, 174467, 37848,
       12969, 229660, 225639, 89475, 59296, 186775, 33139, 195771, 159463, 51377, 196196, 178420, 84663, 232120, 185493,
       57211, 70739, 40538, 32839, 150218, 1855, 43836, 139095, 82437, 44767, 103489, 147695, 125740, 131809, 18465,
       104675, 211084, 107268, 60102, 237129, 2, 26190, 243183, 100202, 106301, 132016, 224893, 20602, 57912, 130889,
       27585, 184477, 91342, 47974, 28126, 212824, 115388, 261810, 56414, 17273, 142142, 172580, 16021, 125862, 27570,
       64746, 75934, 132330, 36229, 178898, 35645, 74544, 80941, 157796, 59196, 242099, 27911, 57010, 251655, 1808,
       14676, 136626, 57901, 18487, 174325, 228576, 107620, 107820, 168662, 116114, 110671, 181598, 30760, 115349, 56393,
       14871, 129723, 129271, 7001, 112728, 41700, 79730, 205738, 13185, 93762, 203494, 56458, 48864, 249273, 261894,
       89086, 124598, 5718, 93448, 245857, 205648, 122597, 48105, 85433, 8503, 30790, 260747, 25204, 15924, 144643,
       8981, 219741, 63262, 113769, 183718, 115341, 103885, 258012, 154550, 75319, 127265, 212905, 10965, 243920, 87387,
       35823, 156624, 21702, 39022, 192918, 65891, 73497, 191938, 190283, 33822, 86318, 147183, 9562, 260907, 108531,
       95782, 124892, 229850, 39201, 10879, 137887, 59293, 154174, 251639, 16733, 136624, 82567, 105191, 160228, 83897,
       74125, 103329, 229270, 118172, 165464, 241259, 64942, 117627, 185825, 123394, 143040, 152300, 116898, 248849, 73482,
       75557, 195639, 155743, 122407, 73590, 110440, 42347, 232858, 179748, 47925, 117846, 216633, 5960, 232268, 101731,
       77227, 194314, 155806, 94624, 4872, 90715, 101386, 185415, 90671, 19636, 188807, 212221, 58216, 214414, 113011,
       23181, 213630, 123479, 86786, 93288, 243651, 20702, 90944, 153785, 118510, 142182, 151460, 30229, 195107, 136983,
       38194, 177693, 132739, 111529, 260428, 205907, 60092, 69886, 212151, 3145, 51539, 152887, 64826, 107247, 192108,
       11081, 69220, 109866, 129151, 26992, 101333, 77084, 251596, 12608, 33624, 63767, 254649, 73887, 158254, 176216,
       10075, 32761, 79457, 104843, 92545, 134961, 121284, 156939, 89988, 114615, 45836, 33939, 44794, 223464, 66483,
       42699, 20703, 152427, 4599, 885, 91795, 85380, 91177, 205744, 70111, 10452, 144928, 60207, 117331, 25592,
       118965, 1131, 73125, 22004, 58542, 187158, 1266, 256090, 123202, 9609, 192416, 246284, 29277, 194274, 165773,
       4362, 210636, 33438, 65908, 191585, 181517, 41168, 121673, 186583, 23656, 70473, 23769, 98315, 5209, 62740,
       26797, 221310, 89220, 90125, 203370, 170119, 45778, 222754, 12852, 67086, 75561, 221432, 122403, 215127, 207088,
       4895, 197519, 232891, 65570, 175511, 189260, 111990, 242812, 122947, 77066, 251837, 33194, 36289, 254908, 192856,
       52124, 225901, 123897, 89163, 203551, 224617, 116760, 130183, 189986, 5382, 170849, 171987, 9376, 193059, 80815,
       42605, 40187, 90493, 30510, 235614, 172328, 34725, 5536, 53542, 29002, 78973, 123991, 25667, 47396, 147859,
       17121, 37902, 57453, 122415, 61856, 51634, 18899, 52799, 62285, 26791, 160318, 98415, 32278, 141812, 258448,
       122292, 32886, 56089, 99052, 252423, 139741, 103507, 126806, 262074, 13730, 229269, 165107, 109616, 211796, 29690,
       53502, 179206, 229140, 34448, 193905, 194952, 75464, 187419, 29365, 107765, 41374, 132373, 102059, 129694, 161034,
       116653, 196617, 174676, 121652, 37194, 107626, 31211, 35689, 236895, 55555, 236428, 227438, 1917, 102731, 207680,
       115254, 117577, 173829, 20260, 21243, 170886, 112915, 59402, 187924, 43173, 119293, 51282, 48252, 1548, 58850,
       5129, 37449, 213753, 42844, 172158, 100888, 116439, 158500, 179405, 3348, 143906, 136490, 53258, 40513, 161495,
       4115, 160505, 57105, 48617, 176993, 81242, 22628, 92816, 234534, 33058, 201652, 78275, 115028, 150462, 2304,
       57153, 221104, 36303, 35887, 65622, 66484, 77245, 199196, 157895, 18626, 63816, 31304, 33998, 256053, 219041,
       71597, 213282, 232519, 31132, 162566, 71083, 89014, 165359, 143082, 64420, 196075, 205731, 101186, 39692, 237699,
       124288, 80684, 81173, 15178, 204067, 186678, 43865, 55623, 260327, 41883, 245044, 63342, 19815, 222194, 36308,
       106208, 13845, 143558, 99598, 215350, 49212, 63494, 161300, 174369, 70486, 181242, 256547, 7804, 149227, 29847,
       72811, 120503, 119979, 103722, 187757, 12870, 75212, 190768, 179726, 34774, 62008, 183859, 87496, 232561, 109639,
       47381, 3012, 174326, 71417, 165443, 202047, 63906, 43855, 147516, 49961, 96921, 153547, 94224, 203068, 225107,
       115851, 107413, 146792, 683, 56419, 27658, 122370, 258056, 209259, 67045, 81767, 23993, 91846, 86251, 104456,
       112148, 110923, 9605, 61224, 56402, 169106, 109441, 189200, 230914, 23280, 258205, 118527, 20862, 106713, 106442,
       86176, 22874, 91294, 114051, 100669, 131822, 116972, 22004, 233998, 84376, 91582, 193616, 68876, 242321, 50822,
       43436, 93006, 56617, 128450, 161080, 137440, 41903, 40119, 60417, 97541, 252037, 151502, 69727, 240773, 71710,
       79758, 243730, 227990, 51574, 74115, 31925, 126461, 77778, 163177, 74931, 143090, 99775, 122917, 183579, 81446,
       995, 5793, 151596, 75061, 20625, 130258, 94003, 31459, 241171, 97659, 38848, 83485, 118617, 34039, 28059,
       576, 243189, 201413, 43, 71993, 203262, 61900, 135353, 180833, 3839, 153223, 213361, 127733, 244022, 245920,
       29106, 138033, 232386, 61953, 29204, 198598, 8013, 113099, 172907, 68425, 243795, 19195, 49801, 159707, 100669,
       5853, 178075, 191033, 43925, 106924, 118001, 51306, 79178, 175237, 129750, 259445, 17651, 27248, 4457, 145044,
       71405, 92732, 88158, 129409, 111061, 32273, 103811, 141983, 66488, 130202, 174345, 152721, 126916, 208849, 235603,
       64164, 242971, 38185, 91275, 98407, 90777, 14476, 402, 63377, 57822, 67841, 251322, 106039, 177831, 37873,
       66235, 81576, 231722, 92104, 43943, 12251, 97747, 31017, 222243, 33222, 185409, 122545, 114779, 175167, 86038,
       60269, 221685, 203724, 27549, 100113, 75291, 113431, 207213, 200001, 54764, 90847, 10747, 98344, 249540, 257764,
       71831, 207314, 142916, 50052, 182008, 237805, 106152, 31843, 36444, 76607, 168527, 71237, 51191, 198151, 222515,
       14365, 55590, 106156, 117367, 211855, 229573, 4649, 18216, 94663, 113139, 181436, 129521, 47180, 229897, 139341,
       83799, 107586, 112442, 120874, 147378, 9437, 19884, 128321, 107144, 74311, 87226, 147502, 100195, 195070, 246717,
       99298, 7372, 14022, 68895, 164183, 133661, 81885, 222950, 144579, 99290, 151565, 26741, 110235, 45753, 157744,
       99852, 96005, 254415, 46400, 35628, 179884, 130642, 241916, 215469, 56951, 35932, 101328, 3206, 167122, 12541,
       47528, 243552, 72928, 16748, 201175, 12395, 15917, 190455, 39984, 36901, 94575, 130358, 6996, 8591, 50696,
       90244, 175520, 244242, 9697, 228335, 83285, 26645, 149057, 190444, 12176, 144540, 125787, 8279, 136531, 33653,
       35094, 195639, 140219, 74959, 246805, 193883, 126443, 69534, 236448, 114760, 252129, 213354, 114810, 107865, 250761,
       23077, 120205, 126653, 34721, 240036, 101253, 10013, 6506, 39438, 102035, 105447, 67384, 9150, 252252, 226838,
       72967, 56352, 726, 32489, 143396, 227858, 31908, 237540, 15610, 129856, 82428, 243809, 99192, 168521, 253778,
       109699, 82724, 199831, 74970, 239739, 117006, 114165, 153269, 167558, 84605, 192924, 203199, 124016, 230643, 126797,
       36875, 160209, 92048, 78029, 189662, 119766, 90456, 234890, 174795, 51503, 20563, 205114, 115305, 22195, 168930,
       128424, 199280, 104222, 64719, 93001, 174348, 51202, 13606, 257240, 61857, 222343, 35598, 111769, 238744, 33793,
       84602, 219537, 159681, 5868, 106013, 219252, 71063, 77201, 240321, 2267, 147243, 29887, 102044, 49321, 238767,
       43032, 143213, 241776, 61866, 252889, 75989, 104684, 88263, 61874, 6088, 36537, 115816, 20780, 93363, 101894,
       52161, 121231, 127123, 30136, 196879, 169102, 44289, 108967, 211115, 130832, 199031, 139480, 108188, 189048, 54003,
       115854, 204129, 7780, 122821, 163821, 220765, 44687, 38719, 225319, 38938, 123473, 12630, 30679, 10230, 141148,
       108805, 21967, 104688, 89070, 58115, 158891, 30955, 140007, 252587, 49413, 87866, 5690, 66415, 189876, 188410,
       69224, 97933, 153803, 116487, 84105, 111107, 49881, 147895, 206532, 119082, 16181, 10081, 57850, 243496, 186235,
       97828, 146598, 233210, 121930, 77130, 101785, 118957, 199929, 86836, 7464, 242803, 153886, 26962, 19228, 149117,
       62508, 248495, 149076, 56564, 179278, 98770, 84002, 249638, 10061, 123824, 237164, 63643, 14733, 28918, 220437,
       59226, 4969, 85518, 25219, 183384, 240502, 117192, 123505, 208219, 126429, 119043, 26639, 62744, 101410, 19397,
       13632, 219609, 135450, 102930, 37370, 98778, 91375, 186408, 113513, 46487, 108681, 24264, 116314, 71415, 99970,
       127904, 62248, 22238, 73119, 5167, 182258, 74151, 23277, 69464, 38995, 180916, 171976, 76612, 98342, 236839,
       57624, 209252, 192446, 39608, 205070, 106196, 8806, 25710, 200255, 33122, 242375, 37429, 25933, 53645, 214131,
       71046, 138149, 195345, 78862, 24403, 174575, 79766, 186921, 83192, 50879, 173059, 93813, 55211, 111058, 67098,
       109345, 78498, 257836, 62420, 206394, 185135, 129469, 111723, 31219, 57621, 133581, 44427, 85141, 229001, 237829,
       6601, 46924, 220444, 85634, 149572, 104657, 111598, 42039, 185909, 123529, 218578, 229336, 130720, 211604, 250675,
       36985, 188597, 142667, 75414, 237276, 50025, 59076, 133116, 166879, 73900, 179519, 227488, 20637, 176686, 81536,
       112217, 62070, 71191, 119219, 5384, 256441, 58938, 14026, 178199, 36756, 131810, 63585, 18459, 83631, 164144,
       89622, 110916, 159049, 40924, 223263, 138359, 119215, 10337, 217294, 87950, 248277, 87534, 84631, 69977, 11512,
       73321, 250120, 201633, 5999, 261190, 56564, 122148, 245757, 111693, 82305, 6061, 59559, 130293, 181478, 162224,
       70432, 99270, 95815, 93075, 171658, 43152, 7367, 130854, 16869, 82802, 242265, 66318, 100224, 40341, 114687,
       102041, 111582, 231179, 100940, 19524, 204685, 29659, 82975, 8933, 127847, 112527, 16009, 130440, 133933, 48316,
       9908, 131740, 66220, 122741, 237379, 120976, 37938, 179515, 33168, 90345, 221030, 49879, 44316, 229271, 224680,
       126845, 129675, 157633, 13304, 82238, 170924, 65240, 175844, 32995, 56105, 21020, 34022, 42732, 143114, 27183,
       84611, 113050, 76757, 17177, 193567, 155250, 93934, 98689, 66072, 128528, 44787, 171431, 105455, 31410, 219296,
       112724, 30366, 18057, 47138, 80531, 39357, 42583, 140845, 252195, 67770, 147310, 198664, 5993, 125527, 179835,
       123909, 257267, 258743, 18846, 55102, 8907, 118359, 190072, 185648, 10955, 75760, 38880, 107823, 24778, 7929,
       19918, 8438, 240098, 4997, 258715, 192032, 94304, 241493, 117816, 36734, 244691, 163143, 93650, 115274, 160643,
       72756, 35114, 47667, 14261, 157876, 212319, 122176, 40099, 150116, 59285, 189665, 2862, 96265, 124150, 66253,
       65669, 201435, 116020, 79214, 227343, 95834, 39685, 36778, 30261, 26261, 164040, 233700, 71115, 199675, 97977,
       57700, 99935, 239414, 51132, 240939, 128368, 88154, 190682, 91976, 90506, 22353, 71168, 6018, 218521, 36617,
       44399, 240739, 213138, 53970, 210534, 260970, 12699, 222651, 133931, 30919, 261724, 140937, 6768, 208049, 111995,
       130579, 116483, 175134, 96542, 6739, 28765, 11462, 69969, 177018, 2654, 33215, 183981, 94278, 128592, 138050,
       57565, 208546, 34536, 103127, 4784, 68746, 121041, 223144, 145998, 78551, 131226, 116177, 24524, 177001, 232236,
       102523, 193119, 148392, 125280, 41104, 139858, 76052, 19728, 80738, 89390, 201696, 55018, 44233, 126675, 73577,
       50007, 156760, 176812, 96292, 166289, 27707, 121604, 213230, 170469, 82442, 200773, 141300, 103526, 247742, 17969,
       22496, 142869, 47013, 27781, 236421, 257758, 69734, 222946, 77620, 23141, 81549, 62279, 83230, 19357, 199419,
       38227, 148456, 93233, 103747, 200119, 34687, 105920, 167602, 37391, 60789, 144022, 29965, 23699, 55458, 11818,
       84774, 22989, 196237, 130126, 152058, 179219, 81604, 61387, 158149, 4689, 15797, 33929, 2266, 198178, 183367,
       41990, 126929, 45240, 25661, 203196, 108673, 106568, 64965, 60461, 110730, 96571, 42126, 33897, 178151, 73816,
       42682, 239128, 236986, 30965, 95040, 242400, 119063, 135593, 192413, 65883, 66476, 123444, 86001, 51024, 55335,
       54458, 17843, 154419, 82708, 76643, 81321, 50574, 219136, 11778, 44522, 87081, 164408, 83162, 149985, 249109,
       77471, 180537, 2534, 38473, 77596, 237252, 19575, 104878, 168651, 48310, 22128, 215180, 54420, 205771, 243080,
       82402, 239324, 138910, 119869, 29912, 150248, 4742, 213328, 34173, 31937, 35713, 110037, 25390, 192934, 114369,
       65836, 192082, 112111, 56321, 195082, 136688, 95556, 109950, 233329, 31773, 246019, 73791, 77922, 23539, 95755,
       115848, 246219, 249302, 119364, 92465, 40501, 125669, 213833, 162101, 101352, 232187, 159034, 118749, 169567, 164739,
       30740, 112840, 165917, 25897, 86386, 100862, 850, 106461, 54671, 92647, 132020, 42178, 122875, 183301, 226748,
       24501, 259403, 95370, 83485, 122766, 221782, 97839, 255213, 26359, 121584, 66330, 31366, 84785, 69017, 235302,
       127178, 89165, 93649, 45176, 261603, 175089, 45865, 218307, 231583, 71173, 192862, 168793, 50266, 93994, 204055,
       186, 228866, 247327, 95914, 215711, 2731, 98529, 14695, 253675, 97907, 119376, 151430, 45222, 143868, 75651,
       68457, 137847, 87133, 47182, 117695, 251358, 2101, 241965, 109465, 73721, 80643, 116535, 16221, 146282, 234889,
       10491, 46250, 107530, 99024, 202881, 180687, 1245, 261347, 251490, 125699, 40559, 25877, 67535, 144463, 161669,
       128845, 243690, 133290, 7601, 224872, 37062, 76484, 100933, 7825, 45786, 260377, 323, 110556, 245707, 22885,
       47346, 48851, 58566, 34142, 164616, 137424, 112401, 53339, 213194, 49106, 138943, 253853, 2206, 98802, 71762,
       51155, 255072, 189131, 85789, 142303, 64403, 33339, 108388, 207729, 56621, 125229, 249200, 7433, 200960, 231266,
       77082, 130644, 137977, 99129, 23136, 233206, 54173, 184561, 249059, 55080, 191796, 197652, 11571, 95329, 223100,
       26468, 207878, 115201, 20273, 157635, 122204, 63135, 204266, 72392, 69370, 152636, 231233, 124379, 126061, 215678,
       9598, 157215, 68375, 78625, 234612, 249002, 69009, 56354, 35565, 67663, 184709, 256170, 114446, 192444, 16578,
       26940, 88717, 171901, 5344, 61502, 203479, 88115, 254554, 149886, 45240, 125603, 124419, 2305, 142998, 256216,
       32948, 24611, 3760, 40544, 20696, 80495, 80850, 62841, 169964, 22621, 43305, 148510, 54139, 225311, 116285,
       63239, 5623, 47514, 60193, 42824, 19133, 127656, 95464, 157275, 5964, 86889, 28792, 124645, 79202, 208636,
       76275, 176819, 114770, 104297, 163330, 138968, 56412, 110422, 144419, 59485, 115021, 125121, 115255, 21726, 61108,
       117431, 242823, 119439, 31285, 112477, 86497, 26115, 8260, 30488, 65042, 140695, 44698, 118001, 28966, 217140,
       42251, 190527, 7450, 85460, 225355, 43178, 92818, 224923, 163758, 102062, 116831, 145036, 73914, 185217, 125966,
       52750, 158630, 134268, 126748, 188660, 211164, 80128, 90307, 209288, 95494, 130919, 195490, 45217, 155071, 146406,
       87811, 151795, 31905, 33790, 14463, 220573, 32125, 89961, 22862, 93680, 17939, 255010, 68340, 65764, 117129,
       89558, 113215, 22852, 35315, 220688, 97837, 78475, 226953, 137387, 58187, 71128, 144260, 78244, 204136, 25840,
       38126, 49352, 121968, 93775, 154326, 30769, 105634, 202868, 85802, 34067, 202391, 74579, 39402, 245896, 178663,
       86658, 212976, 113807, 91171, 193977, 191222, 92287, 197612, 232720, 89482, 172600, 84555, 51486, 24399, 110266,
       51754, 68370, 40330, 33399, 119423, 255967, 20556, 132831, 189913, 90777, 131667, 176358, 12214, 115488, 220258,
       122918, 81425, 136902, 108355, 111986, 146818, 112394, 260137, 259408, 118838, 234584, 157976, 53556, 175825, 239817,
       110978, 198498, 82871, 20717, 107676, 33280, 2836, 166016, 144958, 102877, 74679, 247601, 9803, 195623, 256436,
       129567, 237291, 165912, 88446, 240548, 201849, 98756, 42053, 95461, 32218, 799, 144952, 88324, 231974, 86440,
       5664, 242120, 94819, 109815, 129174, 145797, 22232, 254049, 124288, 91404, 30549, 58357, 29423, 28379, 19411,
       8972, 77023, 246207, 63110, 88980, 210523, 22188, 178822, 74260, 95609, 178897, 2804, 31138, 60351, 217528,
       44888, 147558, 126680, 74375, 104213, 47475, 37351, 94916, 192945, 49543, 172587, 49142, 106905, 46340, 50459,
       23489, 103127, 232124, 10774, 85652, 8646, 43038, 134116, 69862, 55623, 238972, 14299, 71127, 114669, 46966,
       48814, 83546, 161681, 103535, 80313, 125208, 5153, 179277, 13774, 56592, 166400, 78092, 50103, 12385, 56256,
       84879, 106940, 227533, 126651, 199462, 106480, 66895, 242561, 60114, 129351, 241718, 92877, 39616, 113427, 27204,
       4045, 248478, 17749, 21713, 210419, 184473, 51789, 212047, 141631, 41462, 135828, 169168, 12721, 20724, 32102,
       56709, 164006, 137294, 44317, 133804, 83101, 16071, 248109, 211209, 38812, 174206, 28331, 116186, 248157, 255114,
       39590, 39032, 148099, 93579, 148173, 3041, 80222, 61557, 246137, 55991, 128272, 23533, 31329, 148967, 214608,
       48367, 129675, 123959, 77608, 177388, 175782, 45973, 242578, 137037, 28166, 237329, 216766, 15265, 1421, 140132,
       115312, 212883, 102017, 57712, 184118, 228329, 81947, 79992, 152946, 64279, 17525, 161749, 114369, 10143, 119614,
       71687, 221506, 120903, 63016, 257428, 243163, 121189, 78909, 179233, 94331, 40562, 76019, 14621, 18207, 108176,
       23292, 20745, 143901, 103169, 201298, 18441, 109556, 184646, 76118, 71459, 66152, 46030, 72673, 145654, 70136,
       82828, 188037, 181062, 57555, 205197, 160756, 89155, 15601, 13072, 14218, 224235, 213297, 125996, 207842, 87204,
       98324, 76825, 22715, 82729, 69538, 99650, 41460, 252878, 228940, 21096, 198613, 237796, 53653, 105107, 247523,
       86714, 48900, 125530, 83061, 158201, 70910, 50153, 141944, 231304, 80384, 176740, 199373, 106659, 161637, 28015,
       3445, 51820, 152731, 59063, 210237, 261688, 99425, 91987, 209035, 71584, 65020, 65941, 85390, 71774, 65800,
       67721, 211846, 220621, 130006, 256985, 42816, 7159, 92807, 5641, 64362, 59475, 15748, 11982, 39302, 21037,
       20943, 108317, 54026, 50205, 157985, 73867, 20386, 249265, 181279, 126312, 105962, 228046, 124097, 165049, 202795,
       44054, 147731, 26473, 83853, 3175, 37034, 69960, 30208, 171368, 106900, 161666, 227783, 82240, 144433, 120677,
       33, 23518, 64367, 100030, 207898, 186062, 97890, 229888, 96193, 66810, 98163, 129338, 118347, 103719, 207336,
       119071, 225724, 242355, 68670, 39659, 131934, 79690, 61194, 192972, 130616, 36965, 70522, 39166, 253183, 48400,
       42548, 60603, 147855, 23956, 141812, 4203, 117423, 18730, 1394, 97581, 152632, 175728, 13846, 214823, 165590,
       128682, 55117, 106554, 95808, 160697, 115951, 111479, 166186, 59335, 6311, 57734, 53454, 66186, 62276, 240579,
       91566, 176852, 71858, 71165, 24833, 180264, 87378, 214073, 30783, 107200, 102042, 246843, 49065, 28184, 198675,
       111236, 183671, 98547, 21353, 193903, 175392, 35505, 151258, 64458, 5681, 104096, 26655, 47766, 39587, 200206,
       49795, 132083, 173734, 105548, 112123, 126944, 85607, 37543, 70530, 57242, 25989, 165772, 85473, 231579, 164504,
       6918, 109921, 237394, 23628, 144380, 206803, 82175, 81076, 127255, 84065, 60746, 130479, 101467, 99086, 206614,
       52821, 258059, 117653, 94706, 160052, 119989, 89650, 175675, 164034, 126273, 235114, 65967, 28197, 143927, 151,
       72309, 194977, 134498, 78874, 122934, 21288, 130894, 203312, 25269, 26369, 159352, 166899, 68579, 60899, 130852,
       45375, 52599, 232313, 68929, 221033, 247799, 30425, 146835, 260124, 6240, 170305, 221957, 75047, 78426, 125765,
       44021, 25398, 194465, 23847, 110994, 100495, 42458, 231346, 139255, 6459, 66732, 122382, 124576, 95553, 61174,
       76172, 57543, 154649, 106793, 94529, 137399, 55458, 248614, 125765, 118399, 68185, 144451, 63349, 127385, 5894,
       75228, 42276, 92396, 64460, 110245, 238629, 96112, 66268, 247832, 74272, 195403, 11526, 35599, 3699, 66294,
       19076, 41274, 117301, 79445, 245340, 126616, 64117, 208645, 163700, 12579, 190452, 43244, 51854, 97642, 122655,
       67472, 203209, 249232, 108382, 144164, 135455, 9974, 188111, 252416, 45677, 257500, 51828, 107827, 48055, 42505,
       84990, 58087, 58020, 38005, 109354, 210361, 110799, 200569, 256730, 64656, 255902, 196094, 65319, 256664, 163944,
       128003, 67036, 111798, 124140, 119095, 56882, 46993, 156204, 252922, 18425, 258880, 226733, 42685, 207076, 62079,
       3995, 131568, 236698, 2722, 23185, 216349, 51841, 230016, 92068, 123341, 91802, 256564, 114210, 144029, 203098,
       67035, 218923, 156763, 74085, 92335, 189054, 777, 187507, 210208, 28246, 43908, 117907, 3247, 50951, 199504,
       98899, 1475, 190447, 19090, 22485, 227949, 113907, 194462, 149924, 84321, 210879, 176488, 30070, 95621, 213054,
       20672, 188062, 78240, 82264, 6501, 2714, 118074, 132298, 188694, 94156, 238711, 229994, 45684, 185262, 35259,
       76989, 142239, 22523, 40732, 41139, 207753, 130960, 139465, 4001, 98151, 222851, 66755, 80528, 60368, 37980,
       55477, 110719, 78080, 81022, 119796, 235506, 44776, 78784, 179298, 3783, 97579, 212929, 51785, 11220, 97943,
       121959, 257421, 54117, 82090, 140796, 5768, 11004, 63416, 4633, 115997, 231445, 158343, 35241, 252773, 28801,
       31951, 93060, 110756, 38940, 80598, 206433, 75655, 13498, 186766, 71393, 93790, 145798, 64410, 152999, 73077,
       94048, 259987, 180667, 41489, 61216, 70639, 102506, 199484, 32460, 22979, 200023, 85802, 102579, 176178, 11469,
       87006, 240678, 113839, 89549, 125710, 235570, 63118, 43743, 134809, 87425, 58953, 254152, 10459, 41546, 84429,
       111614, 133172, 208248, 7280, 180089, 183953, 19495, 222083, 169330, 75600, 257077, 83893, 96916, 36251, 208144,
       9994, 116665, 23065, 120686, 127327, 184303, 127612, 183957, 229542, 79423, 26496, 154478, 63077, 142130, 15830,
       97176, 31930, 231424, 43038, 119245, 45082, 64653, 40870, 23864, 120081, 195922, 240486, 125259, 175085, 67863,
       121512, 210548, 149880, 34399, 155460, 17011, 30470, 47720, 133185, 39015, 126385, 44885, 57843, 138968, 146417,
       41178, 144475, 74272, 49048, 214843, 144666, 81348, 33184, 100202, 99945, 200683, 217858, 96411, 22062, 241985,
       106748, 32973, 150198, 4218, 124282, 2998, 6256, 147660, 176999, 103466, 897, 109716, 69871, 185440, 156214,
       75778, 14258, 95865, 6892, 174310, 146954, 33464, 128593, 258065, 83670, 98421, 249435, 112614, 180538, 190463,
       120190, 222254, 249776, 65590, 257991, 36667, 71496, 104499, 96996, 109189, 126155, 23449, 70467, 139373, 230572,
       67745, 178430, 192013, 118631, 45874, 136158, 103538, 16151, 210335, 119153, 250131, 81491, 28606, 20437, 227281,
       68730, 247408, 18542, 110424, 132864, 209671, 14568, 96479, 246800, 104157, 251104, 128916, 23982, 180174, 116042,
       105921, 194367, 149299, 80216, 48991, 111331, 25327, 217022, 183792, 62043, 125565, 71932, 89378, 176679, 99510,
       83080, 96318, 40987, 56000, 37880, 257666, 117881, 201766, 172846, 68060, 234425, 229814, 66305, 10106, 97697,
       8159, 81087, 168302, 120864, 42921, 64222, 23215, 6000, 111883, 69251, 51290, 157593, 105325, 55745, 30400,
       28239, 233810, 189831, 69123, 228553, 175505, 31547, 13742, 10439, 99574, 194707, 231553, 73969, 85342, 108272,
       112194, 122676, 131288, 117251, 132789, 227401, 85030, 208407, 101030, 95078, 126200, 120276, 71987, 98810, 146660,
       50387, 220961, 88339, 84950, 29466, 159237, 119051, 54121, 171830, 54615, 34294, 184265, 41210, 92006, 125721,
       50913, 54109, 34954, 57068, 114868, 30874, 9641, 207405, 197970, 65331, 201565, 2834, 64790, 198474, 150655,
       77128, 133529, 260273, 47555, 143401, 174257, 80361, 62604, 122557, 115109, 148955, 139441, 125235, 129411, 164537,
       76495, 57774, 255625, 5582, 126227, 69072, 127039, 183666, 247838, 92518, 197144, 76716, 44035, 112025, 121160,
       19288, 66631, 249015, 18798, 43081, 141571, 21986, 155923, 170992, 5973, 73807, 110334, 118247, 40321, 185953,
       70879, 150421, 176419, 91745, 21009, 17401, 108541, 219814, 202781, 103748, 226173, 39896, 115684, 231817, 117558,
       126779, 261589, 51366, 57549, 226391, 159899, 124562, 97068, 146036, 94803, 15757, 69050, 9262, 162801, 242643,
       89362, 177540, 150633, 90009, 85460, 254152, 118732, 250561, 209769, 48880, 251780, 181582, 76665, 136357, 202905,
       1597, 117096, 28869, 43525, 200839, 220448, 8158, 107393, 226794, 68402, 244917, 139526, 107144, 130664, 250404,
       27058, 224537, 141658, 69132, 197321, 238456, 26739, 214959, 84507, 15818, 230387, 60713, 66977, 97389, 196959,
       10374, 44052, 5412, 76985, 195615, 35248, 4107, 121541, 254228, 13987, 90385, 90666, 72089, 70888, 105773,
       77516, 249672, 26851, 3799, 98278, 29631, 75153, 168390, 4653, 109904, 53215, 7199, 94675, 111670, 208184,
       17194, 181912, 130425, 77656, 219415, 251348, 88113, 125747, 205488, 4879, 253775, 87810, 112112, 33981, 169875,
       118786, 73478, 85689, 111470, 125927, 51910, 108086, 25106, 32951, 97644, 20576, 100005, 83025, 53268, 198952,
       88948, 261828, 224334, 105695, 221220, 46303, 86834, 261602, 130487, 42955, 216967, 193155, 49277, 255218, 212085,
       117579, 30538, 87135, 2244, 59252, 79936, 91595, 212657, 190636, 125144, 158164, 254229, 92566, 193643, 227387,
       130274, 8420, 121301, 90117, 232222, 53667, 4504, 8117, 110962, 108397, 219993, 36422, 37307, 3097, 246909,
       58465, 160610, 258507, 40906, 134113, 87870, 35199, 242171, 4370, 56545, 54628, 145952, 49643, 186082, 241852,
       83012, 250242, 123608, 106581, 92855, 145712, 38940, 1035, 161240, 28012, 225166, 176125, 87411, 77841, 252039,
       87860, 50244, 200853, 118113, 19345, 27385, 2090, 8654, 166179, 111809, 195471, 154343, 68288, 208879, 174334,
       81435, 80591, 116686, 11976, 62247, 261482, 56703, 184675, 150306, 29792, 257195, 34673, 33321, 205296, 60802,
       66072, 197884, 224201, 106490, 59331, 98494, 97488, 223890, 231982, 77463, 143297, 181424, 70702, 162885, 248649,
       56007, 224840, 157908, 127495, 10919, 134593, 73425, 146399, 49783, 33287, 231672, 71101, 30158, 120663, 100049,
       80131, 69323, 240576, 68528, 13017, 260017, 1008, 253343, 139552, 108798, 86104, 257824, 92290, 190110, 127578,
       86747, 75669, 162246, 9015, 57243, 70917, 47455, 100766, 139097, 122602, 111064, 222008, 113061, 77867, 141785,
       37426, 179294, 7143, 20586, 5782, 4310, 58862, 224584, 139434, 46639, 104698, 106744, 89420, 203331, 96066,
       126672, 142456, 58980, 47579, 85472, 158715, 8155, 221972, 130101, 117652, 16594, 25199, 4974, 38546, 46698,
       124880, 244232, 37046, 87107, 197863, 38194, 123429, 23050, 9015, 26169, 208259, 234817, 5334, 158220, 144703,
       63990, 172562, 59565, 59064, 29411, 32585, 43449, 93124, 13458, 125521, 248882, 109298, 107817, 182174, 220148,
       86714, 230347, 114811, 21346, 42467, 192729, 96249, 62327, 232409, 95290, 255973, 199221, 55714, 140418, 2521,
       121213, 141232, 48858, 21886, 32762, 165548, 35040, 122940, 105816, 8286, 246571, 37079, 104261, 91223, 145966,
       81495, 64554, 22583, 41279, 224328, 195475, 21471, 100798, 53541, 5262, 65146, 64527, 21855, 176992, 2771,
       59412, 242526, 103113, 32397, 256817, 209629, 33945, 81778, 140858, 114763, 143007, 237686, 67520, 32803, 163482,
       95584, 134905, 10510, 4680, 184945, 125824, 47862, 181234, 177732, 62805, 179490, 123911, 24434, 7876, 106767,
       15753, 195486, 30235, 114072, 119761, 245475, 123133, 47769, 202781, 10329, 92150, 127448, 45746, 152224, 129642,
       125604, 108488, 225091, 10900, 45792, 173259, 84363, 94902, 244676, 127430, 262022, 53630, 128217, 192069, 220508,
       61764, 48346, 196636, 21331, 223099, 7348, 26487, 156062, 236271, 116601, 218644, 73922, 119496, 30079, 84394,
       79676, 178, 190934, 100424, 71573, 136946, 96984, 70514, 217590, 86746, 73529, 51745, 108432, 221519, 72239,
       89837, 161715, 94328, 69992, 196665, 102975, 31058, 90271, 42470, 97502, 237718, 255021, 62054, 117496, 111902,
       38638, 245263, 146840, 105112, 184091, 178097, 91319, 169089, 146110, 122858, 254598, 246445, 21684, 200970, 58059,
       85090, 141011, 109835, 32012, 250494, 170187, 118434, 112472, 194196, 13041, 153937, 164250, 86004, 115420, 136377,
       103689, 49202, 95319, 46519, 207401, 17545, 125060, 206134, 150392, 111506, 254880, 1513, 38616, 54991, 156840,
       988, 111700, 191508, 38883, 117804, 106501, 36871, 242741, 145150, 116649, 115614, 133967, 126762, 132926, 258216,
       9232, 186080, 153023, 61773, 145690, 156286, 71870, 254728, 75063, 12178, 30742, 163795, 49479, 99544, 127045,
       41560, 164262, 187369, 70261, 256501, 47874, 86663, 160854, 24094, 92207, 52534, 116811, 17924, 197775, 226927,
       106554, 178569, 179316, 88937, 225687, 79204, 116532, 216920, 253930, 58895, 98561, 133592, 117163, 240904, 253782,
       113478, 195497, 246303, 57463, 49285, 250101, 49957, 56786, 46892, 122265, 140620, 237220, 93738, 18896, 199463,
       121666, 255340, 242693, 104461, 20504, 197862, 79861, 218618, 90534, 15185, 14467, 14574, 38204, 250273, 38403,
       126988, 29355, 189813, 41867, 76892, 203826, 12223, 26815, 96272, 92740, 113630, 206625, 96207, 106339, 31422,
       37415, 134824, 50391, 39016, 121025, 215927, 61458, 194352, 176221, 2855, 241493, 37905, 103458, 38171, 223277,
       41561, 120986, 43349, 111904, 114637, 10498, 105202, 98204, 98224, 86691, 75310, 6464, 42581, 261771, 228152,
       67674, 168917, 194810, 58304, 173133, 130429, 44417, 242901, 41624, 111166, 241096, 226377, 63374, 62725, 148280,
       109146, 178749, 78756, 13791, 51338, 260376, 18484, 105143, 186134, 128099, 85729, 109003, 77039, 258980, 28005,
       66816, 139105, 96497, 68571, 29231, 69354, 28215, 185794, 149206, 94201, 252724, 245387, 11112, 95922, 7920,
       75146, 179758, 102281, 74811, 211735, 81208, 119824, 132416, 73834, 68967, 218440, 246947, 17965, 21413, 179709,
       75071, 239913, 48796, 11970, 130286, 41568, 26711, 174477, 240279, 4077, 121725, 177870, 67278, 109167, 73871,
       11079, 225169, 13092, 61524, 120581, 195670, 122282, 254717, 121139, 94340, 148878, 190379, 10146, 131849, 2600,
       29387, 164759, 8982, 88298, 73583, 233874, 117270, 94982, 40278, 4314, 184812, 171379, 106489, 155906, 184842,
       73638, 18067, 245143, 71577, 73974, 57260, 125542, 128316, 216727, 97995, 72001, 18308, 111426, 204544, 28395,
       46398, 237840, 258447, 72661, 158219, 128826, 80662, 118738, 157288, 42150, 170454, 53691, 74743, 147386, 9233,
       31018, 234330, 79357, 18792, 140498, 63213, 49017, 7818, 47782, 96900, 44621, 236828, 120086, 126319, 247163,
       59993, 130064, 219296, 84256, 48881, 235044, 13505, 74142, 129447, 118549, 229051, 51364, 74528, 23981, 53829,
       102280, 129706, 247462, 104128, 261380, 109789, 33617, 108934, 129773, 69359, 250066, 93799, 125892, 523, 104025,
       11748, 151796, 204056, 89528, 187756, 153322, 126125, 229962, 55901, 39397, 63624, 38343, 112911, 184013, 29053,
       122376, 94841, 140848, 97922, 21925, 38549, 30320, 174207, 256398, 43778, 37281, 158780, 4693, 156195, 88057,
       108980, 62473, 235359, 111360, 62243, 12257, 82930, 158793, 45761, 46206, 139072, 225221, 10067, 203165, 127110,
       98704, 201076, 185517, 95227, 63241, 245331, 119616, 167176, 242659, 95752, 76823, 49945, 108618, 184410, 101915,
       97773, 200193, 152786, 82665, 113022, 120780, 55963, 88924, 86883, 118242, 83854, 50586, 85323, 197304, 139266,
       52213, 59968, 65284, 10940, 127784, 55945, 38103, 69959, 47634, 71267, 91904, 118325, 36128, 20766, 189613,
       28997, 199104, 55724, 69126, 137017, 10106, 22258, 181502, 141742, 104911, 91178, 252934, 63487, 26825, 242629,
       75217, 89524, 128813, 19317, 214866, 122114, 42542, 227924, 175432, 53751, 72080, 70570, 105934, 18906, 54465,
       100946, 91490, 226455, 29226, 27151, 173552, 80763, 216159, 223165, 31910, 81717, 18885, 129531, 139248, 114555,
       124796, 204722, 131657, 73828, 61197, 3450, 91606, 146251, 1327, 105045, 21772, 224208, 94502, 184788, 126947,
       91727, 248040, 3113, 125639, 154908, 194924, 78178, 182128, 187236, 83401, 121582, 147356, 111315, 92709, 45663,
       87803, 245322, 190662, 96066, 247629, 234438, 30692, 251143, 182171, 48662, 183049, 74959, 19307, 21491, 239852,
       66291, 180370, 52352, 59733, 26702, 131588, 130700, 32608, 246602, 80112, 89270, 262088, 103080, 234845, 217161,
       43779, 254522, 80389, 108992, 81178, 18444, 80620, 109242, 159082, 91356, 46894, 58889, 38591, 165393, 217568,
       71911, 34413, 78731, 83104, 129546, 34122, 77213, 214263, 10355, 119956, 70816, 153878, 117738, 103463, 23693,
       127268, 215596, 38861, 87481, 32401, 229661, 127390, 191067, 73618, 109114, 145862, 55649, 35498, 133771, 190437,
       56024, 222318, 244704, 31246, 150518, 137086, 550, 34148, 6983, 24647, 242790, 145856, 532, 60074, 114750,
       94350, 174799, 59380, 55775, 165536, 81536, 40969, 208306, 221306, 99840, 73567, 123333, 109115, 185210, 196919,
       127834, 120882, 115600, 84150, 1198, 37513, 60493, 137272, 181324, 40011, 157952, 84342, 29139, 181487, 11299,
       27908, 165198, 89103, 53633, 70706, 88552, 129995, 110404, 169230, 111, 234836, 155873, 25848, 44921, 126847,
       24693, 11793, 197663, 93994, 74765, 126963, 46200, 230218, 258252, 59934, 23115, 187729, 19480, 121118, 30784,
       53083, 202343, 164272, 13526, 158792, 186473, 69867, 13062, 175694, 12836, 256226, 195171, 103613, 134882, 215185,
       74265, 162613, 144351, 94891, 240425, 182266, 54855, 204428, 28035, 50002, 216737, 123967, 12872, 114165, 34313,
       68662, 210272, 157602, 67436, 216990, 67970, 61355, 18656, 213476, 97061, 58483, 49327, 109118, 4383, 84020,
       98407, 132192, 164234, 18856, 202018, 251955, 81534, 153092, 68079, 10528, 28864, 104223, 91045, 139581, 9559,
       50048, 108544, 134690, 17366, 236767, 89832, 112990, 191345, 159892, 80479, 78909, 38831, 46494, 133955, 71888,
       4027, 123965, 151440, 70426, 86577, 211386, 121009, 16343, 92776, 78168, 182827, 158570, 127356, 49295, 218837,
       17884, 241427, 208137, 74488, 232435, 20308, 104611, 221850, 117534, 68883, 176871, 54275, 11936, 65381, 224581,
       76400, 8911, 139472, 80181, 186330, 140390, 95513, 99251, 250352, 99773, 135191, 208286, 101026, 188164, 30540,
       86958, 257835, 39656, 28286, 210718, 61019, 52983, 259257, 166524, 101728, 237966, 155646, 124967, 152454, 168669,
       10347, 193088, 192421, 70193, 226343, 151920, 40962, 240948, 229711, 29542, 217190, 123447, 66297, 161981, 124953,
       79441, 89665, 40961, 1280, 226994, 221492, 102263, 61821, 216799, 107463, 154850, 176385, 126551, 113979, 164135,
       23677, 87923, 109919, 77929, 50712, 195606, 55918, 168021, 209506, 43886, 145793, 199594, 74138, 185531, 152435,
       102548, 135474, 185530, 3021, 150583, 217994, 127061, 55457, 179287, 106152, 209505, 238339, 98455, 57211, 109126,
       99665, 129750, 13245, 50994, 253055, 200625, 98516, 107175, 10444, 50694, 195240, 35234, 117795, 79053, 189964,
       23228, 233891, 95344, 38318, 147216, 155009, 72264, 239703, 156312, 41839, 164861, 69453, 55605, 163634, 80382,
       64542, 216726, 53121, 112243, 248023, 207828, 68575, 224150, 41678, 47508, 88415, 78954, 32471, 71956, 141167,
       53565, 256348, 153672, 67598, 147502, 159719, 97794, 200949, 257132, 15866, 27575, 12622, 29046, 199103, 220748,
       49762, 2927, 159418, 47238, 36636, 39582, 51347, 53828, 73248, 104008, 109890, 127413, 42487, 148348, 161353,
       65784, 209270, 2837, 81776, 194670, 249693, 30432, 28030, 254340, 94200, 220668, 177709, 71710, 255564, 99229,
       58560, 131229, 133406, 106140, 3133, 82308, 31915, 107639, 118280, 115759, 167987, 55732, 73537, 204430, 235198,
       79845, 201795, 220991, 114695, 190985, 109566, 107162, 51920, 185964, 78847, 247328, 218446, 98721, 214622, 57129,
       56796, 13690, 41279, 71745, 235118, 187401, 8135, 172217, 201965, 11777, 224664, 203111, 108714, 117067, 161224,
       7821, 74253, 61857, 22203, 126404, 132212, 104311, 99162, 64735, 150, 52963, 201728, 37015, 78693, 35267,
       76551, 30135, 188901, 78046, 213232, 138559, 101862, 258470, 182197, 66312, 200809, 223651, 66768, 84369, 66640,
       95067, 237963, 31973, 65355, 184981, 187152, 79756, 37669, 153594, 117673, 11186, 214572, 52618, 258597, 34361,
       50479, 29699, 194490, 465, 45471, 247386, 80403, 1821, 243761, 3902, 69061, 59081, 66079, 196829, 180167,
       105412, 139249, 223508, 72079, 66730, 27814, 35341, 196987, 103759, 103044, 174938, 48223, 35352, 91005, 177425,
       96079, 246832, 191409, 79987, 208729, 51432, 22281, 197815, 207149, 118637, 185399, 173088, 26298, 201539, 157597,
       129707, 41151, 217064, 958, 52525, 137887, 34535, 76862, 248308, 26196, 23300, 129021, 1834, 37816, 87348,
       95992, 242590, 48054, 90888, 185265, 199930, 103855, 6710, 227516, 33645, 260015, 253848, 58239, 235672, 176269,
       86391, 85853, 190705, 57641, 88432, 21864, 91399, 231569, 101619, 83096, 42622, 74133, 15027, 30628, 80736,
       102372, 231726, 86709, 94460, 128906, 110558, 85961, 137587, 71184, 20328, 112502, 5569, 35126, 217720, 42416,
       51534, 131041, 172182, 36690, 245201, 149061, 29859, 144289, 44540, 105559, 220343, 110272, 83654, 98826, 250996,
       74117, 147646, 121079, 29616, 19324, 120103, 120334, 34385, 90014, 25058, 194851, 205233, 104195, 211987, 66440,
       126703, 188683, 128643, 95301, 130601, 110053, 130135, 258311, 187907, 85334, 149947, 145860, 28502, 252223, 169139,
       26715, 7518, 104215, 42541, 75986, 161310, 934, 143133, 92358, 89351, 152533, 239094, 35214, 215971, 189354,
       106847, 182615, 146684, 47077, 125214, 41588, 62908, 224791, 110658, 126574, 203861, 233746, 31741, 258083, 243150,
       94536, 56900, 139941, 98974, 209421, 145931, 28966, 175768, 84451, 65666, 172325, 49987, 45901, 174785, 189653,
       101175, 77367, 223554, 81590, 35020, 73925, 62388, 13360, 159852, 102152, 183992, 175594, 30822, 81493, 70023,
       98778, 190613, 73064, 113426, 89609, 235254, 115162, 180862, 205147, 102717, 174374, 16803, 53479, 61052, 130541,
       128687, 141860, 49266, 49754, 25711, 234570, 83705, 238108, 83605, 21112, 82488, 80632, 128509, 104344, 89183,
       92272, 220922, 6585, 98746, 183922, 259863, 8621, 126895, 240245, 100062, 183434, 24304, 101544, 143999, 151946,
       88050, 155920, 147921, 38261, 46372, 246450, 64184, 171234, 16457, 14474, 223849, 541, 61811, 225437, 70546,
       31958, 125831, 59692, 45756, 220256, 260542, 21312, 94563, 73671, 30153, 179854, 52177, 10036, 1316, 34681,
       120573, 81763, 36258, 69521, 259442, 111606, 52001, 200188, 50413, 70127, 91481, 254914, 82351, 170405, 3197,
       120832, 130339, 46758, 23421, 168464, 200077, 38738, 172255, 30082, 127898, 172987, 17861, 48653, 1873, 73352,
       2957, 52609, 45080, 19351, 243234, 196742, 3452, 69813, 8659, 129751, 54034, 1214, 36552, 41921, 209836,
       121050, 156299, 259560, 130532, 211271, 101118, 78622, 101852, 214705, 4351, 28156, 113875, 10694, 99137, 29719,
       63122, 220366, 104599, 53237, 203968, 11161, 79452, 228543, 73576, 57520, 173045, 13714, 122431, 84092, 150464,
       70089, 105900, 153883, 90928, 16338, 239233, 117504, 30842, 199578, 19250, 207227, 64589, 30111, 204625, 150894,
       14066, 123591, 233670, 18302, 179375, 174619, 67185, 106355, 128926, 42097, 159339, 91798, 55466, 28946, 152816,
       128776, 237825, 174140, 20539, 144775, 104033, 70885, 83818, 230207, 12959, 62923, 205890, 41745, 248714, 241025,
       69143, 230127, 208862, 124076, 240178, 55586, 51279, 17149, 125432, 8507, 118092, 70074, 50877, 25508, 120727,
       19102, 153984, 124400, 30145, 52060, 13515, 81014, 98083, 173841, 8837, 99874, 135670, 60912, 71350, 38139,
       79883, 91488, 177260, 55293, 215798, 24191, 2506, 243539, 95947, 129173, 260347, 205015, 48118, 156724, 154233,
       102049, 175386, 84012, 42683, 35920, 4679, 62261, 103906, 186045, 50916, 185221, 155739, 44897, 79138, 190428,
       2864, 27187, 220137, 47188, 174159, 178973, 116587, 60823, 21675, 90491, 61781, 23333, 19060, 226751, 64446,
       77483, 227741, 202152, 116946, 126687, 183206, 91754, 225920, 64547, 19488, 94548, 204776, 113748, 141823, 11933,
       39523, 256091, 11044, 59516, 175213, 189340, 68962, 153039, 35800, 111477, 157718, 181108, 122107, 172386, 246799,
       121851, 121109, 246883, 1042, 149539, 173618, 120833, 201217, 49296, 7128, 159490, 116218, 34835, 127073, 92720,
       67500, 127951, 38255, 62904, 214934, 71595, 79260, 136866, 141032, 62841, 255876, 243218, 122470, 128209, 227290,
       31529, 57313, 98816, 35916, 252889, 139886, 120682, 252367, 237455, 10058, 105262, 203042, 79896, 93336, 8470,
       89356, 129685, 8854, 66262, 95623, 40282, 90994, 94587, 23088, 22643, 77846, 216961, 111756, 55578, 40314,
       18353, 117222, 257971, 52535, 75681, 85912, 9864, 43075, 40162, 71461, 237639, 131307, 87784, 241820, 55017,
       123367, 210280, 45967, 96906, 71792, 256635, 70923, 115727, 137991, 122239, 256291, 135589, 62709, 176484, 182900,
       73558, 91059, 31384, 78131, 216588, 77201, 53736, 226133, 169553, 109901, 158129, 246001, 24271, 99786, 200540,
       72724, 72240, 182583, 94664, 146107, 68342, 118485, 252916, 153457, 115856, 249576, 37725, 66681, 159178, 21043,
       84300, 119990, 93226, 51673, 138556, 51224, 61364, 261026, 73197, 118786, 18340, 177770, 121989, 61288, 38341,
       117363, 186494, 55563, 18136, 143025, 175975, 111422, 55795, 193460, 124303, 244043, 156864, 47349, 188735, 18079,
       67980, 1690, 16400, 102117, 150305, 127027, 73672, 184981, 33660, 130217, 228630, 195554, 59731, 68733, 154526,
       93577, 235678, 216551, 103886, 132625, 248530, 64762, 191284, 256902, 112326, 152405, 224347, 71585, 150622, 94703,
       53955, 234157, 21702, 14132, 174215, 112581, 51565, 132193, 214897, 96198, 136051, 97811, 120754, 223491, 84417,
       32988, 32197, 66708, 46561, 112650, 130338, 20179, 255700, 80026, 90534, 113034, 129789, 125853, 214407, 31906,
       84010, 233140, 97551, 80881, 119260, 12383, 72547, 8433, 83208, 11594, 18571, 26919, 95617, 137766, 149030,
       78911, 219616, 243667, 86701, 21770, 108012, 117808, 253646, 177816, 102755, 80814, 49266, 102356, 32487, 159977,
       121527, 217829, 196756, 129752, 197645, 159238, 76189, 233372, 4792, 14271, 86815, 240095, 60179, 19732, 23059,
       103232, 119922, 198954, 3634, 3608, 258204, 7456, 91834, 89918, 8802, 132344, 12798, 95818, 83601, 213185,
       65688, 239164, 53275, 48352, 50135, 225663, 13843, 114650, 103406, 95976, 50875, 155506, 42076, 185757, 124214,
       34776, 145886, 40597, 85500, 205097, 210415, 73270, 177134, 128354, 47501, 232690, 126879, 84081, 11999, 60305,
       35549, 143424, 44428, 104179, 260059, 181840, 30057, 76927, 103647, 20819, 45720, 79204, 102555, 235479, 50792,
       92784, 216071, 150263, 23938, 224348, 239417, 15236, 147664, 214303, 109890, 169168, 97628, 101790, 82905, 69234,
       42894, 73003, 83694, 86271, 65716, 185329, 16273, 242213, 132344, 66459, 196808, 258235, 2455, 4414, 197199,
       51328, 10940, 231037, 9809, 209268, 125937, 62278, 128764, 126732, 55270, 172180, 118704, 58246, 113825, 246498,
       5941, 174174, 65499, 47397, 203708, 9741, 99153, 223102, 181069, 48354, 90372, 163855, 93739, 4763, 208899,
       48428, 82644, 156671, 55474, 220220, 162857, 73910, 122424, 155273, 124607, 205211, 229340, 14268, 145873, 105564,
       4314, 19263, 236665, 79686, 42990, 172815, 124400, 14061, 107783, 129724, 259635, 88444, 63460, 98627, 138624,
       61352, 103347, 92614, 84536, 181235, 168735, 72828, 41653, 191356, 83111, 49777, 234464, 114556, 223531, 69296,
       97819, 220790, 4855, 65126, 187035, 87177, 60537, 130644, 189711, 83833, 230786, 164102, 59730, 87585, 87770,
       60002, 14451, 199270, 2137, 64791, 62550, 22814, 245004, 148562, 64030, 120539, 118860, 107826, 218676, 131304,
       36533, 80275, 62852, 68503, 241190, 36591, 45214, 228163, 54279, 13736, 227676, 131829, 125606, 25892, 204778,
       112023, 213259, 200893, 10288, 41696, 144941, 94343, 250627, 7656, 45557, 260367, 183021, 130396, 250062, 25814,
       39635, 256584, 50891, 31291, 242617, 11009, 74434, 144165, 113715, 109461, 172092, 195068, 25233, 218514, 165357,
       92982, 220157, 23796, 8048, 179218, 210182, 120446, 161126, 142076, 10626, 170763, 7530, 119830, 35379, 516,
       64331, 23016, 81941, 58732, 51992, 181871, 127573, 80091, 93091, 129811, 166445, 135693, 85220, 38620, 161722,
       16661, 204425, 192314, 66344, 190176, 215196, 69358, 122150, 219187, 67429, 136899, 21327, 74644, 113838, 67853,
       2454, 74890, 259770, 93221, 257487, 133787, 93374, 247973, 251307, 15134, 223968, 137366, 74742, 111201, 144679,
       74496, 62103, 5330, 89450, 37086, 229065, 11193, 64566, 260151, 82117, 10876, 91694, 36798, 188661, 249012,
       66453, 234873, 63454, 101361, 16960, 189880, 92490, 111193, 229511, 15584, 224482, 152445, 77487, 202484, 117979,
       127024, 10995, 59652, 20548, 21938, 243597, 111792, 62338, 120083, 92084, 100142, 201422, 101450, 42527, 142758,
       36956, 220687, 78709, 37734, 46596, 140251, 118753, 205024, 209159, 47163, 237007, 33055, 8259, 145041, 94967,
       78721, 107775, 176463, 16360, 26611, 257249, 104411, 121255, 185570, 84114, 259446, 244079, 114652, 39974, 250531,
       102870, 49283, 260050, 14694, 251688, 100238, 49947, 182374, 926, 101523, 42225, 83339, 54701, 204887, 143293,
       127449, 232999, 29764, 96434, 254869, 24518, 2031, 158618, 53799, 115341, 127025, 160926, 13212, 179506, 85502,
       18418, 190205, 85130, 96271, 101694, 73388, 113373, 41686, 151299, 70300, 109688, 105617, 37886, 85615, 93649,
       46047, 165451, 133792, 44943, 49862, 26058, 42818, 92385, 117751, 31838, 172098, 222463, 79805, 112152, 90373,
       118017, 242723, 13475, 40249, 237514, 251056, 24470, 103535, 149864, 109914, 13601, 201890, 97227, 6487, 29826,
       122006, 176003, 168895, 21695, 730, 32828, 18907, 80804, 75044, 70966, 61229, 16881, 80535, 12584, 164598,
       62937, 76905, 146160, 78507, 197907, 65370, 23642, 193217, 112135, 62863, 244838, 202421, 86257, 133207, 213407,
       56715, 183426, 86961, 89056, 136629, 129221, 59138, 142481, 197346, 43725, 147917, 108819, 39794, 31649, 30622,
       53857, 197833, 188845, 3026, 105650, 98634, 87624, 242993, 115198, 110769, 179981, 105575, 46481, 178919, 70669,
       6033, 171762, 23062, 129338, 170682, 24816, 34563, 119993, 103990, 16596, 126789, 41327, 48464, 52618, 226774,
       96804, 38910, 3500, 38524, 61915, 45288, 75327, 130637, 242471, 54468, 73293, 17758, 15435, 147323, 208610,
       43291, 99431, 151324, 95010, 59487, 3979, 80216, 150688, 132332, 15699, 155138, 246958, 21406, 260803, 108775,
       83982, 53181, 118899, 106615, 258260, 147685, 45806, 84183, 107838, 78028, 149648, 261704, 22366, 156359, 183219,
       40812, 188542, 13933, 2656, 224499, 155094, 100699, 121904, 214649, 52561, 41706, 104326, 106971, 55362, 48174,
       92847, 226842, 77904, 108625, 44144, 107672, 37441, 223645, 109789, 24262, 149819, 34971, 127389, 162958, 74406,
       94021, 154062, 215141, 109319, 154177, 213320, 1721, 109460, 147454, 46459, 260438, 226498, 97362, 123015, 162720,
       10221, 95914, 191697, 74362, 99417, 185644, 56239, 111614, 154040, 2309, 8080, 85577, 30929, 207315, 16294,
       37328, 67001, 166361, 14661, 185306, 83403, 82776, 211244, 129248, 31771, 150584, 255262, 36388, 37500, 203754,
       117733, 243674, 51417, 61226, 198706, 153953, 51397, 5368, 155412, 94879, 58912, 174637, 119224, 235820, 214946,
       3281, 147498, 212821, 58751, 147350, 4593, 80056, 87530, 233443, 41754, 184129, 80875, 101241, 6541, 151370,
       127333, 116012, 261557, 123656, 239009, 149696, 34862, 226335, 144457, 29666, 160125, 203307, 125500, 52135, 190459,
       60113, 92564, 67304, 27301, 261923, 220233, 92667, 132649, 81679, 37279, 141739, 229663, 35028, 156111, 21175,
       115244, 243944, 122433, 21296, 122576, 74592, 8440, 29433, 85069, 35282, 211048, 134338, 79553, 143956, 204061,
       16133, 97287, 56391, 61812, 224627, 45439, 82226, 86438, 196900, 111245, 171728, 195195, 30129, 122436, 122834,
       107131, 56963, 125663, 30789, 166057, 124373, 88705, 37773, 55137, 56449, 64582, 39139, 15031, 131019, 222377,
       93619, 246572, 99724, 28542, 152551, 176904, 23150, 101107, 226693, 46966, 26973, 153814, 85628, 15456, 79308,
       30670, 101310, 73199, 24072, 232052, 212305, 1304, 168199, 84986, 61819, 53483, 128042, 56183, 113262, 71326,
       30653, 134452, 24837, 7032, 77710, 65536, 56263, 111672, 10479, 103311, 162612, 194414, 93753, 120459, 185393,
       112826, 28260, 28004, 1256, 5778, 179903, 126670, 134399, 49102, 44749, 153819, 238196, 129813, 110081, 252634,
       33111, 88588, 247008, 61805, 56988, 47274, 46390, 2208, 84294, 46630, 70368, 214133, 110399, 157089, 10128,
       97834, 163386, 77311, 130043, 71543, 246455, 80414, 156367, 26283, 60719, 254188, 63751, 11806, 42300, 170464,
       130621, 78218, 36388, 72290, 59176, 179687, 91812, 257663, 60797, 53312, 141079, 18144, 71790, 50673, 21596,
       123545, 143779, 89772, 21812, 243418, 178123, 38321, 225279, 147735, 19930, 202542, 199883, 103837, 84657, 183688,
       8132, 103907, 17954, 10699, 163475, 115388, 39124, 57763, 199825, 67395, 176488, 95367, 53251, 65708, 193665,
       5874, 42853, 70240, 125500, 87418, 3834, 124894, 134682, 90546, 36615, 207617, 261868, 95882, 137742, 31113,
       75835, 9521, 74852, 31126, 142964, 233459, 34363, 91653, 98168, 64376, 112423, 241114, 54950, 58824, 13059,
       38172, 2755, 30051, 105842, 41930, 44814, 63106, 80619, 239725, 85832, 64286, 126399, 24808, 119593, 200227,
       69927, 240213, 102164, 41677, 198378, 72390, 68998, 22214, 136918, 102344, 105810, 255602, 100782, 260118, 113972,
       46428, 108189, 207955, 91000, 76097, 195482, 123376, 198279, 255605, 82007, 191473, 26649, 19452, 107922, 154668,
       89090, 201708, 131495, 13750, 7268, 161986, 114309, 66978, 36160, 67719, 189924, 219108, 50481, 43670, 137560,
       7471, 253853, 108543, 49910, 22455, 98262, 118385, 27361, 214849, 2750, 74262, 150495, 62213, 21846, 61866,
       122048, 197477, 211626, 51752, 157160, 232174, 56121, 221172, 193469, 75833, 6174, 214276, 60678, 32030, 128861,
       22098, 251887, 85097, 2432, 29259, 188116, 79929, 61245, 237106, 120691, 251913, 31314, 13941, 94278, 144850,
       27649, 260785, 142282, 48526, 188525, 17106, 106003, 120964, 83574, 35292, 127978, 216969, 115612, 166429, 94525,
       7203, 114962, 62291, 123333, 17370, 24712, 73498, 63174, 95180, 86347, 80707, 135253, 48193, 210003, 1031,
       102497, 145487, 113017, 21832, 44965, 219952, 6410, 254479, 175674, 51841, 51581, 75184, 111895, 158498, 71166,
       98949, 201937, 223626, 67784, 174945, 117893, 74991, 62599, 15330, 17025, 81927, 132463, 110189, 211470, 240035,
       103148, 99500, 213394, 86044, 232644, 76876, 61104, 155061, 201617, 126413, 158652, 177411, 115216, 125466, 205175,
       84466, 208049, 137210, 48732, 183598, 138249, 81005, 109081, 24104, 75424, 50625, 218411, 51674, 22499, 180346,
       40196, 97207, 125235, 53347, 188366, 59455, 75223, 187645, 188368, 56116, 128546, 130420, 34547, 61687, 20723,
       99740, 257945, 237669, 69660, 133072, 50543, 8870, 83622, 116211, 48275, 257169, 243708, 115987, 98740, 33151,
       98990, 95057, 258531, 42368, 157932, 160827, 122969, 142109, 134977, 10040, 130129, 109047, 125990, 250375, 256262,
       32205, 15173, 120245, 1191, 260151, 226111, 56860, 22796, 184942, 47050, 254845, 234398, 70659, 124279, 254496,
       104434, 160531, 236672, 110419, 23619, 8843, 52590, 4852, 13231, 56340, 194332, 91377, 19421, 249422, 22223,
       6232, 41993, 47388, 84045, 86822, 30179, 8445, 253875, 11969, 96184, 152413, 230535, 70659, 163443, 191785,
       26028, 175144, 48881, 70716, 92078, 164596, 23985, 229824, 102112, 57506, 42798, 95599, 104799, 254219, 135876,
       60544, 179732, 188987, 19490, 83112, 53402, 94873, 176418, 181066, 24480, 28798, 116187, 96803, 54823, 19983,
       62829, 173867, 146250, 59472, 220161, 30484, 111599, 76882, 34343, 92878, 21270, 259024, 4313, 179300, 223893,
       38820, 41881, 8593, 114153, 82014, 23115, 2402, 12468, 131307, 71467, 120509, 212769, 95397, 148402, 86831,
       81507, 241391, 209366, 99684, 124988, 195909, 95117, 231216, 131295, 90705, 222108, 22581, 107680, 228760, 75632,
       84631, 253570, 153399, 52745, 208897, 29993, 61854, 18574, 36958, 93942, 144366, 208745, 114859, 48213, 170888,
       35680, 68855, 184914, 44836, 180827, 86431, 121993, 229155, 210436, 75826, 182885, 259856, 23456, 231550, 162659,
       86991, 222625, 37457, 129861, 46465, 65223, 107931, 184969, 104849, 97745, 205062, 42247, 27269, 23872, 242945,
       114837, 103247, 141123, 68916, 51196, 182102, 116561, 5707, 174415, 43231, 50661, 137412, 8133, 40782, 3268,
       62387, 32024, 158399, 35368, 40511, 102250, 93746, 139845, 221266, 125449, 228090, 113151, 90567, 95404, 162168,
       116252, 53486, 133781, 59378, 200149, 198895, 101140, 129684, 31775, 110499, 102060, 235748, 93175, 233375, 251218,
       66555, 100778, 147674, 82033, 137027, 205011, 91816, 223592, 125838, 33172, 73111, 186029, 106113, 45321, 51822,
       124560, 245883, 158789, 60979, 222172, 23617, 91890, 72830, 12094, 96603, 120461, 103489, 86802, 28979, 180279,
       71711, 123595, 92247, 115559, 94555, 228810, 58841, 189172, 232368, 8008, 232446, 102495, 110697, 181738, 130059,
       88340, 19221, 190957, 111314, 6997, 77303, 18159, 180977, 250409, 4030, 222669, 251795, 122470, 89065, 68943,
       19363, 11666, 150370, 106122, 196730, 257368, 107899, 202779, 68958, 92891, 106966, 237165, 17204, 209854, 198242,
       87477, 71439, 18981, 116534, 93493, 159943, 55775, 74382, 173816, 54200, 126127, 54267, 58046, 85027, 63855,
       10783, 141886, 176987, 116919, 150833, 114350, 113925, 140600, 83694, 130797, 254443, 184171, 76701, 32695, 65486,
       98460, 49852, 183340, 26564, 160459, 68891, 87494, 88411, 74107, 85161, 205508, 104663, 118123, 60666, 124211,
       108893, 174002, 206812, 123006, 177258, 180563, 113879, 194231, 101739, 113861, 116966, 158189, 8352, 90144, 252432,
       110881, 242499, 239976, 79623, 106987, 89084, 49865, 161266, 61767, 7407, 127099, 246314, 88824, 14943, 232009,
       43018, 15688, 102797, 61312, 97151, 178361, 89355, 133615, 62907, 119508, 29734, 92081, 108191, 174955, 124949,
       59060, 174825, 97415, 50827, 134745, 98181, 31428, 107460, 164846, 48814, 188515, 170526, 14555, 18894, 16050,
       127284, 194299, 35809, 75224, 132963, 74038, 16751, 201176, 90506, 46242, 259325, 9098, 71701, 134907, 225579,
       69846, 101231, 11900, 4653, 130428, 93020, 124628, 166733, 175846, 36094, 10832, 101922, 2121, 93566, 19000,
       10019, 175411, 87230, 76047, 80310, 12468, 18059, 215945, 77328, 5468, 249573, 237337, 49758, 104911, 133458,
       81626, 145490, 144862, 14659, 17537, 127397, 41068, 132544, 34556, 54756, 190513, 120385, 20900, 197640, 23335,
       66332, 30938, 49796, 11169, 47395, 55801, 6097, 71395, 180702, 68135, 225769, 231644, 32492, 92277, 246235,
       12500, 219086, 140540, 55563, 18524, 256103, 119949, 85723, 187622, 94921, 92371, 31080, 106904, 107284, 26399,
       114283, 133781, 38284, 127484, 69027, 220127, 100040, 66816, 57531, 79745, 63738, 225205, 47897, 26472, 21312,
       23808, 89732, 115306, 90001, 231473, 228024, 130410, 22172, 103587, 61257, 167119, 135970, 94854, 26773, 259113,
       64892, 198601, 193192, 56614, 99003, 42896, 53779, 151356, 220305, 66142, 43631, 148920, 48089, 196134, 12709,
       98143, 56842, 192828, 114592, 152848, 38181, 115721, 142321, 73395, 29844, 242684, 10902, 117428, 157976, 82376,
       44767, 210517, 212210, 40541, 150557, 76465, 95257, 96981, 147476, 39937, 41599, 13646, 6942, 108191, 11274,
       48970, 217226, 56932, 94563, 246197, 216247, 42855, 24657, 182938, 82517, 148003, 51982, 86523, 46084, 133882,
       96172, 64626, 25527, 117588, 179432, 106329, 56697, 24654, 38858, 21814, 153394, 43239, 41802, 60653, 17548,
       56645, 6938, 260794, 93571, 47885, 68436, 1719, 247265, 34019, 41390, 162995, 113456, 102215, 138092, 12994,
       87930, 173248, 157301, 95910, 163005, 211976, 106405, 173322, 66978, 102660, 71341, 31243, 89415, 29348, 16601,
       57627, 82934, 190698, 128922, 52471, 119377, 74589, 147296, 187859, 26577, 95894, 262020, 38379, 148516, 49148,
       90906, 162065, 3373, 121207, 121710, 207525, 23425, 53680, 159854, 10793, 83857, 90923, 115544, 9837, 260091,
       119967, 82641, 114507, 36225, 155595, 97893, 49451, 155835, 98871, 86532, 42259, 188810, 43244, 154059, 234939,
       114970, 248043, 97480, 14100, 145679, 56931, 4978, 106342, 217022, 27326, 184573, 4982, 37498, 25497, 106207,
       14801, 134787, 124732, 8610, 46125, 111729, 99039, 3728, 200406, 21532, 15216, 103566, 119789, 160032, 163950,
       48234, 118390, 227844, 87897, 169002, 22602, 29543, 237499, 13077, 31499, 153593, 66579, 75328, 74616, 55502,
       73484, 154529, 232336, 100758, 229998, 86437, 99328, 27683, 116440, 87908, 101368, 121150, 58868, 115745, 45124,
       116738, 4380, 151116, 81602, 159349, 143726, 129787, 77736, 176983, 107396, 115546, 225537, 5807, 203313, 74542,
       42020, 231889, 171605, 74956, 234332, 250203, 94564, 119345, 195603, 72133, 184925, 121039, 103039, 180022, 242713,
       37048, 63364, 256539, 24105, 188843, 21517, 7066, 253644, 180011, 75145, 99386, 67077, 90256, 30506, 194045,
       42749, 25093, 4843, 80423, 185146, 102359, 6836, 92422, 31397, 13014, 151384, 115709, 91980, 105253, 77969,
       48243, 165780, 118822, 87993, 24674, 61354, 109015, 91927, 251093, 111754, 243302, 95896, 22566, 93749, 155482,
       63738, 110766, 32873, 96197, 63837, 77510, 101447, 48421, 167688, 102849, 13145, 130559, 29906, 91449, 115567,
       25235, 242123, 188592, 77334, 29947, 194535, 97135, 156678, 137834, 41830, 66736, 169123, 13723, 239683, 150262,
       93945, 100113, 160, 39281, 260611, 176668, 21805, 129761, 141158, 19362, 109658, 137170, 41275, 216062, 158134,
       77683, 130929, 65157, 46976, 130608, 6560, 2708, 49862, 248710, 12701, 257517, 47712, 38076, 220624, 209448,
       86468, 206014, 202114, 12912, 148821, 179076, 73486, 108816, 133571, 15713, 178483, 139626, 27736, 221298, 100512,
       22569, 24820, 206351, 8811, 207545, 13282, 87992, 142036, 10606, 60739, 60230, 258798, 108927, 219311, 15386,
       12961, 215004, 205564, 18970, 114042, 191194, 40168, 7278, 13714, 100383, 153784, 43923, 40076, 110223, 88445,
       53532, 67326, 66007, 39531, 205164, 216614, 10515, 41517, 10873, 123133, 116344, 213745, 71898, 26940, 55699,
       103262, 228495, 178514, 86292, 47392, 53485, 67404, 88307, 50836, 11754, 80860, 30056, 84244, 97319, 216201,
       20364, 184364, 34757, 54314, 8067, 48313, 82459, 30917, 224823, 102528, 83768, 22101, 89790, 63247, 159582,
       88019, 63627, 172169, 19535, 68273, 12808, 45367, 199230, 146162, 5624, 156605, 99759, 94303, 72179, 95632,
       124857, 91683, 23870, 34617, 125058, 215860, 11494, 152846, 144582, 62333, 241460, 237297, 112289, 39190, 260506,
       72348, 94823, 111593, 6131, 45778, 34848, 127699, 212627, 195400, 108612, 209976, 257351, 17248, 78346, 70339,
       120821, 229517, 175620, 59072, 161313, 261084, 48745, 108375, 193963, 60431, 47746, 159702, 109389, 4071, 93199,
       86439, 83988, 248190, 7765, 213163, 42871, 125515, 31491, 158547, 19370, 94881, 67263, 97723, 21645, 50414,
       83379, 180175, 219638, 24579, 177288, 27680, 22378, 51034, 70739, 114075, 151614, 37807, 55010, 66325, 215989,
       85796, 171144, 225665, 66069, 155875, 107587, 95335, 178307, 203054, 62815, 67261, 55137, 37667, 120652, 104685,
       47629, 100978, 189136, 112601, 8275, 25800, 61346, 63771, 254836, 27977, 60522, 196367, 122500, 156611, 172367,
       104412, 3941, 29779, 7296, 71590, 116884, 130933, 118466, 53887, 91085, 113234, 162653, 21006, 121548, 42920,
       31086, 11094, 200535, 90760, 56129, 147693, 102204, 220472, 248045, 31330, 240947, 45996, 33681, 110524, 184487,
       40254, 242147, 53050, 78383, 121403, 12061, 22520, 76053, 215355, 13663, 95568, 85025, 88980, 19368, 107188,
       102117, 242526, 89428, 65657, 214668, 154453, 47688, 73662, 142100, 56628, 184168, 149554, 50909, 102655, 241664,
       125827, 37196, 72092, 100675, 20986, 113135, 27274, 106803, 255746, 50356, 115484, 104471, 71304, 204224, 55742,
       80345, 74163, 207427, 61365, 209615, 172845, 106184, 240727, 251434, 100611, 172014, 75172, 66212, 15390, 153942,
       111991, 201479, 196853, 98446, 211532, 247556, 102050, 73420, 30162, 125357, 95148, 74310, 34926, 93039, 175490,
       35081, 47169, 157528, 116516, 196623, 45569, 101217, 66902, 105231, 121444, 46453, 200556, 8274, 156335, 230189,
       82281, 98469, 96684, 18956, 190194, 136392, 66046, 213273, 183856, 20414, 16214, 27019, 16787, 132731, 74446,
       1594, 243627, 183008, 82606, 173438, 219056, 47057, 212969, 174616, 13787, 62619, 214989, 42314, 260362, 40460,
       22143, 220189, 25146, 123429, 216256, 234583, 41943, 178359, 63347, 43771, 250663, 77393, 110081, 227599, 21133,
       84902, 168596, 39785, 93083, 160674, 196382, 83362, 7458, 166908, 124019, 220025, 64630, 27132, 3406, 76774,
       129635, 92142, 108591, 108915, 23096, 30185, 77197, 213691, 187366, 86818, 97924, 168370, 85042, 237314, 248874,
       7654, 28804, 92179, 28575, 225049, 121862, 126021, 239016, 188723, 70040, 56208, 202905, 49591, 147714, 175471,
       99881, 237364, 105215, 68749, 195782, 187069, 1725, 70982, 156706, 96500, 35199, 214053, 95973, 57679, 228496,
       21646, 97515, 238780, 125391, 92041, 95346, 29348, 22706, 57781, 59998, 32789, 96962, 15038, 176138, 85462,
       79073, 110146, 95005, 49211, 33871, 36275, 46291, 39856, 12115, 108393, 134545, 182821, 1253, 71519, 233931,
       104588, 125607, 119033, 74900, 237609, 228807, 129249, 237072, 66417, 77259, 131546, 197474, 7258, 171408, 97048,
       6638, 48294, 44142, 115756, 164686, 171446, 110259, 162655, 57794, 45336, 132117, 22561, 81006, 197595, 101967,
       64171, 188311, 174194, 126768, 33301, 107133, 124513, 72141, 251547, 128953, 195697, 181805, 113567, 45763, 227002,
       119216, 195587, 60472, 28479, 43015, 93680, 108921, 189227, 188858, 92911, 83765, 260738, 126194, 92611, 150107,
       74876, 112820, 239522, 11163, 8093, 188365, 78302, 70114, 137331, 89991, 140351, 70802, 28877, 240615, 138321,
       51657, 60136, 216162, 78447, 10351, 44695, 49034, 206360, 42694, 49145, 38585, 261970, 17443, 244310, 66516,
       123305, 145355, 131584, 98368, 209705, 237165, 162, 256906, 30374, 100350, 121730, 17530, 96966, 107289, 178391,
       1275, 119645, 3461, 48444, 203029, 182808, 79527, 166006, 255202, 59342, 244695, 205407, 101972, 51525, 45198,
       55765, 176835, 210939, 20167, 33326, 250981, 127980, 196268, 124817, 31724, 174570, 98978, 94069, 96082, 242637,
       18763, 205542, 132482, 43124, 89473, 101648, 57937, 116049, 26768, 25196, 61157, 132673, 58977, 26632, 52832,
       20599, 169223, 45305, 73270, 27545, 145851, 86994, 58571, 253803, 8183, 101312, 103770, 114181, 7700, 90228,
       24266, 206067, 69286, 29538, 184499, 258019, 86684, 116978, 254983, 61440, 36436, 65280, 65456, 204465, 169978,
       16797, 138972, 37832, 105609, 106337, 104553, 80878, 140023, 1085, 17744, 208451, 219717, 49020, 221520, 208951,
       106222, 13291, 158365, 74495, 113400, 61052, 14240, 213065, 2650, 48860, 165922, 240084, 31810, 115394, 83410,
       67825, 64237, 260651, 110541, 7833, 205178, 57182, 106402, 114518, 56799, 1731, 82180, 118666, 40231, 49732,
       75521, 203001, 54535, 74211, 209245, 70339, 34329, 13984, 217461, 79655, 114295, 253152, 75485, 193143, 223957,
       52016, 30387, 236600, 129852, 117758, 166080, 115591, 55720, 188565, 98249, 202955, 73174, 70430, 251911, 18274,
       60563, 26831, 123052, 24234, 228428, 208096, 40073, 163104, 114208, 101444, 154653, 3545, 59473, 205230, 12570,
       115640, 217599, 102212, 19387, 2218, 143116, 66630, 18499, 42238, 84799, 22580, 12144, 67744, 94598, 169087,
       116552, 195856, 170409, 129704, 10086, 59950, 15182, 178346, 145787, 17033, 117751, 189148, 17081, 220780, 253567,
       89283, 64051, 67457, 48847, 105169, 64166, 96117, 5054, 135024, 53145, 250844, 22071, 82261, 175158, 253753,
       100906, 217191, 166996, 71855, 198139, 72859, 70713, 213544, 120280, 11565, 12971, 233677, 53841, 258108, 188539,
       71536, 27008, 10670, 60552, 196812, 243916, 118067, 78205, 20454, 118820, 205262, 53297, 107730, 93037, 37155,
       49191, 18175, 218719, 94017, 218735, 149953, 51811, 65318, 63215, 30486, 133222, 230318, 44944, 245182, 27225,
       9301, 124889, 18891, 43486, 194421, 206161, 60390, 105880, 48777, 125236, 207576, 76508, 41079, 92368, 70207,
       118286, 102312, 98912, 29996, 239056, 169591, 25030, 177043, 113548, 68025, 202497, 49789, 88147, 107530, 147927,
       5810, 187898, 217828, 28975, 142885, 30923, 59727, 96871, 145804, 43385, 104943, 14597, 93404, 175665, 243822,
       66998, 220632, 2774, 21018, 154321, 124910, 117239, 95996, 131174, 38391, 192072, 28979, 95830, 214096, 189606,
       102225, 31719, 35852, 126243, 1595, 242283, 65340, 97164, 68850, 80718, 207797, 21052, 43892, 237381, 157906,
       88890, 82928, 61266, 60736, 157354, 109726, 57363, 254476, 17737, 112127, 220194, 196295, 6575, 191536, 220222,
       115600, 151870, 185882, 111682, 130491, 14000, 66370, 114710, 201175, 64251, 227673, 197194, 47422, 213737, 82347,
       130308, 91022, 132888, 14571, 48963, 253524, 77360, 181237, 1680, 89349, 96830, 142833, 122464, 131815, 184943,
       102262, 218297, 208938, 84390, 89277, 150309, 15310, 216003, 216128, 48985, 262017, 178715, 18198, 66000, 139500,
       115502, 82646, 17152, 98254, 90204, 74606, 99291, 225894, 127977, 85492, 148451, 136765, 66459, 55174, 86688,
       19657, 1757, 245769, 43213, 201376, 118746, 17945, 216727, 249913, 95015, 213767, 244088, 21001, 132679, 36953,
       92027, 112000, 138086, 90735, 78230, 92588, 60201, 250785, 102561, 17724, 180919, 92548, 41261, 150439, 261032,
       41955, 63961, 61770, 91800, 230731, 167879, 14908, 137636, 63416, 108667, 179725, 25384, 99746, 195962, 243442,
       24419, 162628, 161595, 94262, 82273, 132935, 87623, 94298, 208054, 98057, 180751, 123274, 24763, 63863, 120933,
       20655, 177918, 163865, 30996, 112460, 138315, 47955, 140476, 118847, 104027, 67212, 61292, 96721, 43603, 67548,
       121300, 207382, 246260, 7684, 181815, 68058, 1514, 184776, 40502, 91637, 137543, 112503, 36606, 202020, 246791,
       43788, 101972, 212959, 71670, 114069, 135003, 13423, 129204, 22693, 84239, 63587, 43358, 42617, 190335, 137801,
       82931, 62068, 120238, 109314, 250114, 79916, 22427, 237157, 71754, 122011, 104342, 92765, 69558, 93329, 237462,
       120969, 259007, 246545, 27227, 156587, 161541, 79241, 62278, 226109, 52938, 76609, 116596, 101478, 223094, 215036,
       79417, 182715, 167833, 64817, 34072, 5187, 119666, 215794, 202271, 49429, 127883, 12373, 28833, 64334, 115487,
       79705, 10161, 133209, 81792, 171787, 117914, 57553, 2684, 1470, 63780, 249468, 107014, 125770, 153385, 122073,
       96034, 151766, 97329, 14496, 207819, 257924, 27804, 81959, 26081, 127870, 204637, 36644, 95219, 76825, 186113,
       119936, 208345, 63921, 39827, 191314, 201836, 97237, 255088, 121890, 93585, 200018, 238870, 38625, 158799, 96117,
       72196, 156607, 81101, 82236, 145087, 98816, 63062, 238212, 145167, 108419, 253608, 91734, 109165, 212610, 258415,
       111489, 239879, 83581, 105306, 87568, 235312, 63974, 20322, 62281, 49995, 230847, 245122, 108970, 39913, 206022,
       64251, 179719, 158682, 32292, 102750, 56542, 66498, 139321, 75577, 18592, 141520, 181548, 90653, 68312, 148857,
       44029, 229172, 220376, 34165, 18357, 254745, 125371, 134843, 86388, 101827, 90669, 85660, 103162, 202863, 6856,
       81752, 127390, 211413, 109992, 15366, 176436, 99504, 247655, 150866, 78482, 122407, 175454, 125976, 130442, 190186,
       25112, 192215, 206281, 123650, 174726, 88344, 52617, 79369, 55522, 69258, 81671, 155256, 16087, 180379, 2308,
       70792, 252243, 252517, 80112, 23954, 157974, 130770, 193065, 233596, 127820, 110022, 229837, 126667, 164060, 90241,
       45663, 241123, 168231, 129927, 74061, 221012, 59700, 113321, 38863, 111651, 231239, 113993, 28353, 128707, 69663,
       66300, 148510, 223975, 126617, 36035, 70199, 124129, 78448, 149561, 89618, 130523, 5418, 104571, 31165, 43594,
       23124, 157280, 101981, 94589, 60135, 80224, 81009, 40776, 140065, 11999, 227831, 143940, 14831, 256196, 105923,
       14213, 241661, 160631, 94942, 239117, 209605, 18574, 234822, 40167, 61306, 158397, 200186, 46790, 83692, 25145,
       72155, 177927, 95768, 92599, 75008, 623, 89747, 249665, 156791, 67570, 59354, 81616, 60861, 78788, 102549,
       52142, 127319, 29105, 112972, 68352, 134973, 43365, 106894, 1224, 33995, 156476, 240281, 97427, 222398, 229608,
       47154, 240242, 69602, 111017, 209837, 189292, 42977, 7898, 50085, 92005, 81801, 40503, 5912, 138326, 1210,
       50536, 130501, 825, 44987, 226883, 232766, 107043, 187620, 59982, 126753, 232210, 74836, 60408, 165333, 230679,
       108112, 246551, 114888, 91710, 100622, 97272, 126797, 56668, 260512, 106313, 161268, 229804, 10155, 53755, 202487,
       93491, 68659, 191377, 70189, 4902, 13425, 2154, 80474, 93337, 32940, 24150, 77130, 120816, 79554, 119479,
       121380, 187761, 173997, 104706, 243143, 170445, 128683, 213951, 175781, 105715, 129940, 12444, 1337, 126677, 99378,
       37727, 5938, 22498, 4013, 255017, 111014, 12334, 241088, 43638, 28683, 236862, 175124, 66002, 111616, 187527,
       111087, 187369, 121058, 112979, 185247, 123702, 80766, 212337, 236991, 121657, 229817, 206712, 65544, 44373, 87273,
       116527, 191988, 36309, 59515, 63249, 148581, 36336, 114340, 21688, 120116, 19398, 258502, 50847, 111736, 25226,
       65982, 48065, 71276, 43104, 110317, 75775, 86879, 117950, 121225, 130420, 192079, 51883, 3344, 29327, 218279,
       117944, 230121, 97124, 514, 156274, 254022, 47740, 20142, 134955, 22099, 165495, 45028, 99266, 79135, 16804,
       6633, 174095, 260, 72546, 99571, 205031, 38656, 146332, 212518, 17520, 111898, 151156, 101163, 198363, 132191,
       28497, 67973, 212190, 29317, 146117, 161119, 36054, 226592, 117856, 76908, 181736, 44320, 86463, 192151, 46418,
       2307, 51900, 260763, 31702, 88328, 8703, 56488, 55120, 188233, 43512, 231492, 122165, 115890, 4339, 25249,
       103246, 146479, 117092, 82036, 178869, 1374, 44307, 234762, 247701, 91838, 137778, 159154, 110577, 84310, 178499,
       77965, 159179, 103152, 102820, 244682, 61342, 98186, 179699, 227036, 74938, 197354, 181529, 40918, 125460, 227471,
       97751, 41684, 116952, 27105, 55923, 131186, 102169, 25309, 174807, 105453, 142614, 224730, 107760, 45522, 164859,
       61986, 11048, 227668, 25228, 219989, 121492, 13070, 254727, 100975, 97433, 221727, 176787, 116164, 13682, 27741,
       85306, 179665, 129660, 18895, 91078, 15587, 122538, 195900, 61925, 129643, 151846, 218301, 56803, 210019, 170772,
       77964, 246498, 30591, 101872, 235031, 106120, 96520, 21642, 258470, 126849, 210454, 192601, 15057, 250744, 98121,
       76116, 201760, 120226, 90692, 218900, 148440, 116666, 257072, 224769, 114571, 77889, 90581, 128188, 101958, 189775,
       67119, 38565, 49438, 108889, 128014, 19755, 56004, 175124, 180124, 55353, 137520, 80944, 33206, 229855, 65049,
       107247, 261536, 241922, 129212, 198586, 255494, 33599, 58462, 213047, 7357, 73270, 153199, 106894, 204041, 188247,
       81294, 207997, 17070, 125789, 168083, 4175, 33061, 130789, 165862, 9309, 193249, 213857, 64545, 102764, 188586,
       11202, 53100, 114281, 34313, 88873, 64870, 16512, 44609, 237749, 29377, 118764, 254247, 13912, 155172, 27582,
       125030, 96247, 258758, 36511, 202369, 55854, 58182, 142708, 233657, 117782, 221996, 185447, 88777, 234665, 92945,
       81007, 107125, 188862, 92479, 151646, 233241, 108635, 102467, 187734, 115037, 227089, 5405, 84232, 17540, 248511,
       116655, 8784, 27402, 70175, 163765, 55965, 36345, 17593, 58123, 115353, 108629, 5084, 70971, 242859, 77304,
       118769, 69698, 57897, 5264, 229562, 41018, 52103, 48388, 30342, 124230, 183334, 212820, 32722, 35902, 189324,
       123409, 10181, 228454, 125029, 236816, 260130, 115624, 41264, 37389, 73881, 25691, 211752, 84795, 169730, 91435,
       113982, 115139, 26992, 101698, 100239, 101428, 82587, 173286, 150450, 128746, 184839, 247449, 89873, 2117, 124784,
       127858, 98491, 52540, 7522, 5804, 219742, 18213, 213310, 58380, 59173, 160920, 130039, 50446, 241355, 52942,
       102594, 162824, 142989, 21052, 439, 186874, 127938, 195904, 140731, 41296, 82418, 170375, 56219, 232841, 205619,
       36011, 99848, 143356, 75938, 91239, 72938, 7684, 152311, 98523, 19618, 138938, 255717, 97753, 51532, 241860,
       24445, 1171, 70366, 30869, 91801, 96979, 103937, 201221, 256148, 12229, 45101, 204823, 57340, 149133, 66819,
       3022, 252775, 27434, 45456, 193840, 170309, 91616, 233413, 210553, 11810, 4477, 47890, 116435, 208719, 92569,
       119209, 225065, 102079, 13761, 78236, 120014, 129857, 73898, 147559, 38997, 208043, 109284, 11023, 98104, 103170,
       664, 41112, 106596, 53545, 239335, 205535, 82550, 119130, 109058, 43539, 104501, 250697, 109670, 57285, 175708,
       93927, 4653, 73933, 45896, 97600, 251572, 96247, 114457, 200530, 123271, 159556, 150949, 12202, 73065, 12000,
       40121, 172560, 111257, 60729, 15071, 41282, 65272, 147331, 131267, 71066, 174998, 145366, 39403, 201823, 12885,
       87459, 14763, 125257, 84552, 135278, 140541, 75736, 57794, 234966, 14910, 255954, 73124, 62517, 35499, 260406,
       46691, 97149, 204975, 64361, 103368, 68407, 120830, 230014, 140781, 62984, 53532, 143271, 1832, 128541, 205284,
       57519, 54770, 219488, 107563, 261686, 176194, 102244, 38096, 229847, 67291, 16703, 41047, 32737, 189806, 73322,
       60960, 26535, 174775, 73885, 151336, 175635, 131055, 39100, 192702, 84433, 186288, 161931, 90998, 181643, 7659,
       64415, 230032, 227482, 46463, 171547, 20336, 106555, 97903, 158068, 64871, 201750, 42539, 130376, 6478, 213123,
       59915, 185574, 125805, 8912, 244627, 21115, 89466, 231102, 34624, 6113, 101778, 239804, 32833, 195377, 189952,
       46365, 47256, 71022, 96925, 155329, 99443, 64780, 128803, 113162, 3754, 178129, 33585, 80851, 194958, 47290,
       53927, 201985, 24759, 120826, 181637, 16591, 65478, 165477, 76520, 92926, 207179, 233388, 28687, 139205, 115827,
       99742, 85734, 71295, 94497, 14275, 62702, 118499, 209112, 202842, 4433, 18408, 169848, 58654, 212713, 165964,
       89018, 67357, 91059, 12473, 84596, 218807, 53818, 182528, 19224, 123489, 10369, 171552, 57138, 211180, 158976,
       129158, 255794, 254328, 7450, 2467, 205881, 94087, 100772, 251929, 76154, 251689, 13269, 65606, 193085, 16521,
       127250, 238710, 72765, 16993, 140848, 47605, 117440, 98197, 198825, 90602, 68988, 11189, 33947, 34948, 239791,
       118183, 151586, 111068, 56268, 142468, 109174, 106722, 105996, 174697, 50965, 152033, 176432, 111533, 53847, 228568,
       83444, 66011, 58289, 18487, 69299, 163585, 85152, 170436, 36748, 25079, 246608, 137203, 53991, 137018, 79285,
       22320, 257640, 32920, 2885, 182534, 52906, 27772, 102891, 52809, 70303, 92771, 19831, 63119, 41725, 18478,
       65732, 59586, 244069, 32464, 213524, 160390, 89805, 117673, 2149, 92309, 51781, 87772, 46919, 146494, 102753,
       115496, 190273, 178269, 84413, 107754, 135059, 93459, 126847, 260813, 36351, 130475, 100807, 80, 44103, 241865,
       113426, 134277, 229727, 107796, 212057, 164006, 16147, 1874, 55468, 49034, 185663, 58726, 86683, 17256, 185012,
       85473, 124328, 253678, 112767, 219960, 221041, 18385, 59895, 40281, 56353, 16415, 236084, 12743, 104570, 244592,
       51065, 7445, 201123, 1980, 42757, 210323, 117738, 117228, 53842, 69080, 186319, 120194, 111385, 73905, 184490,
       7851, 217309, 128148, 29813, 102093, 138725, 33997, 119205, 181628, 50684, 112088, 241076, 105233, 78948, 11781,
       50666, 239501, 132243, 26824, 91078, 192814, 8518, 105749, 185674, 10419, 37339, 213185, 99620, 237864, 38953,
       58301, 57053, 84557, 95182, 3151, 183819, 89428, 193363, 172073, 17742, 59922, 244020, 18728, 159202, 207173,
       99004, 49452, 176858, 94538, 20385, 76749, 49549, 65188, 224318, 10147, 233543, 255534, 1585, 186620, 86299,
       37769, 80656, 111818, 1208, 204955, 161280, 30156, 20602, 200080, 54984, 209982, 221231, 15914, 54313, 227865,
       13667, 234428, 181821, 117497, 222186, 151154, 76738, 190747, 139419, 122480, 255793, 172735, 45328, 33276, 127154,
       88754, 194307, 221722, 26829, 91010, 29492, 81047, 26756, 32739, 16985, 15939, 96823, 272, 187049, 192778,
       122097, 193009, 237206, 72731, 30323, 66785, 121495, 253375, 223187, 43755, 253093, 103281, 42963, 150905, 19167,
       52514, 171020, 197118, 92542, 53437, 232770, 74161, 175452, 260143, 121288, 31033, 123375, 3334, 154610, 198383,
       92824, 172486, 4380, 43296, 186358, 89334, 23623, 153409, 155067, 66898, 150741, 252468, 66199, 188827, 151173,
       17958, 81147, 69453, 26462, 241138, 67407, 53498, 251385, 20924, 53583, 191219, 171051, 41622, 257025, 251968,
       19470, 28861, 188184, 573, 69957, 161283, 127170, 170420, 127647, 123666, 86779, 9559, 63393, 5898, 19923,
       130423, 110993, 39029, 88297, 57788, 38799, 9025, 77376, 225404, 15429, 146745, 165469, 120076, 125967, 117558,
       82582, 53016, 11398, 110517, 200360, 33548, 117737, 262017, 87534, 58712, 171783, 183105, 6360, 103160, 61187,
       24678, 73895, 248445, 8725, 188291, 251646, 24738, 133445, 214277, 53809, 97448, 124076, 15492, 76637, 59499,
       21854, 15795, 219809, 58434, 197294, 193570, 44586, 232471, 194618, 61296, 232168, 202045, 56252, 114300, 174432,
       84473, 6244, 155688, 122839, 80884, 156843, 14137, 260720, 47599, 13010, 59320, 165820, 111779, 679, 187416,
       66374, 112426, 72316, 100454, 62717, 192033, 28235, 204406, 178967, 108640, 176997, 16865, 121090, 111339, 110376,
       83294, 7815, 127143, 13877, 203188, 130993, 117348, 21464, 167506, 103872, 249404, 75121, 98419, 13611, 100518,
       4814, 9745, 140965, 104721, 161509, 174620, 18081, 134963, 77064, 29148, 157518, 205792, 75646, 56905, 43666,
       34731, 146765, 255465, 86684, 60843, 6199, 79701, 2548, 66341, 14175, 100692, 89149, 85985, 37480, 93761,
       121104, 161989, 108430, 21116, 261486, 177868, 78258, 29677, 17550, 44808, 256384, 215959, 60242, 57945, 5275,
       37617, 180216, 189413, 46416, 160109, 42, 3789, 139067, 47386, 128653, 248877, 128819, 81893, 203262, 200912,
       65628, 126656, 200500, 50294, 88680, 161718, 70696, 236499, 143921, 49821, 66443, 257522, 47173, 223313, 65989,
       60810, 105150, 80417, 36173, 169918, 248788, 23599, 131200, 11356, 72955, 117515, 146940, 110462, 249363, 188155,
       20031, 129737, 241137, 4290, 145618, 212324, 32350, 28589, 168342, 128413, 247510, 210122, 108626, 256440, 49490,
       78101, 93157, 161287, 121798, 134694, 131585, 58363, 163683, 68637, 128880, 145526, 212956, 38836, 236364, 52935,
       31497, 93113, 181878, 83630, 66537, 153180, 49565, 104041, 156091, 82098, 258033, 9107, 39976, 97668, 76766,
       80991, 204933, 200278, 36142, 160921, 172019, 6681, 2884, 181600, 119555, 125026, 36776, 115763, 123789, 164832,
       127244, 119281, 38697, 93916, 170404, 138752, 89485, 165205, 72833, 73269, 170498, 178246, 16507, 137467, 80322,
       24803, 118142, 53489, 37941, 97264, 66783, 116674, 150668, 165774, 22671, 120986, 261882, 120962, 218294, 65414,
       68522, 149842, 44508, 93791, 37554, 246387, 14449, 253062, 225110, 35262, 200620, 40597, 125634, 249301, 255148,
       34884, 211247, 42639, 38865, 182173, 18096, 25899, 126989, 89260, 16917, 247322, 37083, 30573, 143020, 182484,
       84191, 18450, 41953, 59685, 251544, 107896, 72581, 231992, 84731, 16038, 158029, 221699, 105135, 1825, 49006,
       102772, 225599, 172720, 2829, 218322, 65718, 50268, 23715, 144932, 9013, 236019, 36308, 103822, 232972, 125483,
       96635, 107978, 224780, 118225, 100530, 252643, 30985, 246338, 206682, 59807, 160954, 174765, 24181, 51127, 114407,
       48658, 132469, 155286, 68451, 122544, 76478, 6990, 45425, 213047, 93699, 129621, 235843, 71210, 143479, 110542,
       108653, 82917, 40146, 35622, 213346, 118869, 118400, 27239, 90222, 130900, 223643, 196929, 120494, 74688, 201291,
       101959, 241852, 16499, 106478, 210693, 17950, 75201, 211119, 256462, 24923, 222067, 89610, 88741, 20102, 43786,
       93421, 252047, 205996, 129156, 105147, 83944, 70949, 116948, 215284, 35568, 230565, 116077, 89610, 85136, 94436,
       128368, 195935, 179550, 23227, 204835, 77810, 42729, 52213, 103779, 71025, 110198, 60719, 22310, 97680, 249124,
       2912, 132032, 72017, 44169, 13585, 134501, 113425, 231130, 231425, 5697, 128460, 10116, 56220, 154566, 66510,
       99903, 47109, 164514, 124935, 144006, 206785, 129168, 60685, 234016, 55308, 97165, 6128, 124568, 201911, 241899,
       4642, 114207, 50767, 97768, 216241, 233327, 84246, 2163, 21078, 32705, 86223, 198587, 66495, 65672, 156963,
       16980, 227414, 12350, 114241, 257364, 259480, 46910, 109541, 198324, 82056, 236147, 245137, 20811, 32871, 228851,
       27022, 114954, 54433, 130017, 184925, 70018, 98708, 141529, 132258, 126087, 151234, 213081, 38777, 210744, 145170,
       21569, 153449, 194640, 65938, 49714, 85038, 64837, 42228, 73270, 22930, 154521, 30979, 96104, 145601, 30101,
       47418, 237238, 192679, 24427, 69087, 174188, 43513, 190707, 7316, 73879, 228872, 80273, 95219, 261625, 177498,
       63162, 105438, 225147, 68890, 206178, 9053, 18211, 241622, 75949, 119890, 96700, 146497, 121729, 193483, 9772,
       89578, 23608, 130260, 2310, 257958, 8469, 70395, 102662, 166993, 82472, 259289, 38445, 130371, 83443, 122421,
       130556, 127913, 132015, 112408, 214915, 63814, 8366, 119481, 206348, 124947, 221011, 143783, 80302, 192672, 93133,
       104973, 217784, 14961, 53371, 152356, 137961, 41899, 187939, 224764, 60718, 88247, 86867, 19251, 35694, 140592,
       46801, 97763, 166614, 112409, 168015, 224488, 4974, 64522, 226038, 19775, 232614, 96538, 16399, 59055, 43317,
       52831, 240525, 188599, 130677, 17582, 244621, 22722, 97158, 21263, 19068, 183985, 82313, 119938, 48395, 65005,
       115612, 32862, 81193, 4225, 212277, 254051, 98527, 158233, 112064, 85913, 52539, 243194, 100629, 84784, 255726,
       64815, 111609, 31885, 129942, 14921, 93259, 5747, 30523, 32898, 30719, 144853, 190807, 51976, 19819, 77005,
       58953, 77163, 234659, 120765, 122737, 146580, 73400, 233834, 165893, 5912, 206675, 157484, 53459, 108617, 79402,
       54590, 60641, 204911, 126548, 217129, 104092, 78537, 251950, 92264, 83316, 14994, 94395, 93487, 131415, 256008,
       100930, 155499, 238948, 83237, 108494, 124762, 31089, 141031, 86389, 114562, 248010, 100071, 95960, 106556, 37128,
       97238, 117498, 228759, 130620, 179548, 255114, 105188, 198699, 73706, 108678, 139647, 228368, 124702, 163513, 176464,
       19809, 114197, 83190, 65238, 32162, 98946, 76096, 21211, 175098, 43158, 217155, 4209, 110022, 72113, 115223,
       99931, 226662, 98725, 94487, 153706, 4874, 130698, 97351, 232886, 33997, 166559, 221462, 96397, 223580, 109001,
       72273, 180180, 186428, 41024, 30966, 132065, 21048, 115951, 100255, 117425, 75049, 199455, 78047, 141827, 165862,
       108125, 190832, 64984, 71479, 119994, 155773, 28832, 219130, 59912, 44243, 51912, 145780, 50009, 15508, 162693,
       127524, 134150, 195650, 738, 95699, 88713, 129193, 56877, 91521, 128511, 17678, 61673, 130567, 124889, 181368,
       62467, 95888, 251716, 126328, 96800, 238343, 51851, 255842, 250327, 3446, 121877, 235580, 29405, 166307, 86708,
       123901, 227912, 79005, 1804, 43485, 188769, 71564, 142427, 156181, 9909, 65918, 164172, 37538, 150032, 68679,
       11546, 132678, 144627, 112660, 35501, 66170, 77472, 214972, 126685, 118240, 235582, 42570, 90223, 217728, 256362,
       127274, 191441, 75487, 66830, 179297, 67371, 83717, 19234, 64341, 75537, 248942, 146491, 63472, 257689, 199475,
       110881, 153601, 234362, 84479, 52057, 61153, 105029, 157595, 132007, 103070, 77043, 180737, 25040, 175976, 154265,
       85218, 61481, 188979, 26168, 69512, 199252, 76456, 257353, 40004, 88792, 188470, 257825, 130709, 156055, 37548,
       4003, 51946, 122207, 11959, 84693, 214275, 10096, 11310, 174821, 52214, 2756, 17076, 107687, 60218, 221870,
       110632, 39754, 109975, 96597, 102123, 139771, 117555, 163817, 59988, 42317, 235563, 44427, 11554, 158736, 113538,
       7622, 61259, 10022, 111690, 193940, 244951, 95739, 195552, 126948, 91568, 237342, 110722, 44522, 14954, 60129,
       49794, 244549, 148883, 125581, 224515, 215434, 8363, 4041, 220788, 101414, 148432, 52627, 40584, 67896, 166367,
       5118, 253478, 188089, 97330, 39205, 1986, 43373, 74102, 201976, 94653, 83775, 26966, 92753, 177026, 237776,
       70095, 153442, 136850, 101891, 223029, 258976, 76157, 224192, 79979, 37570, 17190, 129277, 96221, 251852, 136050,
       77219, 192399, 191437, 1668, 49877, 395, 118180, 80129, 57229, 71518, 157375, 207686, 113852, 186893, 49280,
       115702, 21747, 59053, 58322, 175539, 236272, 66540, 2897, 252734, 54493, 198993, 231139, 58908, 151260, 142094,
       117328, 190951, 33311, 103303, 160484, 63638, 16583, 255183, 9834, 79994, 68561, 176212, 130535, 124562, 164779,
       78060, 5639, 59545, 103005, 200726, 56088, 100802, 111526, 74876, 45916, 214630, 183050, 48739, 8337, 60624,
       94906, 37947, 40860, 65533, 220582, 65744, 74785, 221246, 43086, 93441, 258933, 253775, 101918, 82298, 144780,
       35588, 57901, 126633, 19240, 144608, 81049, 38246, 28294, 159957, 66524, 16605, 235050, 44845, 38467, 54824,
       74496, 116268, 30933, 7007, 225284, 160500, 66814, 1560, 7694, 48232, 135717, 197256, 70079, 220436, 49027,
       55382, 76517, 157574, 37254, 13289, 86037, 118503, 60655, 252928, 24217, 135413, 189890, 89307, 248701, 238488,
       121195, 8327, 179911, 70604, 143905, 129129, 114872, 160803, 22366, 16364, 139717, 216438, 64721, 231131, 17470,
       59903, 57032, 232494, 1064, 38869, 170766, 58098, 164166, 210239, 48369, 122743, 82009, 87791, 225141, 145500,
       122988, 199422, 207762, 11244, 212210, 259410, 42922, 258201, 55690, 58204, 118819, 84180, 59662, 15170, 52582,
       101555, 225373, 32232, 58116, 198367, 142130, 3560, 22571, 178758, 93074, 200248, 66901, 115976, 104281, 115993,
       67358, 135917, 75761, 76167, 14720, 255825, 21356, 106149, 154671, 28920, 132451, 33860, 30824, 61232, 68592,
       56458, 55609, 9682, 121653, 222925, 126833, 68391, 97764, 191732, 25178, 163198, 59603, 34876, 170843, 102393,
       50333, 161998, 211234, 81691, 209836, 81857, 57676, 6666, 121566, 51438, 139097, 207007, 74020, 28078, 166797,
       31697, 208786, 225977, 10342, 2554, 100986, 3200, 8669, 190195, 32933, 10767, 76816, 12005, 39609, 208894,
       44084, 220246, 26112, 101309, 247726, 160739, 93886, 34206, 2488, 80075, 132480, 204699, 111738, 239066, 93083,
       36971, 43957, 111307, 116005, 200675, 190345, 52329, 20040, 23739, 52545, 233049, 31626, 53130, 64671, 57552,
       12857, 111351, 108762, 127859, 128607, 32772, 18154, 94472, 70038, 44680, 150386, 38618, 41851, 86923, 64479,
       9788, 100301, 13835, 19957, 10426, 136766, 5879, 176118, 249992, 38326, 10952, 96150, 113594, 119628, 117671,
       44491, 96676, 50688, 16212, 140460, 24574, 84632, 101375, 129302, 130626, 124451, 135503, 30451, 37680, 256725,
       36643, 244007, 212727, 127381, 245654, 209555, 23432, 148258, 167005, 67005, 222887, 245884, 31411, 179405, 200843,
       122205, 59758, 208401, 128649, 241807, 140346, 106784, 19945, 172190, 41259, 90257, 212041, 52885, 238645, 105649,
       31759, 128599, 224817, 116753, 112263, 167909, 119872, 257575, 171391, 54902, 56476, 211046, 86053, 26879, 211550,
       21699, 101287, 12832, 57007, 240735, 88408, 82771, 223060, 243034, 50515, 146158, 128568, 46871, 74719, 28222,
       130, 246392, 242170, 105420, 92506, 124289, 116567, 68021, 230386, 127069, 137296, 134383, 94276, 88862, 148695,
       71931, 80207, 104586, 35295, 173167, 47125, 130980, 47425, 101007, 77300, 22583, 132202, 89280, 59393, 149915,
       89444, 89249, 129958, 110788, 221085, 78362, 1267, 209456, 35248, 28868, 54257, 150580, 87232, 228712, 222861,
       117328, 142086, 137031, 89828, 190008, 68579, 54197, 34225, 44374, 47389, 210227, 161138, 96724, 84237, 210131,
       97155, 133022, 34810, 79568, 80004, 183193, 38203, 43458, 231749, 121261, 233925, 208046, 72336, 2037, 194884,
       103611, 108558, 156366, 28089, 213001, 257239, 45094, 29948, 189384, 114632, 232357, 21248, 6567, 164791, 35352,
       67150, 50456, 183342, 63138, 26385, 228602, 98465, 63785, 6532, 36948, 99693, 94915, 28713, 138012, 53766,
       121390, 21874, 68534, 74935, 33423, 197444, 13721, 228352, 22345, 25301, 166685, 64718, 130918, 33888, 13099,
       25638, 226061, 171029, 80016, 64546, 48081, 55067, 7227, 89096, 116077, 64109, 256366, 98981, 119990, 261704,
       78243, 160801, 253830, 1407, 151996, 240489, 115316, 135642, 234762, 58283, 119206, 204095, 122103, 195595, 50797,
       64951, 75888, 211640, 90993, 102824, 256087, 9082, 85498, 130904, 97668, 135667, 173787, 44301, 213861, 78645,
       46053, 86173, 177826, 15552, 120292, 12760, 19248, 225492, 196041, 24347, 212602, 191886, 43018, 167490, 230104,
       116912, 73507, 25581, 48268, 158844, 241937, 94943, 175289, 12725, 10845, 230904, 68431, 77476, 131548, 163739,
       63162, 117300, 74890, 128182, 236984, 68996, 110914, 37962, 2600, 59615, 117422, 254013, 101599, 134314, 116968,
       25301, 255301, 194572, 73706, 143420, 914, 9780, 122906, 159401, 45624, 190220, 245929, 29604, 54491, 200139,
       94228, 248332, 199608, 64237, 43798, 188150, 98444, 81213, 38304, 67540, 210659, 63054, 11335, 180565, 61009,
       96386, 28465, 26394, 109213, 6839, 47764, 118427, 169041, 178744, 74972, 33621, 89616, 98773, 246461, 46663,
       98571, 250432, 110918, 20414, 113381, 149572, 21524, 192399, 189779, 9291, 27529, 179547, 41931, 188739, 203573,
       62063, 188117, 205560, 130796, 122514, 163547, 56491, 41767, 212922, 95190, 17972, 212952, 90884, 245111, 228986,
       26801, 224967, 154221, 7668, 170224, 120478, 71566, 51625, 224303, 91790, 119169, 150122, 130842, 225088, 49122,
       47003, 227500, 66636, 117488, 77563, 118850, 50060, 170617, 239325, 90362, 149801, 133253, 78414, 54554, 119325,
       6944, 9540, 243684, 10274, 138385, 203727, 2721, 154866, 100180, 48605, 253004, 153684, 97753, 166478, 47222,
       22643, 103547, 47708, 79410, 94443, 38492, 37857, 61547, 72900, 104463, 109369, 38462, 104647, 99625, 199626,
       101635, 34420, 261078, 68790, 256460, 255177, 37298, 190794, 153672, 106095, 117891, 53948, 24392, 150170, 97024,
       37979, 97139, 83997, 24110, 103217, 19058, 88370, 19435, 253465, 89946, 86160, 197919, 85525, 207034, 172596,
       54473, 187554, 216795, 13129, 161023, 131148, 119428, 214900, 213750, 66549, 82028, 207861, 53342, 172892, 51329,
       77178, 119644, 151227, 25269, 112198, 156545, 17373, 113659, 10829, 53153, 478, 241225, 29782, 70993, 17901,
       32019, 161870, 36342, 116983, 69658, 132304, 69567, 174816, 136288, 63369, 67423, 45117, 90371, 123026, 154544,
       124721, 82406, 130206, 14706, 23656, 124194, 109253, 11214, 146333, 76548, 147310, 40139, 19158, 48563, 115574,
       38947, 250478, 100455, 63224, 19812, 143219, 90593, 254461, 162939, 31798, 258716, 199638, 70107, 166750, 13668,
       89741, 73282, 468, 58817, 91146, 47235, 113118, 141236, 230944, 113961, 194911, 71382, 61694, 115154, 63193,
       127523, 83549, 39407, 9907, 23391, 150018, 440, 187079, 123296, 49894, 249213, 79551, 78786, 260578, 139738,
       82470, 137111, 19596, 62448, 182333, 158616, 16368, 184977, 125198, 22347, 118273, 6403, 111692, 194127, 255256,
       113758, 222261, 61813, 88329, 60071, 123755, 87060, 99106, 216498, 78339, 102730, 69454, 26597, 236372, 213644,
       56131, 177152, 221004, 91212, 79627, 254867, 70418, 191311, 169945, 2435, 94776, 242024, 124984, 156701, 243302,
       110731, 191271, 121997, 34150, 40917, 235264, 80800, 132526, 243744, 121010, 218235, 244865, 12584, 93160, 176145,
       65933, 20999, 148246, 59800, 179800, 79519, 53766, 102354, 206105, 109522, 70816, 220720, 49892, 13563, 81784,
       8344, 125937, 208619, 8629, 127019, 132455, 5602, 162808, 217231, 53627, 133362, 14917, 94162, 248415, 168926,
       26702, 81403, 161835, 84733, 241673, 46164, 90058, 15785, 39883, 33449, 223556, 35084, 78716, 76833, 37369,
       89767, 16531, 222544, 61159, 257102, 111589, 44134, 30890, 185411, 81153, 113290, 61642, 128168, 97892, 131828,
       55946, 250926, 143254, 51345, 131737, 241185, 60852, 102612, 74197, 9990, 25497, 157586, 72504, 56988, 77011,
       43083, 6275, 7960, 15915, 10595, 102097, 61113, 53365, 28641, 443, 143101, 84591, 52662, 208575, 239897,
       13858, 244590, 58516, 3184, 24437, 17793, 108065, 155519, 237448, 120094, 147624, 205634, 27220, 86903, 74791,
       70686, 236463, 173501, 36432, 139348, 71323, 64694, 47721, 32439, 57230, 36829, 51799, 35265, 15700, 52388,
       91801, 258806, 234829, 16579, 110892, 42275, 6956, 93245, 228073, 100620, 197750, 184029, 87284, 204748, 35817,
       65342, 213947, 74271, 61314, 36908, 173880, 65196, 184636, 155023, 57281, 162451, 70077, 51497, 46923, 147370,
       65495, 117100, 30220, 69273, 141692, 148926, 90689, 5272, 33286, 93219, 90432, 70553, 49496, 156969, 200245,
       54203, 152934, 8448, 48981, 61716, 261806, 70324, 214150, 223316, 59421, 250326, 246132, 116601, 49182, 120001,
       91273, 121628, 225185, 117788, 180756, 140445, 92948, 985, 13759, 127269, 231444, 173133, 83327, 76283, 200875,
       126294, 116315, 192102, 20731, 168788, 42759, 6878, 92951, 119990, 75907, 25237, 242260, 128908, 110485, 258433,
       54736, 93054, 108604, 27792, 248399, 162832, 68359, 126046, 93508, 85039, 87378, 12810, 41311, 26733, 24505,
       93686, 65367, 130483, 127810, 54700, 244431, 117566, 196683, 189094, 38218, 177753, 213539, 42824, 85615, 125234,
       48698, 170753, 3730, 51714, 215421, 255102, 13149, 20289, 128416, 99871, 260366, 98177, 47885, 196073, 58052,
       115319, 200274, 141346, 121495, 252013, 20402, 3202, 68307, 209675, 129565, 19498, 182970, 93064, 26073, 178010,
       68208, 222781, 225264, 51056, 42646, 208063, 67963, 54703, 139897, 42549, 55527, 179193, 81616, 245659, 145575,
       12187, 29044, 7167, 81411, 204946, 131322, 36090, 51, 192180, 2311, 113328, 105651, 72444, 65583, 220584,
       75818, 79758, 171806, 55911, 66213, 206186, 9474, 183782, 9776, 117092, 64883, 65167, 80141, 120262, 127220,
       15166, 202794, 232732, 66968, 181543, 258552, 65176, 30854, 91302, 7916, 260504, 173863, 79542, 82593, 230504,
       105948, 251070, 233977, 98173, 257867, 131717, 26603, 159135, 101600, 113022, 106544, 42890, 44897, 180024, 16623,
       124060, 195601, 60575, 9404, 39103, 60856, 63728, 90497, 207146, 78266, 75068, 255732, 32459, 260494, 104033,
       101106, 90202, 179697, 82168, 123350, 85390, 2373, 167815, 53964, 79740, 23047, 165555, 64419, 9212, 48337,
       25693, 246291, 5354, 130514, 186546, 43331, 117592, 221039, 245758, 38339, 149055, 216362, 70919, 64941, 45431,
       41484, 149024, 60220, 101645, 204251, 186424, 121940, 105280, 41069, 47032, 100444, 139496, 105589, 141217, 250811,
       65327, 71680, 69076, 51980, 90489, 6198, 123000, 217316, 243197, 66899, 200110, 48864, 61264, 112483, 79296,
       88137, 84393, 17997, 34240, 128239, 199694, 42571, 65840, 20489, 122165, 29320, 37447, 88936, 69180, 24332,
       108348, 258010, 178653, 35535, 42168, 154367, 71275, 175053, 19774, 127322, 223217, 107750, 41773, 41275, 123482,
       21033, 254988, 123760, 66962, 223050, 123562, 50832, 127334, 47097, 20916, 28064, 10724, 116464, 54220, 55670,
       129856, 43097, 144085, 74525, 53369, 56420, 101538, 113609, 20871, 112595, 229945, 179346, 91879, 29751, 153557,
       5787, 162966, 221156, 20661, 113775, 165294, 9304, 182258, 240538, 1294, 246363, 104810, 40107, 147138, 116977,
       51426, 230805, 71235, 31592, 65293, 254667, 8467, 225557, 157994, 69450, 56372, 2113, 35824, 133668, 169625,
       104338, 47700, 83650, 1055, 124052, 57976, 110431, 184986, 53689, 125141, 124310, 122828, 93865, 66846, 28261,
       96160, 51097, 172413, 122363, 230504, 234672, 27403, 102631, 47574, 130359, 183017, 122671, 101381, 190916, 171048,
       95233, 19891, 260946, 47328, 226589, 112170, 71536, 38421, 178708, 85710, 81879, 66433, 81309, 151917, 82850,
       92403, 195699, 143849, 10797, 246233, 9183, 46615, 144543, 22629, 56885, 65581, 243336, 34161, 53302, 5082,
       22626, 157697, 165820, 18209, 131765, 244198, 48022, 158332, 82990, 64676, 102387, 50007, 8254, 117430, 206379,
       124054, 40730, 106713, 100301, 255017, 92959, 95794, 53376, 115739, 22657, 45804, 201270, 79141, 98111, 77667,
       69432, 28371, 91365, 128774, 41039, 246871, 97998, 218693, 24557, 75466, 68582, 198323, 111517, 188172, 24601,
       20328, 135337, 39244, 1994, 120843, 13338, 90470, 69068, 260972, 12885, 230612, 85856, 15130, 30948, 183312,
       97606, 207663, 167524, 35459, 142367, 228465, 82395, 249216, 237232, 120246, 94533, 141020, 41480, 248987, 55614,
       28461, 136067, 136133, 13967, 107557, 21532, 17099, 252349, 66387, 8155, 171213, 201536, 11487, 121078, 141299,
       56623, 184933, 67620, 42056, 110934, 120623, 92610, 88881, 57472, 114064, 82478, 79024, 102861, 207954, 49713,
       69551, 179963, 90459, 13427, 76823, 162062, 93030, 161858, 104267, 47556, 179990, 2744, 11226, 96582, 13011,
       110423, 198423, 171643, 44330, 187522, 33310, 28606, 81520, 57421, 114222, 252972, 145983, 118244, 128556, 196823,
       44429, 153504, 74428, 46504, 139363, 27017, 75973, 18446, 101162, 96133, 168683, 149240, 8277, 24167, 175069,
       77770, 193943, 80785, 124888, 8162, 174446, 34353, 44902, 249745, 119121, 209874, 23322, 124540, 121834, 46286,
       35278, 132652, 147128, 98854, 195812, 125323, 31296, 188190, 177499, 96680, 44614, 113407, 104519, 112846, 236488,
       32401, 195558, 150796, 93830, 118703, 36576, 106444, 43546, 218999, 46999, 170373, 232265, 21981, 36242, 155800,
       12053, 256840, 40918, 75416, 112893, 202303, 128201, 72533, 241370, 107865, 195125, 216326, 57126, 97820, 51071,
       70335, 255584, 234965, 36638, 73137, 81365, 21373, 96827, 63642, 63187, 89541, 870, 60752, 20258, 173729,
       68410, 105584, 199174, 124886, 691, 211727, 79153, 200482, 167564, 79399, 190361, 12479, 16780, 121036, 139419,
       130611, 206744, 120721, 101298, 87170, 245042, 114976, 208854, 158514, 54303, 48124, 70152, 65814, 244782, 109082,
       68430, 149168, 258123, 25440, 94228, 169956, 90372, 189450, 253572, 118354, 252999, 233218, 21457, 65272, 145612,
       11313, 238221, 94918, 96759, 217156, 177593, 35809, 28961, 246950, 81770, 238827, 148622, 91194, 114524, 200761,
       42193, 127822, 134873, 106842, 165851, 167415, 72088, 40858, 190611, 113901, 128555, 44785, 100046, 108139, 237684,
       113845, 247789, 164404, 2642, 155366, 185628, 31916, 223505, 248540, 11797, 136516, 200534, 57944, 184871, 147347,
       116648, 223624, 171913, 61281, 114623, 261024, 111373, 154187, 172769, 42883, 237506, 12319, 44508, 33707, 50118,
       117383, 17594, 111381, 55812, 184818, 196710, 103516, 37228, 183667, 31017, 89943, 182822, 124361, 58287, 17009,
       75311, 31438, 192578, 99526, 15409, 2620, 11733, 472, 204655, 64574, 127246, 212398, 118100, 240641, 166933,
       114955, 54312, 146106, 6135, 261882, 141243, 39806, 95878, 8581, 58106, 220171, 241502, 22579, 24575, 72607,
       95682, 88766, 182788, 24184, 93398, 138752, 45434, 198710, 134420, 86937, 136218, 260847, 63188, 108675, 225901,
       96805, 257733, 177464, 125987, 115875, 71263, 15276, 1953, 144490, 93004, 120513, 214066, 30191, 175418, 30757,
       54326, 76969, 91471, 4307, 100452, 99701, 17813, 171025, 224629, 41913, 222515, 196216, 44824, 200139, 69456,
       117910, 113637, 93915, 97230, 236360, 105482, 127425, 253232, 191994, 78521, 131334, 220587, 31681, 236530, 160047,
       42946, 104879, 17527, 41921, 140020, 262067, 42794, 69341, 38113, 88206, 199255, 41798, 69574, 14876, 221999,
       50518, 83327, 198846, 19541, 129542, 226579, 2901, 216102, 99262, 28683, 25915, 198902, 14086, 128938, 106306,
       102949, 223106, 138578, 14745, 87117, 109944, 94926, 11408, 152229, 50549, 14624, 13599, 9617, 223425, 120921,
       106526, 40118, 73661, 75973, 88631, 111328, 30901, 192155, 61928, 117267, 170624, 221634, 5932, 25615, 149153,
       26452, 235847, 54369, 98572, 77311, 227428, 92979, 153113, 126125, 37915, 109953, 168111, 8129, 189913, 112575,
       112470, 2380, 253461, 41116, 256066, 194356, 25652, 143844, 11277, 67641, 66894, 9559, 119305, 78502, 205072,
       5707, 193213, 136347, 100375, 124105, 232297, 75035, 55294, 172613, 55764, 122317, 161787, 97528, 29352, 51147,
       126592, 141285, 62566, 30042, 135399, 228229, 18828, 38649, 34239, 119653, 61894, 203189, 87681, 4657, 236295,
       57407, 184501, 186216, 75138, 72979, 61048, 97729, 27729, 104466, 101322, 219421, 169534, 120572, 97011, 48577,
       55947, 36182, 189019, 38457, 250294, 152883, 83842, 19602, 67507, 54490, 75291, 137080, 77935, 54671, 184596,
       55048, 99241, 58203, 20053, 121569, 175221, 61528, 184337, 246919, 90559, 257099, 178860, 104763, 190641, 62726,
       64661, 68616, 206805, 21658, 15924, 28753, 54353, 248375, 256801, 103061, 30891, 91111, 54114, 76105, 53984,
       91295, 179353, 130151, 66481, 134135, 33869, 31617, 156619, 18403, 104353, 10325, 58489, 11038, 6776, 244945,
       68798, 109875, 97653, 27379, 200708, 6376, 8790, 111690, 43815, 65920, 146014, 149056, 65478, 160144, 125303,
       92654, 239857, 178536, 97615, 252402, 170427, 95393, 22545, 247769, 53681, 178845, 91565, 82796, 221194, 220798,
       75621, 96165, 238224, 55254, 247070, 34598, 78277, 226034, 73170, 124157, 176605, 70963, 25282, 253957, 187742,
       118721, 94408, 59171, 7006, 136610, 207005, 40421, 50046, 213519, 37767, 202906, 71939, 82098, 243117, 165679,
       17199, 240354, 110392, 115651, 17348, 116276, 108599, 233363, 77783, 85467, 149715, 26636, 60085, 57084, 170990,
       122284, 108620, 221930, 108887, 160542, 82758, 65446, 61627, 65733, 91995, 247546, 136488, 74308, 168477, 229825,
       77062, 200558, 135543, 43381, 182287, 246550, 60566, 92614, 207664, 10239, 139506, 227916, 46838, 106879, 194642,
       91203, 166504, 219522, 124939, 244200, 98584, 126230, 193826, 38647, 72839, 185572, 64378, 79511, 50276, 100730,
       24342, 222095, 54536, 91135, 111239, 63643, 9261, 102045, 181054, 37314, 84465, 48121, 87603, 188915, 128062,
       40672, 254164, 202888, 6533, 138801, 9249, 109034, 240725, 99661, 40675, 150652, 231515, 8271, 85991, 209191,
       9802, 166277, 89494, 32998, 138746, 58597, 23332, 237563, 226319, 101489, 17049, 62277, 42163, 202208, 167459,
       105473, 22527, 209981, 22786, 89817, 138262, 64602, 172968, 44359, 90182, 105688, 92846, 85457, 195349, 41863,
       78791, 61346, 134809, 121218, 56887, 112627, 29953, 65053, 186723, 64712, 200164, 150743, 115866, 176035, 196373,
       10209, 181310, 91204, 7325, 101475, 4264, 30579, 104185, 41627, 82971, 93660, 188378, 34062, 247043, 259244,
       24935, 31994, 217331, 60136, 35934, 90058, 80425, 137906, 7091, 32578, 250550, 116706, 39412, 51177, 102554,
       80420, 116706, 150885, 123959, 216648, 32184, 88439, 196004, 195318, 102616, 212836, 206723, 48078, 139654, 141347,
       35684, 242061, 261541, 59541, 204901, 121614, 105792, 134774, 198408, 59808, 27957, 87980, 110981, 260251, 146138,
       129600, 84162, 76995, 9440, 178030, 3604, 5951, 262138, 75000, 19607, 5646, 170383, 50380, 26774, 216304,
       17175, 252821, 105328, 114119, 192521, 76506, 3033, 216377, 128441, 41391, 152807, 214670, 24208, 77195, 103702,
       122098, 189551, 187376, 87750, 56170, 96230, 119541, 165091, 96776, 127445, 18013, 251653, 65155, 173275, 248176,
       30712, 176719, 40188, 25392, 109960, 17044, 29218, 110372, 214397, 92876, 194515, 54463, 5301, 79292, 107365,
       6731, 261767, 184503, 79710, 134150, 165343, 84155, 187259, 52920, 87197, 89657, 170475, 48743, 31849, 215959,
       105636, 211931, 64272, 69943, 63429, 4835, 13823, 154941, 246400, 104477, 104956, 38817, 124920, 131303, 58167,
       7869, 20871, 89234, 51295, 53127, 188345, 63899, 184294, 189815, 19198, 56482, 223627, 113732, 91017, 102821,
       37244, 16319, 205002, 102630, 129852, 48460, 87948, 154336, 226654, 78387, 16264, 11089, 25184, 143514, 129976,
       28928, 13591, 6719, 6206, 13135, 61418, 31550, 172909, 64027, 45277, 258153, 251877, 109202, 5575, 63123,
       48023, 214856, 71967, 98909, 206126, 162521, 57598, 151701, 39325, 102874, 67997, 116340, 127961, 228383, 32853,
       31436, 134400, 165658, 113028, 220138, 240691, 81503, 190484, 101468, 107124, 103141, 223853, 85404, 174950, 52168,
       55567, 238503, 47792, 29894, 62511, 135623, 9179, 172242, 241895, 70191, 121390, 33949, 129804, 5730, 248077,
       96736, 161340, 244999, 42905, 218838, 105257, 108423, 101595, 192405, 100792, 71007, 62756, 36914, 148558, 180588,
       1875, 81606, 8581, 15487, 213216, 235684, 114990, 72607, 196376, 109649, 259565, 108879, 38693, 166242, 15523,
       37381, 35366, 231451, 103922, 104749, 259156, 122911, 32939, 125037, 102123, 20584, 85659, 79374, 107048, 4335,
       31807, 109898, 212356, 68910, 217735, 218863, 30606, 227103, 23589, 105907, 176384, 231022, 50719, 199914, 217133,
       109274, 94798, 11656, 50018, 74296, 184424, 108022, 238770, 212621, 43688, 165850, 123495, 57689, 19361, 226325,
       80673, 78145, 38688, 9212, 193500, 151774, 124283, 103810, 175469, 75183, 172385, 153313, 66560, 258202, 212306,
       110021, 12211, 93514, 113477, 66200, 5360, 68453, 187627, 152786, 121538, 33440, 202521, 8485, 80864, 240297,
       14840, 191638, 68513, 78222, 59476, 104325, 46408, 31624, 70250, 60846, 241430, 26789, 43001, 261946, 242406,
       53048, 40900, 40712, 107825, 236457, 88540, 77788, 29482, 164833, 130723, 247664, 34572, 103137, 217636, 91751,
       35869, 257755, 23428, 34648, 63771, 248366, 44026, 224935, 126919, 110527, 185243, 102760, 3576, 169593, 8079,
       30170, 84039, 59785, 118609, 122471, 108229, 83872, 132558, 114340, 29733, 79298, 250874, 28723, 201661, 35424,
       113065, 20927, 250304, 117146, 153124, 218867, 33571, 161049, 96650, 55117, 35036, 142513, 109392, 34774, 83018,
       101057, 127662, 109441, 106681, 160411, 29326, 67947, 127837, 240951, 119478, 145977, 95720, 42723, 31658, 241185,
       20535, 86505, 193165, 92894, 252783, 228359, 70694, 68685, 163156, 112012, 69701, 81239, 10637, 184838, 17967,
       110584, 118149, 52712, 38442, 187900, 259109, 85833, 63440, 183725, 5259, 199397, 197532, 79899, 10399, 4720,
       94014, 61563, 65609, 48332, 217085, 146012, 28234, 81778, 124125, 70468, 85994, 185762, 109207, 258243, 8459,
       42407, 261972, 191490, 33091, 171904, 205499, 36560, 159586, 101785, 124404, 170274, 228893, 47091, 37723, 87096,
       472, 108771, 151272, 102456, 136128, 176877, 91655, 90695, 15926, 16851, 183390, 48708, 129093, 96925, 211572,
       79699, 246378, 139406, 65638, 44416, 204287, 50098, 63922, 191656, 117790, 218999, 161537, 31976, 204848, 232853,
       37456, 78981, 69973, 16044, 164955, 43585, 99499, 67658, 112187, 78059, 218963, 261040, 79831, 136560, 100812,
       28635, 93410, 255056, 85349, 247227, 240810, 100330, 44458, 256318, 46909, 43384, 168457, 105034, 45312, 122805,
       45716, 178263, 47443, 99370, 189904, 46442, 4421, 19043, 97452, 72242, 64656, 88524, 127077, 205876, 108368,
       128613, 181482, 120476, 36929, 229100, 86935, 57855, 16165, 103289, 8254, 167865, 100844, 114470, 155155, 68434,
       74523, 233113, 59818, 50475, 240173, 192763, 14781, 16421, 78785, 124094, 178689, 14332, 69496, 228336, 225293,
       37083, 243668, 75664, 45903, 104211, 218560, 35480, 215193, 115384, 78880, 108859, 163039, 121892, 48707, 154157,
       112288, 149471, 206465, 60343, 11037, 70094, 108330, 242329, 257287, 55457, 73830, 189115, 33070, 105264, 221499,
       128898, 48755, 181148, 39831, 39664, 200607, 42431, 47816, 24162, 129721, 6177, 215094, 17554, 37849, 119016,
       99684, 186351, 258152, 122658, 222790, 236678, 67081, 260437, 93177, 330, 139552, 87907, 49159, 190296, 79866,
       14623, 149676, 84946, 54550, 143941, 176077, 103550, 101633, 195874, 57502, 209750, 174962, 56613, 75892, 3290,
       72979, 133776, 258774, 76243, 91311, 15525, 112236, 123151, 214117, 40416, 200312, 67239, 107698, 25156, 49490,
       74178, 17906, 178312, 39391, 2396, 35132, 38682, 199449, 165587, 47335, 4362, 163006, 81617, 170051, 247439,
       30252, 250413, 207868, 120629, 251814, 91410, 75354, 247000, 215858, 120588, 80720, 3939, 6082, 81811, 239760,
       44906, 198586, 251173, 2989, 116838, 3368, 35684, 154640, 256732, 112984, 239162, 175987, 4798, 133346, 16999,
       57166, 176339, 17550, 15409, 196886, 39931, 54636, 36409, 86736, 109949, 250308, 237584, 81667, 43644, 102222,
       96568, 33474, 144588, 45757, 203062, 10399, 123784, 24819, 233497, 92964, 105160, 158205, 55286, 3890, 143601,
       55897, 155790, 252443, 120413, 202524, 249787, 75550, 135260, 138231, 92586, 140456, 226248, 54661, 168020, 134398,
       29319, 224936, 34117, 94838, 95294, 173943, 79668, 177592, 164871, 65712, 3676, 14399, 81791, 176330, 95212,
       27300, 107042, 260208, 104063, 35164, 174680, 124277, 156022, 200987, 116798, 175980, 132239, 42131, 59246, 228640,
       53215, 259185, 227974, 105958, 237565, 35049, 78003, 50481, 117497, 71816, 63428, 203932, 121456, 213901, 67614,
       70257, 226409, 233013, 67494, 11170, 48064, 5507, 120794, 132133, 9098, 162423, 120434, 972, 155869, 102013,
       119700, 195864, 3243, 53528, 14759, 49692, 61415, 72533, 77095, 110806, 146274, 261914, 79855, 34706, 47462,
       79888, 155514, 225103, 38867, 94561, 192816, 109302, 10062, 244002, 21735, 174750, 75685, 6966, 110977, 112300,
       25113, 218962, 201100, 35092, 223540, 123213, 37003, 19654, 69168, 87885, 146380, 190584, 28550, 184630, 191302,
       88690, 250946, 257464, 11944, 229693, 57832, 19294, 31714, 117926, 66692, 64198, 46498, 120834, 190483, 23808,
       112665, 63701, 42593, 126976, 118281, 113787, 85259, 155200, 214734, 88580, 106475, 68627, 81923, 3805, 70467,
       81634, 31944, 12382, 19283, 93813, 34626, 71268, 249682, 73927, 50602, 182497, 177139, 58004, 62376, 55303,
       68629, 98123, 170463, 16829, 37494, 151557, 47118, 203489, 174078, 8316, 120807, 74603, 128407, 16040, 204822,
       15535, 185019, 140063, 33885, 92938, 15792, 116823, 143258, 203877, 63269, 202160, 100164, 17778, 62725, 56767,
       50361, 226776, 7314, 15187, 13037, 168024, 26242, 186428, 239005, 6819, 171992, 137300, 57439, 92842, 97313,
       105727, 107412, 172524, 76804, 39895, 220266, 79474, 233801, 30486, 26290, 249034, 120371, 45074, 223824, 135611,
       110787, 150217, 154370, 11515, 127347, 123161, 112450, 179997, 245901, 63398, 57441, 175396, 109726, 154171, 202972,
       41681, 193305, 192958, 44412, 215836, 61207, 98514, 92615, 183049, 102891, 4833, 167208, 30099, 258797, 90453,
       127516, 49882, 159965, 11074, 75220, 140868, 8978, 215057, 163047, 78053, 243402, 71208, 94731, 20424, 136409,
       125945, 69921, 159997, 53077, 13993, 124351, 3314, 260979, 220693, 79022, 217318, 105765, 37971, 9650, 6433,
       56747, 64243, 118701, 64024, 176154, 225495, 8455, 208906, 103670, 63698, 158457, 61948, 55878, 149780, 138724,
       93394, 157794, 227050, 84628, 189350, 102886, 24276, 155873, 77203, 27019, 10561, 45034, 32899, 231175, 115055,
       23455, 102789, 117812, 86142, 65144, 158512, 130341, 249678, 148020, 85473, 37855, 188281, 79518, 252607, 216655,
       53730, 19419, 177679, 40970, 136233, 110911, 119416, 68017, 67491, 127009, 3577, 164113, 65113, 117148, 170382,
       38037, 41771, 227875, 100941, 120062, 241115, 17361, 98695, 65755, 100347, 47575, 14446, 107341, 52774, 62005,
       16371, 107434, 136480, 128039, 48873, 165184, 129173, 17544, 51527, 122777, 182345, 235136, 65016, 71968, 162526,
       32253, 112715, 199710, 76285, 31578, 222915, 55041, 148917, 196216, 26994, 26413, 190599, 55532, 29979, 42688,
       87017, 96611, 14817, 9294, 196469, 108875, 43701, 200352, 227167, 2332, 107957, 33557, 98237, 229347, 171728,
       83976, 179785, 254833, 8214, 147335, 84830, 126450, 21341, 185184, 2965, 13824, 95406, 77327, 84372, 87699,
       101760, 9424, 221195, 103271, 38153, 86116, 4493, 215296, 234327, 118805, 168890, 84282, 120383, 77999, 17849,
       73582, 146535, 235441, 63187, 159657, 97216, 5880, 227572, 17520, 73656, 118847, 118718, 53658, 35390, 250926,
       101293, 73775, 177063, 52937, 216761, 89288, 89598, 80474, 109168, 13291, 201469, 27641, 17426, 83894, 249068,
       18312, 24670, 12709, 5967, 31014, 50233, 70953, 14743, 146368, 104066, 245835, 129822, 80007, 214247, 212421,
       75360, 127600, 262019, 89210, 193866, 240750, 44517, 259990, 175443, 47442, 11555, 17163, 41192, 2703, 198328,
       93337, 142094, 95561, 21186, 136859, 95290, 1707, 65415, 189253, 78144, 173189, 82861, 123519, 212399, 38294,
       79876, 82443, 99848, 102619, 28021, 181208, 88184, 6257, 176658, 65200, 4469, 184629, 94161, 33786, 223369,
       108016, 255779, 171780, 29456, 6832, 196612, 44057, 77158, 238816, 29324, 46979, 521, 59267, 56003, 45308,
       116007, 47400, 75527, 45246, 258243, 125256, 49082, 32530, 1226, 112770, 14203, 190640, 67551, 37821, 254316,
       70182, 97329, 76853, 112826, 245189, 92905, 64294, 84010, 184549, 89333, 28620, 158629, 11225, 161912, 12453,
       23413, 161455, 70100, 53002, 104170, 224409, 64859, 143208, 145728, 126580, 169787, 167018, 127225, 65757, 260573,
       111568, 27433, 98005, 41366, 44705, 172456, 126357, 30444, 92495, 90353, 74924, 169229, 51503, 117554, 24735,
       91969, 245030, 258131, 2165, 174912, 154721, 19156, 206180, 52467, 108748, 148264, 195221, 84616, 164556, 63019,
       47735, 190811, 105132, 65623, 99055, 167301, 118638, 207575, 177644, 82782, 53992, 172353, 52186, 58443, 102271,
       15771, 119442, 229448, 38501, 257106, 76303, 128233, 2881, 204162, 57326, 13467, 108584, 61844, 246993, 106644,
       65352, 63255, 251930, 115881, 74054, 156448, 79158, 23092, 134833, 90921, 166860, 98997, 51041, 55534, 247267,
       3812, 150036, 121984, 122024, 126305, 20613, 124404, 16618, 29966, 124407, 101976, 59607, 123690, 250038, 115691,
       106855, 102681, 202006, 89731, 97905, 200070, 110691, 158336, 221511, 78714, 208833, 252183, 17612, 24649, 246182,
       51277, 195907, 165746, 127309, 148557, 146728, 46024, 87950, 67713, 113747, 246496, 67405, 12217, 108500, 189005,
       43802, 37902, 218651, 46000, 40417, 3279, 6763, 170008, 91226, 15609, 244330, 86273, 25318, 144323, 247342,
       109814, 43284, 227233, 8310, 59146, 89736, 39151, 85076, 125547, 1333, 172474, 225694, 91177, 83845, 149329,
       81304, 96106, 197257, 84539, 30160, 38474, 49071, 26308, 72763, 27298, 20937, 59522, 94413, 212597, 180896,
       106314, 220676, 256640, 18166, 203308, 17580, 63809, 185277, 202613, 32599, 173504, 212968, 22034, 26872, 238143,
       96249, 127792, 180289, 70529, 115743, 123013, 28335, 221219, 138974, 40632, 84271, 80152, 126701, 60295, 75469,
       111238, 33529, 171477, 115336, 99478, 234477, 60294, 184965, 211850, 81763, 174508, 99403, 49383, 183826, 242792,
       10185, 226512, 191537, 52568, 250789, 157591, 77854, 64299, 216287, 37636, 150433, 121411, 111142, 151448, 164951,
       19805, 16, 157906, 48120, 90180, 87724, 16371, 106084, 21248, 53062, 41278, 181263, 5198, 127550, 65376,
       35723, 155794, 176897, 52525, 44920, 141533, 62674, 23722, 216740, 71263, 96756, 220257, 36043, 167081, 26829,
       68556, 19349, 4340, 66716, 66520, 255650, 41442, 23457, 212524, 108816, 4650, 100580, 71518, 71760, 150907,
       43551, 67259, 194047, 124169, 145085, 6786, 110770, 150524, 176747, 128789, 196512, 132531, 90732, 125414, 74335,
       49574, 113421, 254950, 36812, 254096, 249802, 86942, 103915, 126115, 128557, 154953, 140122, 82144, 209447, 169976,
       115555, 8793, 191522, 43136, 64202, 212981, 53340, 64533, 179151, 118787, 80793, 180013, 99204, 8482, 189186,
       128635, 108399, 130103, 101549, 234487, 76051, 58787, 223025, 250854, 69608, 38664, 185659, 118032, 96109, 95434,
       72305, 115603, 233326, 33475, 116556, 43133, 57097, 146826, 181563, 67674, 149236, 18585, 12677, 68687, 213207,
       97486, 120911, 55920, 14333, 62587, 154293, 53073, 98179, 241429, 105463, 123904, 91665, 61285, 100253, 174072,
       110364, 172543, 84798, 44811, 17994, 197672, 125519, 79777, 127761, 27455, 116993, 48010, 5015, 93850, 185496,
       114350, 181362, 117830, 98592, 187271, 197931, 30406, 153483, 62828, 129072, 13613, 78632, 65834, 225733, 29317,
       124658, 12942, 52487, 66195, 34373, 44507, 61849, 143087, 254194, 58869, 127491, 70797, 43892, 202425, 220181,
       69953, 84577, 156292, 59317, 64133, 202238, 4816, 127562, 164232, 34135, 201042, 63060, 27934, 113155, 231355,
       113696, 136122, 220290, 78495, 22453, 252809, 100097, 123559, 135187, 125413, 26848, 198016, 84415, 135142, 189923,
       128792, 172174, 117898, 40863, 140975, 82526, 24414, 108034, 213802, 52862, 166104, 174017, 61708, 162769, 481,
       117356, 217093, 48141, 73392, 134538, 252511, 38296, 196072, 27217, 97338, 146990, 114117, 66300, 105818, 72640,
       21250, 251220, 196540, 75604, 242011, 31656, 119458, 79882, 189483, 110444, 60743, 112335, 76914, 93515, 126672,
       49425, 11997, 173865, 11400, 125530, 37145, 61557, 215922, 127791, 98576, 145761, 122930, 47221, 208926, 233938,
       30860, 127485, 139284, 122077, 210387, 107806, 107682, 248714, 124675, 83660, 16249, 248856, 17928, 122278, 54843,
       18993, 128851, 148471, 13529, 51980, 228698, 80779, 62055, 132410, 15147, 12283, 235473, 110444, 218158, 178462,
       130149, 238215, 24262, 48017, 259330, 47573, 59463, 108575, 62932, 93279, 167830, 84167, 122834, 136012, 36166,
       117190, 172775, 224193, 7548, 177255, 256759, 22160, 151861, 67266, 98906, 147851, 176027, 90294, 156619, 134545,
       17461, 59652, 254657, 65806, 159617, 108304, 102342, 245189, 261409, 28676, 5658, 135972, 114201, 108263, 30519,
       6943, 30531, 187814, 102523, 229163, 176822, 80716, 161174, 222705, 41313, 212012, 211805, 94494, 18606, 940,
       102546, 65405, 122193, 122408, 1564, 38987, 48204, 252137, 156624, 89917, 153516, 89282, 78986, 31627, 202955,
       68839, 212319, 217893, 116708, 175138, 137399, 415, 38325, 32690, 36976, 244432, 77565, 70553, 19488, 54952,
       23369, 66686, 159727, 118995, 231292, 31620, 84881, 153945, 151361, 62637, 20938, 18749, 106784, 154393, 125730,
       59098, 145460, 127119, 73223, 201216, 107560, 360, 151647, 126945, 47933, 26186, 141980, 18191, 142813, 249157,
       90398, 229310, 243118, 62787, 5653, 163809, 39551, 253373, 179493, 61319, 188844, 236573, 27476, 159560, 31827,
       121252, 250371, 251123, 7074, 78877, 126241, 113431, 246847, 258190, 67024, 214737, 14503, 81126, 145527, 31479,
       39663, 32491, 28640, 126706, 259530, 5768, 36942, 201545, 130991, 77185, 109272, 108189, 130209, 29981, 231095,
       115486, 210953, 64509, 70297, 215707, 205981, 129810, 96855, 127458, 91929, 249172, 87287, 27354, 204719, 242560,
       53162, 80345, 164254, 43842, 186194, 125024, 45090, 148051, 53356, 99674, 143240, 174552, 76580, 133799, 56361,
       4992, 232755, 247433, 115008, 243177, 169309, 38901, 173991, 139101, 130688, 156832, 10858, 125067, 180199, 124277,
       123277, 63464, 68120, 106316, 30754, 183718, 28916, 60453, 36524, 69813, 62659, 15431, 29399, 208116, 251990,
       34036, 47530, 164495, 80078, 175721, 77896, 5352, 35246, 254049, 127068, 228922, 150932, 120412, 86527, 125664,
       49907, 253550, 93799, 67557, 118254, 134117, 61095, 53614, 74527, 115631, 180717, 158278, 90256, 111445, 245228,
       36452, 156610, 183239, 58568, 98803, 119672, 56225, 112293, 97269, 125741, 256685, 119720, 22978, 92186, 88835,
       11740, 248953, 104937, 115424, 123619, 2459, 117530, 111677, 176401, 114260, 153545, 215202, 66974, 200876, 257354,
       86474, 5689, 22126, 73841, 31816, 103428, 9102, 174445, 119430, 78097, 71200, 8671, 1784, 113641, 215758,
       42596, 196541, 72232, 122197, 118621, 112934, 39851, 215372, 187266, 123184, 251056, 139510, 32785, 146284, 157432,
       41230, 79162, 186164, 82366, 164462, 31088, 99827, 254431, 13638, 65717, 235281, 147665, 115620, 174942, 78567,
       5274, 102902, 94081, 120873, 241667, 208916, 25730, 119524, 1027, 115898, 246623, 250983, 52541, 246064, 135439,
       109151, 34819, 218841, 88036, 143378, 14113, 23061, 5675, 260020, 120330, 86790, 132321, 32180, 119381, 256263,
       31999, 244747, 129141, 106716, 14769, 54345, 13877, 5073, 167830, 29102, 180963, 50007, 66018, 7052, 151208,
       108852, 74738, 80332, 19331, 5121, 116715, 71783, 254498, 80921, 93223, 190539, 13235, 112799, 245705, 259589,
       122626, 117730, 172915, 102844, 84638, 63548, 85567, 137314, 28443, 56835, 118442, 119662, 14694, 131630, 81327,
       93026, 176501, 56559, 130120, 16769, 244131, 96568, 179482, 222044, 2190, 93448, 176003, 65045, 206528, 7079,
       80562, 252552, 231952, 90396, 256085, 13921, 94335, 237167, 243932, 73152, 102133, 45108, 29276, 74850, 141013,
       123496, 32794, 128629, 91313, 122486, 178823, 31043, 25509, 236030, 42247, 96259, 26465, 120838, 236885, 20757,
       116324, 120164, 193905, 53103, 92790, 186384, 5021, 1101, 60595, 6356, 169642, 191915, 37213, 193521, 221658,
       82460, 80617, 257827, 76571, 146602, 22207, 83077, 19841, 199837, 94015, 187091, 107131, 2494, 156117, 262123,
       13773, 204244, 97177, 47118, 56360, 107101, 20297, 212230, 133871, 9872, 91387, 182848, 84012, 127221, 176022,
       106867, 205200, 126061, 98648, 73726, 58801, 107091, 9925, 68168, 87275, 39044, 117788, 96383, 47715, 175309,
       35622, 154007, 202632, 130155, 144004, 11885, 24007, 232958, 108382, 28114, 36989, 146234, 37869, 147413, 261042,
       127838, 202448, 75418, 129536, 252178, 73401, 104188, 82198, 71757, 82451, 219560, 238915, 68165, 168258, 86939,
       127221, 56488, 85700, 91176, 176165, 6351, 123827, 174949, 170253, 41490, 248090, 60919, 43748, 138824, 56577,
       112030, 121110, 158450, 19641, 205560, 122718, 123984, 172133, 35378, 66515, 177894, 184634, 121426, 241144, 162522,
       44144, 27368, 222308, 93842, 43380, 123122, 63291, 106951, 104256, 82156, 106279, 90981, 66109, 29208, 72652,
       126761, 204000, 127605, 90715, 167431, 253429, 32940, 230648, 240071, 119233, 45484, 17373, 38539, 17259, 110345,
       48707, 6180, 50353, 13385, 146105, 38580, 117960, 107920, 41054, 37501, 72118, 12717, 33936, 222826, 259020,
       120620, 172816, 252334, 105582, 4432, 165906, 18491, 130128, 169164, 100836, 236290, 58160, 119673, 19458, 118683,
       10290, 163156, 176716, 108162, 151994, 71194, 71751, 115615, 197969, 87713, 12605, 49418, 64599, 105882, 80540,
       91462, 116901, 191015, 4469, 72069, 203921, 99969, 129925, 122321, 4370, 111454, 171823, 59677, 16159, 154391,
       19787, 74338, 179267, 107947, 138328, 106321, 41112, 42647, 142864, 59518, 248795, 53111, 56197, 56928, 25176,
       101253, 98997, 181464, 63064, 145103, 217206, 103410, 90934, 54627, 9634, 229862, 215599, 25112, 158482, 8887,
       72290, 182758, 220240, 124136, 199465, 233313, 9798, 173142, 82685, 5647, 35226, 246472, 20519, 107495, 224117,
       84037, 58433, 120473, 52296, 209603, 124497, 108206, 210101, 228476, 9428, 110632, 232113, 25744, 101498, 194712,
       39325, 15995, 69547, 82146, 200781, 257064, 89806, 250311, 172977, 16279, 150509, 10240, 123706, 97207, 116011,
       44701, 88313, 20030, 93476, 119564, 241153, 68708, 250121, 138676, 29197, 92132, 217008, 110916, 219877, 219386,
       107248, 24859, 110866, 51913, 243803, 132694, 77149, 255189, 225709, 33793, 191264, 237610, 90420, 60996, 121002,
       40504, 199854, 87814, 110635, 23035, 95986, 28493, 26316, 17706, 1940, 82374, 260390, 35193, 232279, 189174,
       25041, 165545, 79646, 66622, 31516, 249194, 26699, 209150, 5337, 100032, 215675, 7755, 31636, 244387, 140198,
       92663, 192224, 78644, 75821, 89344, 64757, 129269, 194297, 223215, 131059, 5467, 247669, 113970, 137046, 245164,
       99612, 141605, 35707, 50653, 161243, 182244, 98733, 127710, 245083, 125393, 98565, 30719, 3064, 38158, 69640,
       70505, 145643, 25025, 28573, 124191, 119076, 73121, 252830, 250984, 61138, 40094, 165285, 75467, 36574, 170646,
       72215, 188818, 157142, 125843, 39279, 28028, 72376, 36089, 115731, 110917, 87098, 151194, 41919, 127043, 67059,
       57422, 192277, 183771, 61658, 9209, 178547, 36533, 115892, 217111, 49779, 227843, 25389, 78448, 80308, 79794,
       76046, 97127, 120283, 83418, 223735, 181592, 46113, 125255, 2936, 41396, 174517, 218445, 80165, 256672, 163353,
       17414, 119299, 22228, 33165, 91874, 161358, 5521, 200995, 194207, 9517, 65449, 230353, 31900, 192198, 141663,
       2559, 194465, 135653, 32166, 119832, 225745, 85849, 14841, 169308, 8009, 111932, 163941, 57243, 248992, 192251,
       119682, 260812, 20337, 103715, 74736, 116501, 40034, 79770, 164284, 121216, 27202, 83325, 43207, 111574, 47078,
       9504, 196905, 205602, 130292, 236549, 184628, 114035, 155368, 127430, 61070, 194451, 78531, 87343, 79633, 217113,
       87979, 54164, 107668, 25491, 45861, 32408, 26220, 203016, 9127, 61548, 231197, 217620, 119481, 187334, 112067,
       1309, 236993, 117752, 102564, 151706, 184927, 7540, 39477, 154151, 62681, 138685, 46024, 83607, 70248, 120478,
       90014, 238722, 197375, 7664, 260581, 208671, 54867, 55925, 55450, 76524, 188064, 91681, 8656, 188918, 54626,
       17707, 29811, 145703, 86985, 209807, 143220, 68372, 42389, 159945, 21211, 54077, 163095, 70154, 233404, 170930,
       119628, 108730, 5001, 2043, 25142, 175774, 84231, 77059, 108669, 9653, 133631, 191114, 845, 89492, 232380,
       19746, 153390, 90230, 55431, 57160, 155389, 105164, 218270, 40570, 36934, 49443, 60185, 82008, 62729, 142565,
       53891, 32204, 107698, 30714, 88247, 67276, 67403, 104271, 67638, 104525, 69646, 255273, 109116, 115324, 127232,
       110955, 2118, 184468, 44375, 117861, 217967, 103999, 228934, 35691, 27810, 171564, 227674, 96786, 224099, 18188,
       124306, 168695, 3380, 1801, 113220, 40457, 57719, 99926, 1955, 84904, 167508, 74962, 91983, 40314, 250069,
       23080, 45783, 245738, 127426, 1638, 247302, 80644, 16334, 98010, 21540, 118301, 116156, 2689, 242917, 25229,
       102664, 1327, 114778, 10447, 15626, 9328, 18487, 216616, 141229, 75344, 31792, 218089, 79102, 176514, 46414,
       90031, 175219, 48287, 51578, 175287, 69166, 101436, 117005, 11397, 127711, 34175, 108213, 35532, 250709, 29526,
       92147, 96161, 120801, 121696, 63755, 49054, 89952, 256520, 247283, 89274, 100717, 98673, 29330, 83407, 184262,
       70140, 153515, 209736, 73730, 260612, 72550, 91767, 100141, 180579, 130655, 99898, 11339, 4409, 200044, 79452,
       8550, 45974, 52223, 10217, 18743, 108476, 97383, 199521, 242127, 17872, 43157, 128321, 81586, 3170, 41795,
       42554, 261924, 170753, 59941, 220541, 226819, 28267, 105298, 247074, 113522, 83677, 60875, 76827, 234694, 146794,
       123805, 208688, 186233, 75313, 125735, 19598, 16240, 228953, 1370, 22396, 86377, 135442, 129639, 237038, 156407,
       95101, 73805, 56337, 6459, 16862, 26632, 92245, 257921, 94155, 54024, 90594, 188658, 40266, 109491, 183544,
       20193, 14773, 91114, 110087, 233604, 212902, 8367, 214231, 30889, 37989, 82241, 34799, 40158, 57320, 73905,
       21090, 46499, 3832, 66608, 212080, 81128, 1533, 232443, 115504, 39449, 121308, 177107, 122372, 177861, 167085,
       40701, 191814, 31203, 47246, 34809, 72776, 62018, 180670, 53687, 73622, 71834, 245268, 105999, 15595, 257059,
       24945, 205353, 135924, 114261, 141859, 154169, 99293, 133520, 81430, 94719, 58894, 135969, 11377, 170153, 257068,
       2836, 128061, 165080, 77858, 113438, 123418, 113132, 182120, 217825, 76603, 238967, 74214, 27949, 31531, 168853,
       11864, 163594, 165944, 91697, 132713, 261680, 94603, 229058, 115013, 22614, 19679, 208441, 3694, 251928, 254899,
       53514, 140678, 83078, 76378, 27715, 113027, 92537, 38751, 237573, 106161, 29422, 251948, 80024, 94810, 34378,
       14533, 89949, 138558, 89467, 90421, 158683, 128998, 245, 200465, 118696, 205172, 225643, 114251, 101522, 5344,
       39606, 12148, 2891, 98407, 80704, 195895, 111555, 217807, 122061, 88909, 150023, 75663, 32841, 165296, 184108,
       125020, 242840, 35085, 59089, 210212, 245326, 17013, 229162, 123651, 14388, 211880, 199688, 84871, 159567, 237903,
       57371, 125508, 7588, 12384, 49935, 37738, 97041, 17092, 57585, 104769, 38881, 252710, 95081, 177617, 230727,
       26510, 193399, 79884, 90410, 65160, 181624, 1405, 120382, 5952, 39991, 172588, 65749, 52274, 88018, 180433,
       109477, 127948, 98593, 51169, 202183, 1079, 1477, 28534, 162524, 46182, 196317, 82309, 65394, 256749, 30253,
       124387, 250452, 14719, 123343, 65081, 136784, 23707, 136822, 223172, 24267, 138285, 237908, 21414, 192482, 79885,
       103405, 150870, 137774, 789, 84115, 131066, 16669, 96920, 65061, 70511, 116611, 219387, 32448, 119336, 18502,
       12105, 90621, 182495, 47169, 244012, 48870, 35940, 246208, 101157, 66991, 121546, 154375, 128350, 27685, 42443,
       16292, 224750, 233271, 48854, 9084, 227080, 122157, 36768, 260580, 114933, 132004, 104760, 51677, 234113, 70388,
       91613, 53028, 93754, 11515, 155840, 117665, 93394, 47508, 245674, 127514, 107038, 100201, 70449, 169651, 74035,
       65338, 29107, 237868, 24552, 59276, 108142, 83071, 232471, 47315, 77389, 208474, 72580, 85450, 44557, 9587,
       3418, 206714, 69358, 71922, 74728, 13229, 77979, 78592, 151195, 27201, 102212, 68025, 27306, 158412, 200259,
       36204, 122626, 137461, 93286, 202498, 158439, 79464, 132508, 96877, 110855, 210122, 9211, 38752, 146886, 205884,
       119546, 153287, 149939, 97479, 14172, 109477, 51774, 254177, 256214, 12486, 49667, 74950, 33683, 95055, 241255,
       125405, 137302, 83899, 40679, 248618, 101242, 43240, 204118, 19359, 24849, 209813, 258562, 105755, 136837, 50201,
       36129, 63057, 202743, 43287, 159679, 217014, 54309, 114102, 258575, 56849, 165959, 224997, 53915, 68178, 195682,
       66026, 181833, 158641, 106759, 218144, 258447, 107385, 86208, 186672, 104636, 130827, 221980, 13254, 166438, 143813,
       104815, 131098, 251122, 15761, 167891, 75177, 16347, 208139, 69777, 124238, 70570, 37902, 107400, 29963, 101055,
       72405, 142793, 86379, 114684, 24809, 171653, 129678, 636, 165635, 80038, 20173, 252366, 80333, 215988, 220488,
       98884, 68043, 178948, 30426, 240324, 77188, 21905, 102196, 150517, 99559, 201343, 232549, 45207, 94709, 227025,
       17703, 246871, 247577, 41271, 171256, 116574, 47007, 65941, 75863, 126514, 83830, 45225, 91482, 255656, 101164,
       69580, 104656, 224087, 126992, 36708, 240461, 118376, 87048, 114365, 67108, 255925, 119121, 118709, 63220, 204130,
       52993, 5279, 261248, 30201, 182832, 61369, 30497, 155711, 144202, 86811, 5352, 234929, 65676, 75779, 123704,
       86370, 1420, 125605, 89925, 91432, 162916, 2925, 236872, 101632, 7083, 20302, 153957, 69819, 35384, 35752,
       25039, 105418, 220758, 82907, 122197, 11940, 72376, 23384, 116433, 76776, 204915, 254212, 39643, 113126, 258891,
       83865, 148912, 45166, 108723, 67855, 211792, 130819, 51210, 13382, 109896, 152720, 261001, 73072, 125155, 22938,
       25353, 53330, 197231, 89318, 124223, 112613, 122900, 41151, 140747, 27769, 202138, 35491, 33553, 224912, 169607,
       19530, 222246, 57961, 96563, 151853, 12084, 53288, 217416, 36089, 8217, 168500, 249237, 114681, 116728, 180841,
       73095, 45060, 200388, 43397, 50080, 70889, 45086, 140676, 132461, 38043, 211794, 197215, 59700, 182755, 58382,
       44176, 190891, 147225, 71820, 109567, 151706, 101386, 118827, 46117, 88402, 259350, 129542, 38595, 14115, 179752,
       69303, 37188, 246018, 110117, 4202, 182837, 8939, 243164, 216646, 10262, 151880, 157153, 72898, 84714, 79242,
       83770, 25718, 132217, 27710, 85669, 170373, 97677, 129091, 180453, 84707, 8743, 246293, 121017, 97246, 152299,
       22145, 43292, 8803, 98484, 33478, 39178, 10963, 70036, 191884, 74094, 1756, 118298, 72337, 262071, 199626,
       50906, 106056, 27789, 110699, 165011, 14015, 572, 227843, 90923, 68180, 250233, 171939, 28462, 196630, 5109,
       97451, 223085, 212315, 5644, 244764, 15891, 108993, 140532, 158028, 109850, 111237, 237344, 109165, 108521, 205469,
       19997, 121093, 190251, 82628, 168611, 62715, 1883, 41550, 152135, 111144, 40046, 143713, 94761, 210911, 133791,
       69619, 100090, 232102, 95760, 21055, 26723, 12363, 65010, 197352, 69291, 256176, 82339, 38178, 50419, 147314,
       127483, 46735, 253218, 112344, 42997, 249982, 96111, 239076, 122839, 122388, 44576, 241037, 45461, 116815, 147382,
       118080, 34110, 58766, 42629, 163986, 119911, 96049, 34509, 135437, 96523, 167106, 107303, 2405, 40634, 12524,
       47324, 214112, 17775, 2547, 20771, 195832, 130690, 221493, 238391, 16016, 150461, 227915, 71147, 81189, 201533,
       103619, 206393, 19492, 26380, 5996, 179694, 63576, 215826, 120791, 79616, 236598, 117746, 20998, 93734, 89296,
       102046, 215283, 141132, 39234, 164657, 8028, 27659, 56796, 160706, 73176, 5917, 101800, 53780, 164574, 166807,
       120623, 188569, 119288, 115351, 151513, 137551, 63353, 193502, 10817, 47089, 110488, 176062, 42666, 76778, 243716,
       35070, 26005, 229313, 71374, 255926, 109224, 105510, 40810, 135424, 40731, 128490, 348, 24916, 3282, 258371,
       62322, 160810, 177879, 9048, 125587, 145565, 91918, 10981, 154087, 67942, 66763, 6425, 65060, 219894, 108399,
       39379, 256059, 55897, 118577, 93534, 18262, 11860, 57473, 220495, 114009, 150075, 147667, 49375, 132196, 229529,
       115425, 22409, 159917, 95520, 58160, 257644, 13653, 226881, 186667, 108991, 32543, 251574, 89414, 73910, 164008,
       4233, 229724, 146091, 17524, 177720, 101747, 83313, 10625, 229371, 86848, 97809, 123685, 97865, 25324, 102784,
       94404, 1355, 100580, 86444, 157154, 245071, 100432, 121983, 102429, 75377, 166105, 167386, 34182, 117567, 65141,
       119587, 7212, 227875, 2387, 91609, 117813, 48045, 256310, 133303, 95534, 127679, 6818, 55988, 51544, 55955,
       3255, 25023, 140927, 8648, 65256, 93701, 85018, 51707, 78495, 126466, 192092, 29157, 72333, 228190, 22705,
       66421, 199419, 61672, 41723, 136924, 144494, 33644, 251659, 142487, 2750, 142482, 210553, 35776, 194094, 104506,
       58865, 210686, 122476, 25945, 176675, 147925, 11448, 229519, 50590, 94074, 7082, 76226, 117259, 175087, 232928,
       122784, 154328, 235438, 81002, 86334, 239395, 6917, 70802, 155118, 97106, 90868, 30129, 14430, 107964, 90049,
       87785, 59056, 56126, 102153, 10177, 66761, 95140, 141394, 147215, 124765, 82362, 180507, 96750, 81211, 160121,
       90860, 102765, 155794, 34307, 52707, 215423, 121211, 73732, 224556, 23533, 45674, 17189, 118606, 159556, 80313,
       40981, 79922, 219923, 17060, 210390, 177027, 108354, 261554, 79596, 327, 22044, 218621, 109063, 125822, 152728,
       34381, 193399, 138379, 115962, 48932, 127694, 90633, 146636, 193790, 87317, 257373, 227681, 47883, 43459, 14698,
       7786, 17457, 44047, 108799, 89424, 172702, 22400, 184088, 95358, 48792, 179492, 191546, 78689, 180706, 24896,
       63209, 252187, 244537, 26038, 221976, 132956, 18430, 227312, 193093, 16154, 35493, 92087, 113116, 44313, 218757,
       4136, 150264, 199094, 128059, 55845, 172386, 26021, 144836, 48367, 14460, 43016, 241683, 75624, 217247, 231394,
       10483, 241035, 250659, 78964, 197685, 65267, 111493, 87972, 169191, 6278, 23453, 253117, 104840, 99020, 99100,
       51704, 248288, 58657, 20904, 198274, 153843, 23081, 83325, 135153, 120424, 80287, 33690, 14497, 83130, 177508,
       113610, 249947, 47138, 71335, 60545, 49367, 5119, 44949, 206221, 60879, 214269, 6498, 107144, 194710, 119097,
       95184, 223289, 102696, 64065, 180630, 137731, 112728, 120017, 207590, 15776, 117979, 129850, 119267, 208076, 226522,
       110944, 194531, 100036, 92835, 68181, 183548, 107202, 47745, 245911, 71278, 258503, 150816, 88494, 233283, 183287,
       73478, 186207, 32728, 46586, 190932, 203383, 74561, 189381, 37205, 33746, 130040, 164387, 57708, 71166, 254111,
       36801, 208189, 165309, 16107, 38886, 135055, 42187, 20248, 51371, 111671, 175285, 185821, 49949, 4920, 90555,
       98042, 87628, 230596, 22963, 139762, 67691, 55629, 122691, 96132, 15054, 108716, 87434, 18169, 89133, 157521,
       80928, 162839, 237983, 79623, 224598, 226796, 27967, 21663, 208195, 62183, 156479, 124244, 113155, 69708, 221043,
       22832, 246453, 113989, 2517, 252442, 82780, 85458, 80498, 106877, 7012, 30705, 22030, 128442, 190565, 163773,
       79904, 39279, 40753, 61655, 207292, 256980, 56359, 257479, 111922, 75113, 135621, 5042, 11878, 85503, 119002,
       121899, 120082, 76409, 82004, 41211, 119758, 24114, 112627, 65153, 73738, 163546, 38681, 17466, 51572, 67147,
       2300, 175582, 249300, 82643, 32056, 139748, 84998, 2250, 174035, 76506, 73007, 110364, 24049, 133840, 192065,
       79092, 198813, 83744, 7407, 537, 25167, 79854, 23525, 52902, 72616, 31123, 250882, 85885, 147111, 262028,
       117371, 204104, 151668, 111458, 36063, 36356, 128536, 80267, 149785, 127957, 226667, 211495, 101229, 127624, 203456,
       125359, 218292, 12621, 113676, 166065, 244385, 95365, 180059, 141489, 9880, 200546, 164133, 6429, 17551, 244574,
       109785, 222956, 169927, 64180, 45246, 217618, 106772, 33379, 248050, 41014, 215894, 73492, 52120, 199814, 13366,
       91774, 229086, 188164, 119973, 185090, 58166, 11503, 18869, 231848, 112915, 173899, 103582, 103941, 200245, 91686,
       41358, 95235, 28135, 46558, 249573, 138202, 6089, 209385, 140406, 2063, 40207, 189494, 62522, 38533, 153281,
       12522, 150055, 15482, 25428, 53954, 58723, 110987, 123306, 89185, 74845, 218444, 17167, 83051, 123421, 246895,
       24573, 76244, 207746, 108614, 94380, 159549, 113767, 221441, 195534, 68593, 155808, 192721, 119610, 202447, 114237,
       110733, 98967, 62029, 95856, 32108, 190500, 96216, 209301, 126643, 13814, 34974, 169420, 35499, 5539, 222524,
       8761, 209399, 147727, 1137, 226349, 192370, 20749, 248223, 134175, 115407, 56624, 33106, 31440, 202549, 196324,
       127160, 5291, 86512, 78288, 33002, 126942, 31097, 247592, 187518, 65159, 243446, 102544, 28717, 51537, 199049,
       128971, 100196, 46240, 111052, 187687, 89729, 3439, 44701, 171453, 124226, 235928, 179213, 94511, 116849, 57948,
       10797, 229497, 230528, 87901, 217759, 126307, 84793, 255893, 98333, 28677, 20575, 212710, 99411, 32994, 87368,
       11411, 195242, 241459, 64152, 146484, 153097, 1300, 171601, 234662, 126974, 94409, 182660, 98508, 248602, 198835,
       20821, 15552, 15569, 44783, 235867, 226404, 21045, 60813, 61055, 100482, 22087, 215712, 7719, 172796, 139691,
       110153, 204775, 234648, 123495, 146413, 179085, 88686, 256303, 79307, 27913, 211671, 123906, 47197, 191113, 16163,
       62552, 205749, 55562, 79249, 99127, 178530, 87643, 2230, 70272, 72642, 8170, 13740, 46047, 109636, 124579,
       116774, 81211, 194018, 10668, 57626, 191397, 61113, 29764, 79300, 101654, 218761, 42682, 7978, 184021, 45972,
       92449, 182855, 97744, 107441, 63391, 3398, 86616, 125818, 203219, 1695, 174153, 229699, 23610, 241282, 170898,
       44841, 116778, 261717, 30630, 57763, 191851, 126176, 194333, 159817, 85405, 188091, 34344, 38924, 151341, 129615,
       121857, 81407, 138606, 97071, 42706, 225492, 37304, 9560, 6060, 49660, 200557, 28422, 26139, 141378, 92510,
       127280, 160196, 99962, 67803, 22625, 122186, 117447, 246977, 85849, 45416, 109572, 186331, 112832, 60450, 188472,
       7063, 14941, 113620, 128724, 142107, 230839, 119542, 44185, 232984, 47605, 193037, 3412, 101544, 100572, 26037,
       98599, 249282, 234578, 118129, 70455, 94806, 40272, 137595, 223013, 61016, 167283, 174102, 113377, 60089, 148200,
       102049, 253286, 206118, 51572, 123144, 113098, 110850, 235334, 20022, 6154, 94327, 90734, 102504, 97785, 123209,
       27101, 56289, 151157, 37502, 115246, 115336, 64646, 171961, 41586, 58947, 157423, 216877, 68232, 43266, 65774,
       71404, 216760, 147349, 43453, 261493, 154501, 22967, 110254, 36822, 100726, 97435, 8088, 52425, 176636, 19494,
       66301, 150345, 245561, 84501, 180425, 66218, 119228, 16188, 17776, 92740, 95599, 135172, 5958, 113145, 182846,
       109911, 205508, 34312, 129676, 194128, 222885, 61929, 146078, 146416, 127086, 37900, 189051, 71739, 123972, 51668,
       60242, 206519, 238017, 43437, 232081, 247451, 86187, 8568, 61931, 30123, 5808, 226563, 13753, 245862, 1435,
       3570, 5638, 182445, 38322, 221808, 236667, 51874, 124390, 247745, 72361, 208859, 76932, 38371, 79976, 184360,
       128982, 172037, 180535, 38239, 163234, 234530, 57799, 137917, 195500, 13536, 160843, 85552, 34160, 219770, 6811,
       6334, 259581, 239950, 73335, 240019, 142556, 98443, 144217, 229422, 25652, 20128, 167025, 48222, 215598, 22468,
       2177, 241715, 2256, 110037, 218860, 204662, 102231, 99389, 61659, 8290, 218191, 147346, 47823, 243083, 54256,
       125211, 85734, 84229, 51383, 201928, 13347, 68971, 58635, 54705, 46562, 102833, 108945, 78136, 34945, 10417,
       128208, 256377, 194386, 130744, 169905, 10208, 101543, 115762, 61709, 52993, 226555, 68445, 64806, 56997, 52028,
       46757, 128093, 159378, 129181, 62361, 170856, 92767, 146487, 109193, 58842, 89762, 69079, 1587, 254983, 58612,
       68220, 210263, 89802, 128965, 114623, 95505, 68558, 167630, 220811, 23911, 8000, 195918, 2895, 228490, 23284,
       46491, 191623, 77117, 120353, 258923, 234028, 130620, 89146, 125525, 123911, 71092, 6927, 95606, 140864, 158489,
       73156, 231657, 58350, 77422, 108679, 77681, 70646, 199390, 220844, 92674, 96074, 112757, 54902, 144590, 160501,
       87713, 237853, 25658, 15939, 247236, 80889, 34825, 56419, 15240, 109576, 154744, 83220, 118456, 47146, 184201,
       70648, 232708, 201507, 4146, 142506, 143276, 121500, 73366, 119506, 92020, 253343, 89550, 54267, 122689, 73518,
       78430, 190013, 66854, 56331, 117204, 145714, 60992, 247234, 230871, 116235, 247126, 57218, 21113, 166307, 72945,
       13588, 31700, 1678, 357, 173539, 141646, 41156, 172289, 127507, 19321, 214224, 64585, 28833, 246105, 183615,
       1473, 30391, 237198, 29778, 250975, 20643, 43609, 45211, 52367, 4137, 161189, 151074, 79679, 54887, 177772,
       74553, 209539, 71577, 12718, 176569, 245425, 77989, 31865, 244881, 130895, 148483, 151782, 123793, 113923, 79554,
       350, 24233, 77483, 104251, 216536, 234044, 46347, 196809, 7871, 8342, 239183, 121235, 38795, 29304, 159577,
       42170, 170043, 247765, 68582, 175357, 58294, 86649, 149826, 180787, 98180, 56938, 147578, 32231, 942, 96734,
       42175, 29408, 68294, 40420, 54285, 46602, 47544, 169549, 16000, 131026, 249489, 173113, 101966, 153246, 75536,
       127793, 249105, 243013, 90847, 118698, 1089, 53250, 187015, 48359, 51084, 144083, 228749, 64039, 80696, 230799,
       54639, 250673, 242983, 108570, 99019, 24727, 60948, 194996, 49937, 38746, 200650, 175211, 101562, 127176, 45911,
       111990, 155162, 163623, 55106, 121671, 83167, 87531, 1346, 152514, 7707, 164591, 66674, 69398, 4476, 207472,
       5895, 201244, 112886, 3826, 26698, 34588, 80337, 74975, 54217, 39758, 203224, 222558, 97325, 217830, 127639,
       117451, 87395, 121468, 18270, 73380, 48047, 94964, 172359, 55711, 67439, 43310, 76358, 14695, 182021, 159036,
       85405, 143161, 52660, 79884, 8602, 188685, 67586, 55271, 125262, 121434, 113698, 40805, 68298, 251115, 2872,
       129828, 208984, 109738, 66745, 167533, 70273, 15184, 251229, 113903, 61665, 159336, 158252, 23898, 51266, 92653,
       78267, 125874, 220934, 90850, 57794, 24871, 61398, 196306, 187931, 12806, 32343, 97028, 61425, 200643, 195162,
       10676, 96163, 64196, 89407, 160757, 59380, 103595, 37740, 195297, 126141, 29950, 8202, 19503, 207037, 141786,
       69785, 104390, 190606, 74388, 67590, 152159, 120910, 221311, 87550, 82218, 105863, 66636, 19072, 62986, 103186,
       57193, 115535, 237395, 85821, 8948, 169059, 91787, 178541, 22158, 113124, 218927, 208590, 23659, 112515, 108713,
       124720, 139528, 168817, 7751, 136580, 24407, 128943, 175768, 34782, 112429, 65115, 149358, 86543, 71875, 57542,
       96337, 86562, 194721, 9527, 232416, 213635, 5436, 222452, 155686, 13338, 169472, 82847, 11450, 111575, 193133,
       71746, 92545, 147565, 28238, 176758, 31415, 112748, 228925, 26699, 58425, 42866, 135059, 91161, 248819, 81094,
       85573, 100149, 252086, 41923, 203821, 218774, 31872, 120637, 242602, 44886, 112781, 70661, 104419, 158958, 41091,
       76844, 125586, 239517, 33231, 214846, 86904, 107196, 201584, 198126, 7177, 110691, 247053, 91643, 95243, 241640,
       57553, 215170, 189874, 95851, 181792, 67537, 121564, 53719, 161080, 98308, 123020, 140117, 57929, 74200, 57477,
       19788, 179444, 195936, 105690, 9201, 119590, 60385, 155929, 186098, 9871, 88305, 228896, 94248, 7627, 186459,
       38253, 162759, 21096, 6407, 230167, 19111, 118325, 99885, 250547, 63321, 6905, 168250, 36826, 33334, 163252,
       93898, 57387, 72784, 116116, 261212, 199757, 40, 65257, 214744, 90158, 42361, 237378, 100533, 198379, 175487,
       27515, 159317, 154855, 64175, 255545, 259872, 11702, 231038, 202367, 97878, 157, 147346, 111077, 197988, 58653,
       14180, 63320, 153042, 107015, 20535, 215790, 101131, 64326, 105311, 45470, 163244, 83413, 90477, 164958, 180257,
       6, 80660, 109524, 122132, 152611, 96411, 72139, 217951, 86264, 81309, 14572, 176323, 87118, 62561, 8322,
       73579, 199183, 137460, 112297, 198251, 1711, 79914, 219819, 56964, 118981, 240535, 251818, 76327, 97095, 97926,
       22429, 93872, 39521, 119742, 123553, 115301, 89342, 73260, 19996, 91650, 171305, 133462, 129169, 16780, 20675,
       9856, 42664, 213980, 56176, 128502, 65302, 31338, 186476, 3733, 82631, 67523, 216123, 105750, 110365, 217398,
       126656, 72675, 193963, 59584, 215202, 19799, 103051, 51361, 8326, 120199, 206116, 121979, 89564, 217866, 34979,
       31815, 115635, 149678, 79672, 172829, 253349, 127133, 145440, 132214, 129440, 171824, 9, 84195, 101401, 6055,
       116259, 68000, 26341, 26260, 50284, 8711, 32254, 3908, 31614, 124896, 232048, 218063, 17725, 149720, 26172,
       25048, 184301, 87117, 55122, 38268, 208114, 77277, 259985, 23264, 79143, 139073, 221035, 38269, 230531, 126273,
       120666, 184767, 135952, 119943, 255613, 258772, 51389, 37709, 86681, 56923, 128661, 207, 92077, 184050, 90162,
       86900, 51939, 84899, 50108, 113860, 242758, 54295, 215622, 186034, 45618, 42045, 220000, 30852, 100566, 174462,
       60049, 29230, 109385, 89972, 77211, 9566, 97251, 15728, 95961, 102088, 138103, 210904, 49116, 229236, 95187,
       100222, 96742, 101512, 854, 27926, 77628, 62527, 233160, 110826, 104058, 167125, 200079, 82581, 58097, 98710,
       62136, 105331, 226908, 84494, 135552, 4374, 118875, 59382, 23959, 74236, 208501, 95281, 104829, 150912, 238133,
       128547, 238677, 14969, 92480, 61704, 25330, 75146, 250222, 225959, 4913, 93863, 184385, 49083, 148656, 164142,
       74113, 186113, 174643, 104491, 120525, 18221, 57423, 71038, 15308, 125836, 198789, 81477, 35624, 144374, 54102,
       97591, 238920, 215497, 54923, 74946, 257663, 63699, 126867, 37412, 105185, 143283, 106012, 38825, 138090, 251990,
       12689, 91719, 125076, 68190, 246411, 211876, 69310, 43871, 258194, 104486, 98105, 17107, 126919, 140246, 221368,
       7248, 97401, 213093, 77553, 241880, 239292, 89296, 141433, 92296, 129210, 250254, 141612, 123547, 48382, 207550,
       93382, 90867, 153374, 68391, 257349, 144862, 21171, 69086, 98508, 50354, 206947, 247278, 76693, 40210, 62829,
       95053, 122259, 104841, 83283, 23802, 32840, 93601, 132089, 111228, 56249, 229920, 98339, 95371, 147909, 114448,
       18840, 118989, 137693, 21310, 134494, 104507, 21342, 192680, 157382, 116767, 118396, 253972, 9965, 245562, 89294,
       105055, 80066, 231645, 30614, 158531, 69387, 61398, 12887, 40533, 120056, 68912, 169007, 76799, 252856, 34984,
       27540, 142965, 113602, 37236, 66161, 132003, 120644, 204442, 201351, 55986, 159528, 68011, 76937, 94693, 243111,
       60284, 61047, 17797, 49602, 167005, 217809, 29265, 168224, 113454, 89940, 129066, 261167, 94141, 109803, 160495,
       36029, 193652, 234346, 103417, 60088, 230446, 112005, 167188, 160480, 120674, 190372, 190558, 21130, 113643, 238266,
       39835, 232012, 207262, 112768, 61332, 68149, 26023, 16112, 182476, 454, 161976, 38423, 114141, 20239, 250433,
       42788, 99936, 250795, 54329, 5141, 251088, 58501, 234204, 130365, 111185, 12703, 38181, 44288, 52212, 218556,
       116952, 238341, 15104, 80863, 117100, 81360, 69112, 137754, 188012, 42678, 247641, 190023, 31943, 204329, 116136,
       81796, 154196, 44879, 58575, 81617, 191646, 119343, 40489, 36445, 64440, 18297, 67679, 67081, 257771, 242557,
       54620, 197631, 180223, 103450, 73280, 43024, 55684, 137199, 132501, 35303, 51010, 239993, 112988, 29033, 226307,
       78227, 122848, 196200, 77530, 112073, 68441, 80061, 180443, 135479, 94219, 200140, 226940, 41034, 117308, 46037,
       4436, 12943, 13513, 106246, 17506, 163626, 16895, 221045, 179832, 94610, 93479, 108216, 10789, 60496, 219282,
       49192, 91611, 146188, 8260, 249829, 203149, 68447, 155036, 52216, 85607, 212863, 145861, 22470, 22198, 127653,
       48709, 255643, 227129, 121928, 91899, 215168, 57984, 216624, 173730, 105190, 259698, 250465, 121527, 251371, 18236,
       127709, 119530, 45268, 117744, 226430, 212020, 41602, 249378, 133982, 126166, 92624, 164951, 106482, 70549, 210314,
       109730, 72901, 243925, 1988, 197494, 106443, 125073, 261172, 50930, 101985, 220678, 37037, 100659, 9359, 36542,
       10685, 159785, 59722, 30483, 58671, 237797, 126125, 147055, 181991, 65624, 195441, 45018, 52148, 12102, 63725,
       110092, 189473, 202397, 11447, 231409, 238001, 54649, 111137, 183500, 49243, 223321, 209133, 45855, 189006, 12112,
       40329, 219613, 205128, 27534, 247656, 255849, 22663, 200479, 197954, 83939, 81410, 164317, 120506, 241336, 214721,
       66696, 53174, 239148, 39056, 31594, 249723, 20861, 116768, 87778, 108808, 144479, 36242, 127335, 106647, 2597,
       45764, 130228, 54891, 38135, 119060, 7710, 78838, 231822, 108714, 101623, 241222, 180293, 59690, 145822, 5287,
       82584, 248485, 242187, 93919, 136169, 30027, 125906, 197225, 14906, 21631, 202633, 163370, 130728, 240708, 173820,
       51400, 198473, 94004, 94791, 75787, 205690, 75027, 130377, 61249, 63788, 164880, 89166, 91498, 35318, 199869,
       51872, 65183, 212700, 16529, 127788, 85467, 64080, 61213, 233881, 68408, 146014, 196972, 26463, 188494, 198630,
       122633, 131143, 128247, 29815, 180343, 224968, 53638, 73193, 182374, 20306, 247441, 110327, 70227, 245893, 114102,
       40322, 177358, 124885, 64129, 243201, 7943, 29440, 259122, 139128, 7048, 108415, 6186, 102134, 208564, 146569,
       84028, 120956, 43835, 44661, 101929, 238889, 6225, 42734, 19818, 113452, 171604, 36247, 22255, 97225, 205314,
       121994, 63972, 52904, 62730, 118872, 181152, 44615, 43736, 104809, 97223, 235445, 251150, 114929, 24807, 129995,
       48590, 44096, 87959, 53391, 94446, 106710, 56774, 239632, 188339, 120890, 190923, 47146, 90775, 195951, 139000,
       32459, 123693, 141513, 24248, 73492, 85762, 30194, 196707, 189835, 34545, 221795, 174830, 30170, 160058, 227826,
       86311, 198455, 45073, 15195, 167014, 72262, 50771, 223336, 259300, 81927, 5745, 64327, 38123, 156894, 105487,
       8555, 168860, 126131, 10724, 216325, 60526, 16510, 188036, 233152, 109555, 161731, 49160, 86227, 127246, 115884,
       8457, 21356, 49182, 51258, 47219, 133640, 36514, 187636, 60092, 75764, 228985, 203185, 68525, 58047, 255450,
       63061, 232781, 142324, 41223, 200647, 131728, 18061, 181330, 157696, 97304, 198510, 22554, 115324, 153722, 195942,
       123751, 196077, 39038, 7683, 80141, 179334, 96981, 82482, 104330, 95224, 68532, 175673, 124139, 144531, 225412,
       33150, 5696, 102769, 97278, 233546, 9287, 7159, 256094, 8186, 82738, 167539, 75712, 45986, 85457, 108788,
       100782, 130563, 140708, 113155, 5093, 234108, 47817, 215913, 192660, 68889, 162619, 1930, 15388, 100994, 40278,
       54644, 217512, 229515, 47290, 217355, 119686, 24002, 93879, 62652, 117241, 26818, 197883, 19410, 44330, 142256,
       83327, 164906, 256283, 116672, 203572, 44261, 119533, 143051, 245615, 103971, 134725, 165880, 23087, 44747, 199117,
       107142, 96906, 98070, 36249, 236740, 103772, 120900, 145293, 194064, 92941, 107349, 250829, 102926, 154601, 37439,
       11145, 97975, 30327, 76384, 49531, 240655, 107628, 194211, 47628, 112930, 97181, 171940, 3752, 213595, 177668,
       123097, 125548, 127288, 5680, 129617, 124186, 80546, 50431, 229806, 90883, 180884, 130154, 14069, 252183, 148416,
       6293, 2948, 233685, 102880, 1548, 207162, 50419, 143689, 234599, 14039, 118386, 43527, 99964, 103816, 202701,
       111301, 131577, 236568, 76989, 231419, 117640, 21133, 165401, 27724, 1995, 62857, 199744, 91855, 152785, 47187,
       72107, 237884, 223997, 85301, 74176, 37788, 106585, 194272, 242870, 56915, 27049, 156440, 16320, 128851, 233847,
       123205, 128236, 84377, 71468, 156642, 47485, 80647, 217783, 65871, 122344, 26973, 25961, 122104, 139722, 190177,
       74985, 153168, 242194, 39008, 137536, 198162, 130693, 177795, 221099, 89236, 15103, 69892, 53534, 160461, 237611,
       73378, 243642, 216777, 54504, 52595, 187501, 116431, 244559, 225234, 63242, 41435, 28991, 107941, 134033, 89021,
       110123, 154064, 50663, 108046, 232828, 226741, 94658, 185025, 3438, 112050, 139486, 37148, 50754, 250468, 51340,
       15029, 35587, 124206, 110422, 41281, 68472, 65295, 243946, 57213, 16695, 113072, 2836, 15114, 63676, 190838,
       20872, 57427, 71797, 98431, 148659, 137857, 93173, 106405, 117500, 26714, 241709, 173973, 111007, 248055, 258169,
       36869, 228442, 165295, 103938, 54100, 77978, 64068, 201310, 132475, 95885, 143895, 125887, 49989, 63903, 259695,
       45500, 108093, 23017, 110278, 179661, 169886, 4627, 35940, 236973, 127760, 189045, 102490, 84958, 50085, 126889,
       56686, 121283, 10226, 82320, 95291, 43389, 16087, 236279, 97346, 67377, 231583, 82395, 129118, 115457, 116257,
       30837, 61802, 104670, 94670, 114031, 216363, 57012, 148943, 38334, 85518, 260686, 30351, 26854, 256596, 208139,
       61664, 206098, 12186, 128462, 186696, 154083, 25596, 177591, 142133, 83420, 32162, 130487, 75444, 196116, 219384,
       74062, 115741, 94800, 80625, 115296, 129249, 65829, 87998, 105378, 2219, 38613, 59527, 117977, 128259, 194970,
       108393, 201556, 59430, 22828, 132716, 160179, 54168, 142057, 65535, 100997, 103808, 94392, 128458, 190789, 11375,
       124667, 114019, 223359, 117880, 212079, 190635, 20758, 100523, 136037, 119862, 21258, 135914, 115139, 139363, 183402,
       49407, 151717, 135787, 51710, 226888, 139070, 60281, 47767, 127993, 86006, 66139, 121479, 34188, 64450, 60959,
       3007, 235023, 134482, 18511, 61930, 261689, 57686, 228651, 244531, 36962, 167976, 154154, 100206, 187351, 53633,
       13984, 21214, 140621, 120254, 535, 210021, 117352, 84968, 165686, 119112, 150341, 252773, 96942, 42398, 96246,
       14024, 183569, 146783, 57427, 148833, 117766, 17223, 148083, 101056, 129459, 185753, 145647, 43652, 3206, 123109,
       76720, 116598, 37276, 102156, 158965, 175084, 120666, 259887, 95900, 99031, 39720, 117053, 88408, 146614, 166534,
       61077, 43027, 22356, 79351, 1659, 162585, 12342, 62587, 240542, 115857, 129871, 96071, 71273, 256750, 50750,
       5260, 152392, 86800, 120573, 107849, 220499, 64133, 206651, 257108, 113847, 187685, 84341, 112314, 4701, 48976,
       106922, 50350, 80514, 8048, 56765, 260490, 32383, 136144, 61667, 114759, 212530, 149745, 117832, 145673, 31973,
       60040, 505, 136204, 57677, 30211, 175407, 22956, 8693, 244785, 126931, 141268, 46266, 27936, 127465, 128749,
       25026, 122211, 31337, 86603, 17714, 126802, 31830, 23195, 66768, 123046, 176317, 199308, 1429, 157729, 131185,
       754, 24012, 50097, 66175, 55605, 104828, 63971, 84605, 227904, 21412, 117723, 68028, 64817, 175153, 135443,
       53957, 64061, 241819, 116697, 71184, 18197, 1212, 243749, 139778, 127961, 166693, 133853, 81840, 107060, 20300,
       19902, 111177, 70071, 6128, 243408, 166655, 70530, 153322, 114176, 30787, 137320, 2054, 39474, 96800, 215349,
       32129, 252473, 77421, 85219, 101052, 122874, 72552, 38829, 110345, 10220, 69111, 158615, 69012, 232195, 185886,
       103702, 216256, 50919, 10642, 88449, 126657, 116619, 227303, 23436, 75799, 212115, 130722, 124600, 65650, 90947,
       19417, 43434, 119997, 130228, 144597, 100139, 84446, 34888, 83788, 74382, 157211, 138129, 67538, 191598, 223514,
       3100, 111670, 240408, 123160, 101741, 252324, 84409, 168701, 185685, 12009, 174738, 255657, 2746, 63665, 147235,
       6656, 82093, 144094, 79874, 189138, 26060, 80480, 59889, 182693, 65492, 102568, 172342, 40208, 107385, 230746,
       69696, 152913, 95609, 67672, 186716, 60351, 2544, 219221, 164373, 37023, 211539, 16558, 6971, 28593, 216006,
       117985, 21910, 118885, 95056, 118067, 186313, 130562, 211704, 58788, 39606, 50285, 130477, 115144, 235152, 240679,
       79043, 138675, 226976, 59392, 13981, 26583, 29173, 26959, 164954, 96782, 141004, 55805, 118507, 140572, 52253,
       30842, 89745, 173784, 22988, 199749, 254072, 91255, 52125, 166504, 128053, 216631, 211374, 98298, 30149, 179073,
       37300, 148538, 65352, 55044, 104163, 246516, 50373, 73692, 146290, 111685, 209244, 202564, 101105, 29026, 201849,
       77198, 49331, 153324, 36039, 115479, 35553, 122944, 8468, 187529, 85631, 87330, 235665, 127202, 82575, 260488,
       76037, 26150, 37903, 107635, 98887, 18356, 106575, 91301, 159729, 44214, 93699, 262061, 126356, 32558, 36850,
       2875, 239086, 16318, 100756, 124841, 229604, 126557, 130638, 57956, 44421, 98571, 156677, 84949, 39574, 7469,
       73691, 190265, 14096, 99812, 74997, 211002, 113531, 176303, 225969, 79042, 67577, 98491, 106942, 64473, 83392,
       40931, 234619, 171709, 29961, 95147, 106998, 56448, 124623, 235783, 88832, 76436, 3589, 24542, 218127, 194196,
       89175, 32120, 113837, 51654, 168481, 111875, 104277, 168375, 203, 4828, 37806, 63177, 87553, 215038, 48364,
       85173, 134560, 255671, 123330, 77260, 218972, 93502, 134212, 178700, 104372, 231255, 12105, 118566, 145130, 198759,
       88480, 106177, 86302, 38031, 4519, 196321, 114002, 259905, 8149, 97986, 146610, 219139, 55631, 232163, 3012,
       93130, 125755, 22072, 113729, 187828, 201255, 127880, 177252, 205953, 124826, 161566, 106026, 42641, 96707, 116898,
       55272, 62506, 206312, 14357, 47680, 194365, 32446, 32712, 113550, 115660, 186813, 258472, 47297, 84289, 18576,
       81337, 20464, 232506, 87289, 116791, 29626, 102475, 242942, 96282, 23959, 253116, 236550, 39952, 122468, 126345,
       58764, 89377, 96835, 47820, 117330, 13250, 128831, 92977, 156515, 109437, 94623, 50052, 62873, 131675, 93039,
       115247, 130379, 136802, 45567, 148673, 216556, 103000, 23611, 8770, 29317, 159382, 63875, 101229, 208433, 214066,
       59828, 68278, 259114, 14090, 39584, 8152, 35817, 14796, 85799, 52726, 246289, 140312, 98211, 84021, 206306,
       9565, 259623, 142043, 86448, 37680, 205436, 93849, 89114, 97413, 85710, 204943, 234085, 99702, 128663, 240763,
       23352, 240343, 244679, 76952, 212586, 246670, 123357, 196744, 76149, 80056, 187645, 202857, 80129, 20360, 39935,
       96526, 161682, 219015, 43673, 195326, 250310, 91812, 203774, 130317, 120092, 157548, 144649, 1428, 23970, 143232,
       114047, 119675, 22398, 28654, 194488, 131899, 59758, 203248, 59493, 111718, 244047, 71508, 107991, 212433, 165686,
       116906, 188327, 168119, 123262, 81223, 190659, 58609, 198348, 28498, 86030, 240493, 90715, 51180, 207134, 215397,
       45969, 37118, 82467, 56570, 19308, 253089, 97396, 124554, 167104, 65724, 220622, 219729, 106700, 112629, 258025,
       97677, 72415, 120400, 2684, 40070, 108428, 82606, 150923, 183027, 57222, 65607, 237779, 59851, 72054, 125183,
       107265, 207858, 102433, 71776, 19386, 25396, 116080, 58627, 10619, 93428, 224029, 216461, 72461, 221676, 129940,
       98898, 210137, 71342, 5026, 127612, 120089, 3549, 238237, 248103, 10924, 200010, 39158, 57352, 147402, 252883,
       30860, 241562, 117772, 129009, 25265, 229475, 71079, 13919, 256093, 86824, 41070, 50365, 36545, 134453, 43676,
       42178, 147954, 183881, 43969, 174066, 83518, 91584, 179921, 90261, 62089, 162543, 131625, 67853, 218026, 84929,
       77595, 3900, 18580, 100769, 178626, 160928, 11844, 247379, 70964, 101826, 109424, 200097, 73824, 90950, 61247,
       87699, 177772, 117233, 42932, 226733, 237304, 53659, 39708, 82917, 30299, 96026, 244573, 128358, 212143, 11828,
       65143, 45511, 150150, 130557, 208013, 45998, 64197, 59694, 131098, 28803, 62318, 71762, 66512, 209858, 24362,
       5189, 228271, 143569, 118589, 258844, 32915, 107289, 4856, 26654, 95134, 195897, 47488, 79931, 54328, 110025,
       76000, 8565, 189649, 130643, 42067, 202962, 36437, 178171, 236037, 102194, 206867, 152405, 76205, 232270, 117553,
       127910, 161121, 256081, 108501, 214654, 85328, 130878, 179204, 52440, 77112, 244757, 22205, 26809, 258369, 261952,
       66019, 70029, 216146, 93206, 198852, 144053, 101496, 252847, 194723, 66, 221585, 41517, 66194, 238693, 181300,
       30832, 174814, 235350, 114676, 116341, 183965, 20041, 163148, 159571, 87353, 197537, 28780, 34873, 79537, 47563,
       46732, 181350, 2197, 123280, 257799, 53655, 31516, 4376, 25602, 12452, 52952, 124077, 9081, 81422, 124850,
       66140, 238999, 146023, 84110, 106799, 7760, 42899, 8506, 158631, 90473, 190021, 255195, 7999, 212745, 210395,
       112372, 148525, 97577, 107029, 25510, 138410, 129170, 253567, 176052, 122749, 152268, 30473, 46687, 124431, 177728,
       52333, 215779, 146266, 97775, 27391, 20453, 17574, 130308, 7715, 41158, 140535, 187657, 15537, 104252, 99838,
       59622, 229809, 76295, 72352, 79946, 229575, 27677, 59013, 153117, 3490, 175234, 174886, 94287, 106844, 116130,
       2622, 30647, 181396, 127585, 216729, 132891, 29046, 132738, 31172, 87018, 186875, 159085, 56983, 204016, 168398,
       7821, 150004, 155078, 61890, 13025, 162249, 67732, 222785, 83824, 112025, 9817, 155677, 95990, 119867, 39317,
       10394, 87548, 120922, 27415, 97319, 21348, 40879, 194653, 216795, 15257, 206642, 250445, 59886, 176953, 53523,
       129015, 98111, 66715, 67451, 85923, 198100, 97239, 256787, 122850, 89514, 6034, 148805, 111399, 155089, 193272,
       28275, 81092, 60315, 98805, 135206, 183488, 115520, 260586, 44911, 22480, 35525, 37522, 45456, 15873, 93701,
       127153, 46780, 201234, 102339, 111292, 204459, 37039, 195455, 48474, 73916, 255755, 202243, 52995, 218516, 119516,
       64220, 187588, 8171, 46552, 89925, 90114, 36612, 124586, 201710, 88442, 141914, 158624, 102045, 8594, 237721,
       114551, 80738, 117658, 20359, 107341, 199998, 107853, 83675, 29912, 33397, 66496, 257581, 56011, 218968, 114026,
       118154, 7023, 69651, 59572, 182449, 19942, 25829, 134095, 166767, 20954, 79791, 50164, 61994, 243338, 125431,
       99964, 262132, 84612, 130705, 176326, 47386, 103207, 58653, 155062, 114951, 186510, 231632, 98019, 231528, 221904,
       117366, 123083, 131995, 9999, 248331, 113701, 121887, 260713, 38072, 51957, 195921, 125497, 120797, 214820, 37647,
       9926, 119136, 255289, 93748, 85164, 62094, 96428, 51292, 154543, 130667, 27284, 126270, 100775, 104343, 199182,
       50144, 183702, 78760, 73039, 178823, 146843, 48044, 147997, 248771, 25692, 145719, 242409, 32571, 182732, 214216,
       29099, 95616, 158745, 71934, 84660, 198059, 118772, 75153, 235070, 119632, 237065, 237163, 7177, 261579, 217769,
       10472, 150544, 122419, 32128, 64241, 118635, 33431, 39991, 35780, 12437, 82307, 46130, 50916, 174864, 73017,
       77034, 89829, 26919, 75780, 229626, 226677, 71228, 108837, 118195, 44390, 106571, 189098, 92596, 146692, 16738,
       108328, 236745, 121416, 45386, 225615, 192641, 11211, 76182, 194613, 38840, 156938, 10469, 18005, 48311, 41373,
       61257, 168583, 138258, 20438, 191929, 155960, 60665, 259018, 33676, 28967, 76310, 221819, 96826, 252563, 259937,
       3613, 111270, 101101, 72711, 185476, 73400, 22215, 43822, 182663, 130, 1483, 176397, 113927, 208127, 91575,
       88018, 128504, 34913, 12968, 166087, 12469, 87041, 76907, 9326, 80169, 219990, 91469, 62043, 211729, 143582,
       54952, 261482, 149236, 116270, 2087, 248628, 32132, 10817, 28753, 52207, 77540, 84676, 43137, 213751, 247086,
       101082, 225778, 217868, 120122, 246577, 130824, 111382, 153830, 164866, 104556, 170276, 59075, 129340, 139393, 251923,
       91376, 34212, 203901, 98442, 32118, 102634, 128817, 234483, 175737, 916, 77653, 79287, 83105, 259207, 2275,
       96858, 124947, 82623, 120301, 112090, 44431, 115847, 63081, 215227, 110357, 123315, 88138, 123966, 197550, 171673,
       70435, 95661, 32322, 907, 8065, 203476, 1448, 241735, 11746, 71386, 243872, 6345, 57052, 758, 57311,
       59145, 155093, 128715, 52481, 222747, 221424, 120288, 41221, 245360, 47077, 46207, 193112, 112227, 99014, 160514,
       118340, 77136, 94123, 65470, 182451, 135528, 58581, 16366, 149905, 99748, 129141, 131080, 92795, 63294, 132349,
       43061, 197866, 247991, 13441, 49272, 235818, 34714, 192360, 106656, 17174, 44122, 120733, 38631, 39020, 76635,
       34317, 124844, 119645, 83586, 29295, 8447, 125107, 184403, 344, 89881, 210366, 97318, 121457, 207411, 251837,
       102777, 205363, 182198, 95404, 98482, 75365, 54271, 242909, 229866, 42571, 121917, 196601, 110923, 70192, 243267,
       118671, 183979, 156842, 59229, 37278, 242600, 1187, 240754, 130180, 103878, 165400, 141642, 37364, 142359, 130304,
       1296, 5830, 262012, 105511, 120691, 171152, 67818, 134363, 167660, 89811, 247187, 34554, 119890, 58782, 104061,
       70932, 193007, 40311, 65954, 171306, 37137, 38097, 174475, 3723, 40002, 96014, 231599, 104404, 94811, 231948,
       58855, 42277, 239394, 21433, 185392, 22546, 12390, 19439, 80595, 61986, 153500, 87746, 60942, 153316, 102886,
       85650, 21873, 141863, 61743, 198296, 261278, 18805, 169736, 56674, 66558, 193912, 50481, 118854, 183696, 104466,
       20898, 79876, 77357, 90407, 136394, 28633, 77838, 84299, 164700, 98118, 164723, 219333, 19739, 125577, 31811,
       123418, 24830, 647, 81391, 81689, 102535, 111027, 80782, 39732, 32323, 63367, 218130, 96916, 85521, 168003,
       102371, 67234, 75555, 52092, 166729, 113963, 50325, 143386, 148006, 86218, 176173, 191977, 12243, 34514, 220837,
       96419, 191002, 171950, 5621, 66423, 139830, 24981, 13617, 259501, 87050, 170537, 145197, 12887, 125748, 173594,
       127381, 75134, 39958, 113822, 112188, 229070, 82090, 183320, 200182, 107355, 130765, 41581, 116336, 233866, 50929,
       34009, 260136, 40510, 111334, 19832, 179841, 25532, 2833, 131281, 54177, 156564, 154676, 73172, 54103, 30941,
       93571, 30490, 131938, 3950, 178991, 3362, 38077, 170328, 131043, 79759, 213710, 115424, 46841, 7212, 126211,
       101584, 22044, 19409, 85413, 92292, 21072, 30723, 122511, 6926, 19127, 53271, 26680, 82450, 117320, 217062,
       59043, 171331, 70148, 22145, 140847, 176352, 42778, 136272, 210596, 39720, 247305, 131014, 14173, 19366, 208861,
       71684, 120317, 13817, 100092, 250018, 82830, 75427, 156252, 114182, 108303, 173482, 258221, 16720, 174226, 80760,
       57096, 135640, 201858, 79877, 67231, 52399, 88604, 229794, 84815, 91198, 26936, 195567, 95546, 250730, 105007,
       85384, 54616, 44698, 12350, 174082, 242443, 91135, 27728, 52393, 94998, 186748, 113220, 130217, 105369, 147128,
       90880, 105199, 65444, 90024, 61245, 55868, 67477, 159271, 5720, 113760, 102622, 151544, 130657, 33009, 29611,
       102110, 254076, 240199, 80281, 170269, 129876, 10348, 201084, 68001, 95255, 39708, 4585, 92872, 152546, 25036,
       101655, 70325, 75085, 16325, 189757, 191647, 85686, 6882, 260261, 38761, 32419, 79388, 99650, 71412, 9283,
       31506, 77307, 744, 89650, 118784, 220237, 38665, 82718, 203119, 1178, 235916, 3176, 83015, 127988, 183064,
       14846, 106238, 137313, 86414, 170897, 67221, 121321, 126252, 129284, 127041, 809, 194197, 30922, 238787, 143546,
       106070, 115095, 140521, 46340, 245132, 127432, 118024, 185975, 61818, 103217, 218297, 166321, 9689, 17627, 173505,
       53364, 68173, 146084, 44212, 241720, 145476, 102915, 64683, 149680, 53776, 253930, 44957, 89730, 97113, 33634,
       78962, 103237, 195754, 127878, 240697, 232087, 122917, 91713, 39235, 56059, 112930, 142327, 94840, 221080, 203220,
       108718, 260423, 233694, 117818, 197533, 111609, 8930, 129557, 67182, 39594, 18973, 145998, 41973, 50313, 66147,
       56943, 183426, 249540, 22185, 227909, 132786, 65038, 182739, 195427, 86928, 217135, 231754, 65190, 126812, 86310,
       87266, 218254, 55311, 8708, 167134, 1583, 114817, 107883, 39072, 123085, 177510, 10969, 80990, 94868, 94786,
       115525, 178513, 19405, 17228, 233909, 143747, 104523, 58943, 174630, 15616, 260050, 193508, 53478, 187973, 189392,
       42443, 142334, 34471, 76754, 181329, 3773, 39520, 29664, 256767, 83533, 254821, 189562, 48154, 48958, 259532,
       112825, 135481, 235350, 83084, 110809, 170123, 28219, 151631, 10686, 44057, 40790, 176194, 111073, 39474, 112780,
       50656, 176630, 25985, 70228, 66878, 171559, 85058, 30783, 90588, 45588, 27889, 167211, 38532, 96230, 165178,
       62292, 160063, 189054, 28164, 230365, 96926, 37252, 13119, 250280, 8136, 196885, 163270, 39841, 260050, 3278,
       42035, 85701, 136023, 126069, 104011, 113975, 77296, 245527, 19812, 103203, 206900, 222391, 5947, 180165, 102362,
       13963, 256246, 255705, 106762, 259138, 79830, 81729, 232401, 124322, 25032, 103994, 91949, 53057, 90029, 256298,
       70604, 231189, 106180, 110573, 164501, 219069, 7918, 84036, 239235, 78213, 153069, 4341, 93983, 87114, 46196,
       128174, 63334, 214, 105796, 22487, 56060, 36205, 174704, 51981, 93005, 252733, 8791, 100044, 94092, 44917,
       95647, 233687, 9894, 107497, 242030, 234217, 118453, 182306, 5099, 12901, 104802, 18415, 13731, 159476, 90605,
       104385, 193810, 114697, 33078, 253032, 147315, 7673, 37029, 234716, 52589, 238868, 26355, 107462, 237656, 80701,
       16589, 34288, 206584, 88059, 175879, 220918, 473, 245952, 116895, 14383, 132823, 102758, 45986, 172102, 243150,
       10957, 240694, 253461, 110874, 6122, 50894, 113255, 117699, 153205, 99034, 42781, 6674, 31782, 76086, 84540,
       68583, 10655, 17542, 24141, 251243, 97185, 36867, 191105, 17993, 67633, 221683, 155939, 96339, 191339, 152116,
       12406, 141281, 186277, 38888, 165033, 39491, 121454, 29727, 35279, 56246, 13502, 155661, 123059, 137861, 45487,
       129944, 223289, 163812, 69030, 93514, 32670, 37754, 132238, 177497, 103648, 182938, 9394, 20881, 46327, 223650,
       33036, 74970, 211905, 102875, 204340, 182152, 56838, 219846, 37216, 26415, 257026, 32165, 85344, 92705, 60546,
       96044, 147507, 32324, 16393, 88472, 231482, 36304, 93489, 220033, 29003, 48989, 133660, 49788, 80190, 39747,
       100066, 65366, 99262, 93547, 38897, 70141, 86838, 87551, 86074, 823, 225199, 142831, 18631, 2194, 133907,
       29268, 14773, 95066, 35645, 208837, 142334, 19192, 110013, 49089, 53780, 230676, 252834, 9854, 18255, 114062,
       98306, 238167, 240761, 103248, 36446, 138712, 75270, 74328, 37834, 11757, 209097, 129925, 116664, 257215, 101395,
       126567, 214785, 46577, 26524, 51531, 229027, 92358, 144287, 172462, 110354, 152094, 206569, 70758, 97042, 59444,
       42378, 158676, 18328, 62725, 169843, 232567, 67144, 23515, 14671, 52512, 78290, 217447, 121876, 82660, 184248,
       97502, 64780, 93923, 31627, 233007, 170209, 76750, 39755, 213031, 90267, 226594, 229370, 18370, 152700, 73472,
       46979, 151756, 141055, 118692, 6387, 131738, 74340, 134371, 191621, 28442, 86133, 20497, 16093, 170146, 246866,
       67925, 9275, 15258, 71786, 68967, 44644, 43832, 97247, 5962, 82629, 233223, 124404, 9002, 167560, 101285,
       19023, 196575, 114390, 71601, 53023, 61480, 8102, 80379, 139415, 115462, 124163, 45145, 18631, 107234, 221963,
       88332, 6746, 141604, 51275, 214305, 253962, 52400, 256808, 74368, 100255, 157363, 131531, 65465, 131294, 237040,
       95113, 29604, 29618, 66216, 111341, 197549, 77713, 75735, 176834, 99708, 101634, 81826, 79601, 44971, 98040,
       80689, 236877, 258599, 103444, 154740, 92275, 124398, 185368, 18840, 49376, 246344, 56986, 75643, 235937, 253652,
       11307, 260919, 237456, 47029, 37285, 201690, 54008, 30444, 77656, 109476, 59137, 69394, 67291, 96713, 41236,
       95822, 86948, 46565, 2491, 88587, 245887, 60881, 257738, 74130, 118137, 133433, 125143, 29401, 71492, 13122,
       4131, 177175, 246419, 56807, 196488, 210038, 92331, 75391, 142941, 59567, 115544, 229814, 60290, 72747, 52684,
       87792, 179926, 135295, 33343, 65504, 92504, 98551, 183178, 101811, 20068, 235070, 136756, 51871, 215832, 158381,
       85984, 77278, 91044, 108575, 257560, 154532, 103747, 146947, 98065, 94592, 203128, 43458, 47067, 126139, 53839,
       16030, 175989, 33940, 28420, 234509, 42235, 113355, 130480, 169725, 112372, 36004, 114596, 124722, 257966, 123630,
       9959, 258102, 17783, 70360, 167883, 183184, 85024, 48250, 174866, 93147, 74377, 80299, 84392, 115851, 192015,
       100926, 244553, 110742, 47116, 172608, 8999, 23518, 160513, 57705, 26815, 39781, 139525, 1570, 18556, 48854,
       45917, 101822, 41355, 12025, 19985, 14811, 42138, 43500, 141895, 82340, 196931, 150304, 117241, 7261, 230816,
       110048, 200716, 99822, 33118, 134823, 53194, 17574, 143029, 126939, 25306, 96749, 201995, 127269, 42582, 59827,
       72020, 188481, 232363, 23920, 244153, 230200, 110198, 73396, 246684, 51798, 132847, 236914, 117862, 221748, 147211,
       34167, 123828, 145466, 51540, 94993, 31026, 66184, 134522, 255389, 116996, 229918, 147859, 113869, 202919, 53837,
       75281, 227481, 255719, 29068, 146700, 131394, 52868, 211025, 215524, 127878, 46437, 33714, 79662, 13631, 131970,
       102380, 11785, 235806, 58964, 174417, 162111, 69731, 67530, 239068, 56223, 228956, 49263, 92133, 68434, 205168,
       111604, 2289, 23279, 66501, 40458, 172350, 63028, 68036, 111615, 44602, 7291, 176150, 23212, 109553, 205101,
       123109, 20324, 190974, 41429, 52661, 67852, 104948, 60689, 236834, 93761, 252909, 200734, 103667, 39768, 53194,
       122784, 19078, 38055, 81706, 118563, 118303, 117696, 38642, 16466, 21980, 111020, 73511, 82144, 123405, 212481,
       101223, 185895, 192134, 35604, 143206, 93717, 97092, 21559, 129336, 102036, 134989, 257987, 108945, 122623, 93778,
       41010, 49576, 160973, 89339, 141292, 22991, 39879, 22639, 147949, 96867, 131509, 218173, 60682, 231797, 178445,
       78321, 88148, 6680, 54504, 256388, 238112, 21231, 111725, 102662, 23334, 179963, 4825, 10167, 29311, 4875,
       81012, 5839, 169072, 111232, 191914, 185017, 2731, 32634, 205671, 8682, 37753, 100248, 59961, 29783, 137329,
       96694, 139547, 101539, 20671, 14786, 245405, 35605, 231147, 8458, 30409, 135479, 208782, 52304, 115692, 254912,
       29491, 6971, 123176, 46215, 213383, 183566, 95491, 140375, 253553, 80086, 53533, 82378, 10640, 169997, 138051,
       83590, 157277, 138598, 62531, 120332, 31464, 122495, 99354, 177431, 37919, 182308, 112244, 95180, 22272, 128560,
       95795, 102183, 60966, 29032, 144275, 205348, 118387, 85713, 209169, 64380, 95537, 135808, 88982, 157460, 184388,
       19117, 151994, 198085, 33790, 229378, 23502, 76822, 60859, 247856, 41815, 142113, 148376, 65495, 196666, 115599,
       49021, 159774, 193435, 83958, 174911, 83510, 63851, 30668, 87304, 604, 61217, 244132, 85154, 253438, 132750,
       55328, 83027, 193208, 44787, 22252, 6249, 12340, 816, 169992, 28884, 77616, 26677, 29330, 73872, 190299,
       122600, 196876, 249986, 56690, 89293, 14874, 5513, 171632, 141952, 18194, 256946, 260649, 10358, 254508, 185032,
       77184, 75684, 116256, 24460, 223384, 21518, 65346, 248257, 117776, 48504, 203084, 35318, 105365, 179438, 233409,
       42007, 57078, 24398, 60065, 202718, 62821, 94540, 88978, 115512, 56800, 54891, 155660, 103968, 90894, 221789,
       86728, 76530, 128533, 53808, 228595, 171972, 66057, 240900, 205584, 126773, 76379, 95213, 86718, 194529, 75840,
       118619, 140052, 183008, 23430, 61490, 84146, 63338, 191226, 141922, 119100, 26840, 237485, 42285, 106985, 127992,
       126833, 178724, 102637, 12724, 36918, 25397, 118314, 240026, 258643, 58354, 221056, 116650, 9665, 208460, 109279,
       115280, 171490, 69377, 33022, 80614, 198046, 2916, 96586, 175926, 17800, 133415, 228800, 86391, 127782, 43950,
       128163, 185468, 3368, 14609, 148258, 7113, 60548, 119161, 45900, 23676, 103286, 66878, 97653, 112354, 87088,
       15474, 56651, 217546, 31436, 140943, 138157, 25743, 84670, 88071, 72419, 228760, 145276, 114449, 258292, 63273,
       66989, 161178, 47981, 7634, 22502, 229826, 73844, 134718, 192527, 104532, 176271, 144889, 17321, 256139, 22627,
       9530, 105981, 78575, 24616, 89396, 92698, 97791, 6948, 24722, 77552, 192924, 154154, 70856, 215609, 69517,
       32699, 217251, 163517, 43546, 239864, 250925, 126600, 125938, 80094, 31539, 60219, 42565, 118180, 122923, 196467,
       76091, 111503, 143984, 16160, 187286, 56357, 61251, 148905, 140513, 124328, 46525, 215397, 54862, 60313, 221530,
       113165, 210716, 159585, 33610, 163018, 73515, 74831, 238100, 93427, 110605, 98821, 30966, 120676, 124613, 8519,
       63677, 220300, 99483, 83845, 52146, 220044, 390, 160353, 257770, 33190, 127234, 220116, 36531, 92500, 193968,
       12254, 82843, 178944, 36660, 48441, 204468, 42090, 28080, 20423, 126978, 26827, 96117, 87635, 13428, 76638,
       55837, 88544, 48405, 129506, 71898, 218376, 20084, 122336, 205215, 62396, 257449, 59108, 84811, 193358, 6811,
       7285, 17019, 52514, 93978, 124341, 233498, 13089, 213301, 237055, 18387, 21693, 37732, 20930, 215948, 81444,
       121751, 117272, 152165, 89553, 12942, 174404, 85908, 50705, 24822, 72809, 168707, 173713, 38378, 175075, 195214,
       81381, 66941, 109713, 53759, 37771, 21535, 19059, 258375, 174081, 90386, 234890, 247109, 16984, 155691, 60394,
       24991, 81854, 232082, 107177, 126930, 203786, 86522, 227547, 27315, 82705, 71451, 79454, 54814, 177038, 205816,
       51941, 73423, 10550, 90474, 26400, 215854, 96994, 1561, 125235, 66874, 174289, 35953, 127044, 15307, 252818,
       125265, 118642, 226870, 54057, 251164, 22559, 107560, 157316, 33430, 71207, 53093, 18250, 67076, 227460, 196121,
       7204, 65392, 160739, 75232, 3473, 141476, 118040, 144314, 38065, 102253, 184518, 95455, 103064, 42150, 36554,
       20962, 57394, 243478, 46982, 179813, 173931, 30566, 166418, 61171, 41407, 169843, 164750, 75961, 99832, 106663,
       47812, 247460, 74202, 73491, 205607, 152254, 57475, 61764, 198149, 37567, 71952, 139160, 12504, 188462, 182964,
       116895, 13180, 232642, 1490, 191320, 74248, 216, 155956, 56191, 108370, 8741, 138724, 130654, 935, 250139,
       95302, 215438, 229168, 2001, 254935, 187674, 29712, 194350, 239268, 127378, 195289, 22092, 105985, 98707, 247794,
       74291, 154436, 40144, 31045, 211526, 7760, 1883, 139363, 245728, 2734, 93045, 207766, 80213, 145685, 31798,
       2861, 143575, 144647, 130237, 23583, 30019, 24036, 127355, 200728, 93153, 218978, 10451, 20323, 258947, 38140,
       70791, 32739, 51255, 10565, 231421, 54162, 100503, 47621, 49668, 76666, 203876, 175451, 11294, 10705, 80817,
       111225, 233043, 159996, 71698, 215974, 40176, 120794, 248318, 4811, 120143, 172709, 150326, 120652, 208924, 121895,
       10195, 121047, 207246, 15854, 46071, 121714, 129460, 150966, 105422, 63910, 213611, 73776, 31223, 50418, 207210,
       100881, 121591, 250199, 34640, 102895, 102206, 95317, 161129, 111585, 109744, 189130, 43296, 102794, 254119, 123185,
       35919, 260654, 1286, 52640, 248969, 24068, 54165, 166591, 107190, 64392, 32485, 92679, 21937, 234460, 216316,
       59306, 40487, 155340, 66949, 91260, 245500, 69692, 42362, 114496, 107465, 259302, 20103, 67808, 17664, 130010,
       30249, 81341, 29010, 86917, 159902, 97577, 104505, 146667, 241774, 41860, 179060, 254500, 84581, 141224, 95445,
       19259, 119801, 6092, 44816, 252862, 115176, 119173, 209425, 65613, 119446, 257834, 232938, 75408, 247250, 76410,
       92058, 160085, 185508, 111937, 133300, 187442, 125639, 126643, 40599, 64210, 103678, 101537, 73606, 224120, 75344,
       54478, 254652, 232019, 9434, 214028, 126022, 55417, 182646, 110965, 103629, 27951, 207218, 105497, 249559, 48841,
       116965, 171223, 4334, 6745, 221244, 133507, 69095, 54097, 126091, 14080, 89779, 218710, 26311, 178108, 261115,
       117993, 46504, 92717, 65115, 111103, 40324, 99423, 262110, 100375, 8438, 249962, 201083, 54634, 74323, 185084,
       88374, 5784, 208020, 17485, 223953, 82549, 42705, 157561, 180336, 8460, 107452, 222640, 85372, 112388, 237232,
       127256, 172781, 3949, 108402, 132806, 26657, 127745, 210020, 239248, 110835, 29282, 80518, 112092, 58906, 88872,
       75651, 201680, 245197, 67928, 96196, 201629, 53248, 146593, 90157, 107229, 87577, 255028, 23863, 253251, 41783,
       7369, 134261, 126380, 124242, 88900, 23283, 495, 56175, 25512, 128034, 255033, 221545, 95532, 70489, 130476,
       43057, 2726, 258998, 91464, 168420, 116506, 107200, 139618, 148859, 32160, 25009, 33687, 101042, 219938, 132914,
       105430, 87946, 117808, 32683, 107499, 250683, 5495, 97287, 39732, 26754, 187716, 129678, 26299, 33057, 240738,
       8551, 51592, 125592, 95159, 62893, 259121, 49804, 19214, 207479, 115918, 69137, 260259, 33052, 149726, 163859,
       59406, 12148, 208584, 83757, 76662, 135163, 115011, 22513, 213013, 68763, 35921, 255239, 48958, 162533, 167261,
       113641, 104953, 107273, 40664, 162365, 229039, 10410, 58499, 155699, 58332, 146568, 208450, 102903, 196573, 193734,
       4034, 132429, 209841, 76792, 198604, 78345, 77917, 155128, 151490, 121705, 216535, 33078, 37547, 135400, 193963,
       36547, 176309, 88797, 57735, 19175, 108180, 46781, 144170, 52890, 96514, 85174, 95557, 84115, 190907, 94529,
       99473, 78192, 112806, 107484, 135700, 108277, 120976, 257695, 90596, 56483, 193805, 73789, 129066, 67169, 234629,
       28267, 24676, 204361, 93633, 70911, 189834, 69993, 175436, 196429, 107072, 208338, 9491, 62491, 69645, 160419,
       102752, 106119, 162553, 121919, 19337, 103040, 95983, 71840, 251648, 101724, 60367, 94721, 8804, 214467, 13732,
       26864, 55234, 214454, 127703, 246382, 174914, 90857, 106682, 61000, 73590, 64381, 203639, 48100, 85777, 36569,
       5818, 40675, 232400, 48383, 100067, 231160, 65393, 133202, 172219, 27716, 110313, 251414, 22693, 101058, 11511,
       66639, 45670, 158627, 76795, 167764, 226868, 31446, 136697, 166862, 76990, 82102, 113377, 118009, 94304, 255681,
       62019, 200612, 91193, 112379, 221330, 81449, 121539, 84614, 73989, 12110, 70821, 11452, 12558, 56457, 165763,
       62396, 16551, 164188, 77083, 200168, 88487, 55821, 104190, 72307, 42788, 145589, 151372, 84016, 99821, 136872,
       272, 217051, 197400, 126887, 78923, 138824, 30419, 18414, 216122, 120205, 254226, 33319, 14288, 204628, 120582,
       31206, 147619, 216505, 30785, 95878, 233400, 130567, 197514, 224807, 603, 715, 128820, 83838, 172849, 221286,
       113991, 146683, 107827, 88116, 66159, 259340, 47544, 64755, 41910, 125607, 137570, 20358, 117115, 144794, 15043,
       56879, 88947, 73331, 75147, 81837, 10328, 126814, 176943, 2078, 128786, 39782, 147037, 58959, 61969, 132531,
       111063, 226201, 29874, 39581, 39926, 117051, 48734, 67339, 197150, 21603, 139944, 226829, 27418, 63686, 111431,
       86097, 182838, 145688, 66949, 44101, 237769, 30294, 239923, 158533, 52810, 44364, 36080, 48913, 236572, 47483,
       129415, 72542, 212088, 111878, 152414, 116883, 50851, 137166, 173137, 119788, 229069, 11882, 44909, 237515, 251967,
       87543, 49041, 42255, 126700, 196179, 111530, 51154, 165481, 54241, 89113, 231249, 89741, 38787, 85396, 255208,
       34906, 23024, 32153, 75255, 226120, 217887, 128354, 44405, 122176, 59393, 41895, 186104, 122897, 249816, 63411,
       119847, 119360, 223735, 33261, 45383, 197716, 52667, 71650, 157909, 84318, 247060, 143151, 67901, 81306, 260725,
       12577, 124892, 72505, 130245, 259051, 253268, 98651, 226819, 64995, 57369, 113502, 166327, 81024, 154177, 225387,
       11478, 90257, 109141, 64920, 46754, 3340, 122006, 17407, 247009, 117519, 73603, 70044, 44221, 47757, 46011,
       69647, 117610, 16844, 91407, 118821, 211123, 44565, 182093, 170684, 8503, 222527, 59805, 66249, 65229, 29423,
       78857, 157067, 191104, 765, 175691, 216418, 12527, 66941, 54469, 27169, 261944, 7709, 45619, 238383, 102904,
       70916, 174556, 38066, 38514, 151793, 228479, 36199, 252948, 126809, 113947, 93635, 212329, 19012, 20340, 12518,
       64940, 249187, 151188, 124888, 168112, 128265, 81921, 193092, 42190, 94005, 145925, 70462, 56523, 24886, 205712,
       2612, 143919, 89343, 84689, 157192, 187863, 82827, 151890, 67304, 14473, 254585, 124975, 60576, 51900, 97555,
       119973, 260947, 96809, 26880, 230449, 210320, 60437, 35643, 10134, 60437, 187876, 37049, 106268, 33332, 107065,
       108078, 211937, 22442, 99518, 252018, 119889, 47900, 211695, 54135, 9442, 6248, 123623, 45807, 113453, 127619,
       89101, 155276, 144614, 92110, 104598, 118722, 126484, 133026, 179637, 59459, 173929, 89957, 82894, 156428, 115852,
       70672, 216480, 115422, 19741, 229614, 224321, 60450, 191477, 35391, 71412, 166040, 210410, 124616, 171013, 23875,
       48043, 1819, 38233, 128463, 144085, 131484, 71080, 93140, 108678, 31780, 243442, 47184, 25121, 218768, 85525,
       18572, 61917, 35906, 59366, 214227, 44840, 2873, 246678, 233760, 58332, 255688, 160225, 129552, 47136, 47683,
       87832, 62371, 166698, 99586, 179956, 21874, 15598, 71977, 120879, 62010, 72382, 124499, 37515, 218706, 31762,
       117191, 39633, 46820, 23762, 96178, 127401, 60127, 24813, 26374, 77076, 154806, 66969, 67376, 103273, 10357,
       108821, 178178, 206697, 30337, 7882, 258664, 49465, 106856, 148643, 103820, 19115, 178868, 69215, 98586, 235148,
       52706, 86500, 23061, 3859, 23407, 138515, 98747, 192491, 115627, 127425, 222644, 261216, 81302, 67871, 24730,
       112268, 149652, 71914, 67747, 245736, 247259, 30366, 232652, 207739, 1892, 250475, 782, 85642, 57076, 130150,
       64632, 200004, 198050, 102511, 44128, 7227, 91053, 108479, 242962, 129492, 234043, 163464, 66887, 181123, 245331,
       55990, 171450, 149430, 37583, 142756, 224329, 62503, 42791, 203082, 114409, 2721, 50604, 5562, 172946, 160928,
       128175, 82574, 211884, 130194, 199379, 122704, 78357, 168751, 20285, 43456, 42432, 105091, 29235, 124354, 208944,
       36240, 39096, 261418, 6567, 109697, 138382, 62273, 194917, 67612, 7513, 159077, 9791, 94171, 223419, 224141,
       48749, 140927, 120994, 26131, 35158, 167518, 71415, 11936, 31519, 127632, 152022, 72058, 91112, 56847, 195621,
       64454, 63736, 227294, 101831, 186392, 194745, 96662, 135299, 1299, 116881, 144271, 108434, 26826, 96547, 100123,
       112574, 210154, 102760, 39456, 23928, 182339, 123338, 160292, 167471, 36839, 202166, 45291, 121483, 233897, 217975,
       126325, 255990, 129390, 19069, 221041, 7386, 127729, 170052, 145691, 11235, 230927, 93969, 28648, 30651, 178024,
       58218, 23710, 6052, 130232, 208120, 259096, 64036, 245430, 82374, 72143, 69870, 233134, 91019, 174845, 221294,
       126916, 45421, 177831, 102675, 113958, 124655, 29380, 82226, 36123, 39713, 164433, 132135, 12796, 86146, 72696,
       84469, 173087, 89003, 23689, 260429, 62855, 33738, 150350, 208463, 116406, 218369, 12039, 42828, 136282, 174901,
       74271, 135965, 192666, 52109, 202350, 1602, 9703, 112434, 82157, 47561, 75474, 120912, 53486, 82708, 161084,
       117401, 87773, 159664, 42526, 103828, 161169, 49707, 233845, 108005, 102615, 221580, 192422, 99477, 253280, 74432,
       104632, 222240, 175281, 125012, 167364, 17100, 104275, 81901, 142964, 53426, 5875, 56966, 107676, 200363, 184063,
       66673, 361, 12829, 36400, 139898, 120625, 39703, 247976, 48029, 29339, 123090, 185221, 19004, 135519, 233095,
       24181, 138218, 182450, 8280, 228947, 3583, 116451, 8327, 235956, 122029, 14582, 28474, 76909, 44272, 46903,
       110164, 169650, 29030, 24061, 8275, 22913, 118184, 50232, 19128, 66369, 215572, 135449, 8803, 117941, 108928,
       18522, 37760, 231572, 40498, 42642, 132553, 5709, 46968, 244422, 40539, 183931, 166274, 7855, 52882, 64499,
       30936, 159978, 13388, 34821, 227079, 135730, 130333, 243917, 57413, 30873, 150371, 254846, 31350, 169406, 183661,
       90018, 210674, 215676, 112637, 184398, 107340, 50732, 33302, 242741, 114769, 1339, 122788, 44583, 24888, 224333,
       25823, 69565, 239455, 43206, 110095, 219072, 79869, 146445, 10222, 48122, 49329, 147796, 88197, 140686, 136377,
       31055, 172906, 248641, 91880, 141715, 77152, 45539, 115644, 58579, 59751, 151834, 128102, 73104, 202125, 168118,
       89944, 231635, 13293, 31288, 178524, 204961, 109569, 14019, 87190, 94613, 97752, 112128, 30683, 178898, 41385,
       127791, 226982, 128775, 87136, 71095, 167823, 59300, 130249, 169042, 20647, 110523, 217470, 69890, 89971, 165182,
       21597, 132392, 192665, 56294, 87375, 76292, 53570, 201269, 14449, 94363, 243548, 138858, 25216, 12669, 70452,
       107724, 84469, 135252, 42746, 214005, 163178, 58194, 125125, 3843, 101232, 72442, 240101, 81971, 113407, 128987,
       40373, 130786, 164030, 50620, 102164, 92515, 40080, 23405, 17639, 77957, 187528, 192601, 43597, 199967, 200577,
       95118, 169935, 2474, 75993, 226086, 16503, 19098, 14946, 34646, 40667, 138513, 168170, 29025, 146566, 77550,
       51159, 34968, 220885, 67631, 17340, 53811, 66422, 110422, 236490, 98896, 243095, 46154, 24795, 35259, 246865,
       124056, 22723, 21233, 44937, 103245, 57753, 39354, 56849, 87085, 89807, 190473, 165304, 105580, 177092, 163429,
       49607, 13410, 176255, 97890, 190498, 75843, 115833, 10287, 60074, 100506, 128452, 35264, 4482, 52889, 83600,
       108444, 235392, 94164, 101512, 201375, 128435, 87725, 55075, 52398, 99617, 172625, 176898, 128375, 64351, 199297,
       56506, 217168, 134068, 8811, 21981, 76172, 60409, 201876, 221200, 6086, 39866, 185147, 38567, 259388, 156436,
       76923, 133187, 158060, 40582, 233785, 179833, 89836, 32944, 32183, 107739, 102745, 92928, 55107, 210791, 183903,
       117982, 231093, 140281, 10464, 169976, 204594, 110115, 81961, 115364, 108602, 193808, 11829, 42204, 100657, 230833,
       39153, 51644, 39304, 39989, 107313, 216160, 106350, 261269, 155769, 109006, 127383, 31728, 43217, 100171, 97599,
       77672, 529, 155694, 18210, 67174, 51205, 61443, 201007, 214189, 130913, 203567, 59019, 20819, 95621, 205193,
       124198, 243884, 83626, 108036, 187411, 80282, 127430, 31124, 13180, 23537, 195903, 7240, 27986, 77484, 95500,
       2210, 213711, 108856, 94988, 30414, 156104, 84422, 204382, 179439, 23339, 103057, 57943, 103696, 249803, 48750,
       39216, 40207, 148747, 17694, 36507, 10441, 55386, 35030, 39224, 11923, 157279, 84775, 34503, 228724, 153217,
       48671, 106418, 229214, 111655, 141841, 99217, 103880, 248674, 189479, 58032, 180811, 184013, 94971, 131588, 91888,
       74534, 11826, 44302, 44674, 215909, 90752, 95141, 210226, 142016, 89587, 157594, 56090, 81145, 248178, 224150,
       80996, 174602, 28104, 89519, 213830, 107559, 50403, 39172, 258487, 113911, 132443, 178941, 21274, 3650, 87074,
       115852, 166576, 46089, 44863, 148302, 182497, 16388, 37728, 10647, 78646, 207545, 179696, 49281, 85115, 30126,
       106889, 47246, 118573, 56463, 239319, 100858, 87629, 216884, 252551, 40403, 259837, 60685, 27453, 89574, 111910,
       50862, 95049, 93722, 79535, 135396, 155250, 86107, 84673, 3349, 75786, 184558, 71737, 129506, 115120, 243953,
       90582, 150188, 174642, 122096, 36864, 232492, 15457, 193913, 131216, 8044, 71475, 70454, 40762, 182866, 252930,
       17902, 258298, 151205, 68926, 167701, 232915, 68023, 238776, 250750, 75372, 152620, 71795, 97678, 133377, 234551,
       127314, 33152, 95207, 115115, 32297, 71071, 15514, 165367, 41775, 44369, 174644, 38368, 33531, 61745, 42213,
       23175, 210952, 61533, 71398, 46932, 113725, 72517, 123654, 45243, 29785, 113791, 187427, 93309, 208769, 114379,
       96064, 142349, 165224, 2749, 233277, 119522, 51872, 197589, 5048, 116672, 134774, 107862, 68199, 52591, 68202,
       45564, 71090, 232495, 33249, 220343, 2563, 31896, 252611, 16364, 13076, 208596, 158197, 107115, 131387, 119581,
       11358, 94224, 260423, 38311, 172897, 91176, 5986, 212442, 237257, 102417, 236051, 255679, 5148, 259731, 116437,
       40409, 168371, 125104, 75143, 61051, 62979, 53682, 6977, 85174, 36997, 218451, 140306, 36069, 152594, 89898,
       104567, 254538, 236293, 127661, 67339, 94573, 45618, 115129, 246205, 5130, 230885, 232467, 4792, 196514, 47018,
       99511, 162728, 30415, 72400, 56952, 227655, 102707, 14887, 247812, 91422, 86017, 256281, 118948, 176216, 15166,
       116106, 199616, 99895, 103327, 169973, 228192, 62283, 260462, 93779, 40386, 195165, 141583, 66457, 3954, 43352,
       65807, 138861, 133791, 79990, 9632, 59044, 24392, 47291, 246869, 85933, 107208, 248841, 59847, 156326, 78336,
       81291, 127856, 15029, 31405, 126707, 59391, 56937, 1974, 5516, 27551, 129389, 58840, 114727, 261490, 85179,
       63958, 7889, 105669, 29488, 200304, 204070, 5401, 80260, 43528, 88570, 109642, 167087, 28133, 239062, 199805,
       129706, 135557, 184833, 69953, 45965, 117755, 37876, 207841, 118725, 86203, 25323, 171028, 36073, 164050, 260469,
       107514, 260112, 192630, 40401, 30321, 141119, 129531, 159063, 234021, 79317, 140854, 172958, 110678, 172520, 181454,
       9544, 18147, 224828, 45652, 78967, 30476, 96663, 237858, 117329, 85859, 234755, 110519, 25459, 218736, 64899,
       46688, 60426, 59904, 34530, 14236, 12142, 80395, 171675, 197308, 45163, 64742, 33685, 40508, 93744, 171069,
       27181, 117087, 20165, 53612, 732, 11434, 25624, 239993, 110075, 126165, 241423, 75802, 20250, 225820, 94550,
       119708, 177104, 64060, 56160, 216510, 101329, 49527, 170720, 59157, 30319, 143902, 112317, 83329, 223938, 174767,
       89853, 138407, 185261, 61285, 120891, 122439, 7301, 161017, 83760, 120390, 252306, 2839, 128493, 183528, 42142,
       56497, 189403, 243228, 80433, 196437, 73431, 59021, 141961, 53728, 42189, 107374, 112796, 10134, 86197, 137326,
       59777, 186006, 141230, 107267, 78792, 241829, 2232, 91139, 2248, 76298, 4784, 19680, 115444, 147281, 178436,
       28514, 167481, 105085, 24019, 186829, 30877, 101223, 220694, 220366, 33434, 180538, 127342, 25163, 199732, 40892,
       49543, 211563, 124600, 51446, 6226, 135847, 114570, 45752, 115314, 81060, 163251, 10142, 53210, 47187, 84029,
       70043, 78447, 227299, 125038, 34357, 58850, 14839, 71851, 192344, 27225, 180581, 113513, 126160, 147490, 912,
       125478, 126496, 152034, 23221, 111698, 134766, 19019, 184255, 82629, 55192, 123398, 138703, 6516, 177217, 259606,
       85839, 135209, 156357, 10157, 146420, 225004, 7606, 15540, 144727, 63594, 110651, 185484, 125539, 2613, 28812,
       55940, 261339, 171919, 46724, 183088, 182985, 130804, 47871, 64790, 69726, 61768, 70673, 49183, 168213, 154448,
       50575, 143792, 230981, 25553, 191644, 17971, 67138, 26367, 250209, 57521, 158925, 87543, 35493, 178541, 205036,
       21042, 81325, 55713, 40794, 183761, 96851, 66674, 36995, 134739, 7645, 225093, 224157, 20151, 140853, 206318,
       124211, 87371, 155201, 71153, 35801, 27684, 8316, 111969, 102416, 90844, 104521, 101194, 8100, 164046, 80512,
       96845, 189448, 44985, 98299, 29848, 13976, 85338, 58591, 170325, 95971, 134760, 257278, 11529, 223044, 247843,
       95260, 152189, 230037, 17916, 2999, 176725, 44499, 188292, 65804, 123567, 132609, 250500, 65912, 234516, 13391,
       126802, 135608, 173035, 11655, 64102, 101591, 62594, 78280, 236614, 8179, 51622, 70626, 82602, 241044, 227555,
       10316, 74470, 197143, 22985, 211973, 120180, 33925, 106535, 180563, 98139, 92831, 220265, 21490, 220944, 223341,
       110969, 198309, 29476, 17288, 239355, 245103, 4619, 146912, 255557, 51779, 103063, 72019, 128377, 98276, 224927,
       14462, 203549, 200447, 13332, 115316, 105304, 98456, 235117, 194271, 40915, 172374, 34231, 94015, 140544, 13515,
       26215, 206564, 27113, 60302, 145863, 24351, 34772, 19623, 34478, 59182, 185121, 4066, 100807, 24672, 215092,
       99878, 43756, 164550, 67603, 80029, 244836, 121683, 145306, 124019, 34574, 186089, 199335, 31498, 23439, 83213,
       80452, 218264, 259929, 81434, 169048, 131915, 6100, 25183, 23298, 79662, 167855, 135097, 49078, 25170, 8235,
       97968, 206223, 34505, 105920, 6727, 124348, 72371, 237354, 138428, 223, 126324, 85728, 83409, 193847, 174634,
       98157, 96230, 3812, 32634, 192589, 190033, 60902, 21144, 245087, 126579, 188739, 115634, 39074, 157762, 13875,
       29249, 37465, 199973, 27637, 41706, 121605, 73243, 37476, 58568, 124490, 129746, 64019, 79782, 60978, 133249,
       39757, 44044, 86875, 83698, 161992, 28717, 81899, 86410, 188736, 78240, 44928, 250035, 20896, 81733, 179489,
       83173, 246290, 134520, 56382, 135035, 160476, 2436, 235486, 2607, 70748, 2846, 190220, 129665, 44781, 227474,
       45841, 17734, 86676, 126557, 203912, 62833, 12609, 230417, 6854, 96003, 183916, 212842, 14985, 120864, 60256,
       35857, 150284, 73738, 74821, 65527, 115020, 77696, 214970, 237030, 101608, 130488, 20650, 80650, 25367, 47374,
       77806, 69869, 239529, 119583, 247416, 48218, 59265, 160986, 48423, 29526, 9475, 59213, 21205, 249932, 89354,
       52428, 24062, 259014, 93421, 243565, 138029, 5576, 68067, 119104, 16915, 74835, 253644, 13908, 131974, 126945,
       76709, 238042, 178279, 31832, 198043, 23609, 21791, 250553, 170194, 77695, 168762, 152384, 99786, 108327, 238014,
       43536, 54842, 251251, 75786, 113790, 57790, 12861, 95181, 12315, 122577, 94042, 163165, 44157, 172176, 155409,
       130745, 17358, 8385, 128265, 119101, 33233, 102081, 248290, 10954, 2630, 61427, 259279, 71234, 90377, 255945,
       11381, 215823, 34719, 117327, 139287, 74891, 103499, 53190, 223533, 127446, 156720, 123275, 79741, 254393, 203993,
       68442, 61296, 253407, 68022, 246742, 21307, 50652, 147150, 259571, 61432, 37877, 176584, 83284, 209216, 69648,
       122283, 80954, 179627, 78103, 197128, 17312, 112343, 236137, 17437, 113086, 75637, 136359, 68004, 114422, 240003,
       45543, 141780, 178529, 83830, 59434, 183154, 58442, 9164, 108338, 10674, 161837, 168982, 49520, 50963, 237989,
       130295, 6102, 76856, 6358, 143609, 221682, 91313, 137750, 146367, 110256, 74960, 95621, 85029, 210139, 251248,
       74678, 10526, 105232, 92740, 150088, 134450, 56274, 212667, 214204, 11974, 253134, 204197, 126139, 259674, 161841,
       56662, 138024, 246920, 87213, 235429, 255901, 69639, 241587, 184539, 7166, 28544, 242118, 124878, 105509, 27502,
       103879, 115160, 49442, 19542, 146597, 49305, 128666, 178654, 132657, 96587, 35822, 220222, 61908, 37582, 67803,
       80133, 130037, 109130, 13990, 49908, 76017, 73454, 67486, 144757, 9654, 236986, 108152, 71415, 70323, 12736,
       72442, 243615, 2848, 114614, 115460, 250327, 95034, 193115, 29389, 32709, 86809, 162541, 116447, 207436, 227103,
       75136, 16401, 144858, 79479, 97259, 138428, 22148, 190323, 141677, 112430, 26416, 125120, 122023, 120469, 184413,
       101579, 150578, 76398, 123306, 80077, 245556, 39623, 13902, 82651, 112868, 160336, 161103, 64080, 52958, 185451,
       21484, 250511, 40878, 87661, 8419, 39148, 89669, 3177, 183326, 37607, 201816, 11925, 3603, 158849, 154132,
       26194, 99599, 194476, 52399, 168487, 124622, 21962, 211256, 51783, 25431, 234193, 18188, 51300, 93627, 223472,
       126063, 77361, 127575, 100170, 242758, 222134, 41910, 16369, 191636, 124728, 170005, 253115, 84626, 56716, 38929,
       59696, 182405, 166144, 61381, 11449, 204787, 53837, 25922, 243127, 30538, 192495, 79114, 50676, 171625, 28630,
       69192, 113993, 37806, 69209, 157526, 62539, 99842, 99417, 71544, 47028, 92466, 242659, 93952, 39661, 152516,
       75771, 171308, 201338, 126071, 226, 1351, 50500, 17255, 173507, 118124, 64068, 245046, 107563, 68146, 214510,
       83579, 244609, 29264, 85788, 136363, 86556, 11095, 61925, 247616, 124547, 220071, 6901, 14016, 84859, 214328,
       73824, 30472, 149388, 43263, 10474, 91563, 56341, 146407, 1710, 79977, 237920, 249441, 119124, 253703, 113475,
       59974, 62395, 194669, 129463, 180426, 175716, 77701, 16522, 228393, 21044, 33127, 35650, 24904, 235481, 233309,
       93862, 27697, 74502, 6605, 193904, 138122, 62959, 86790, 70371, 19427, 98345, 258656, 56782, 218352, 223555,
       98293, 46227, 259342, 60137, 138446, 60722, 21423, 226428, 142634, 33020, 94933, 187626, 48174, 39049, 254628,
       9117, 137217, 42376, 76590, 79334, 84658, 79630, 175398, 8631, 8146, 98931, 89658, 52731, 196474, 7504,
       54263, 235276, 24244, 43754, 104461, 153621, 73104, 16579, 55905, 45345, 89164, 239967, 54579, 156520, 226704,
       104533, 1680, 108214, 21247, 261471, 153837, 81148, 157638, 107369, 66269, 70626, 110874, 39986, 91663, 75439,
       95359, 110754, 173871, 72245, 94545, 84138, 62568, 191381, 83485, 87512, 197243, 230758, 105157, 208469, 110546,
       127489, 168728, 71514, 82490, 55439, 56784, 114614, 156700, 229349, 143, 18471, 253425, 69499, 13819, 114521,
       28134, 74321, 20061, 12345, 260501, 161392, 69726, 132421, 181240, 97888, 11485, 149531, 54037, 100680, 140270,
       87832, 84829, 241853, 64188, 126363, 195879, 57289, 188382, 187851, 38044, 135888, 249252, 50147, 77891, 143689,
       45848, 108244, 95962, 84697, 12211, 132645, 15206, 204029, 103833, 12142, 8943, 124414, 86509, 58504, 126615,
       71604, 99775, 257353, 56387, 49041, 253232, 19980, 260504, 83580, 53874, 38169, 258005, 103511, 189184, 150706,
       116604, 113932, 88004, 92088, 30455, 119918, 7852, 212000, 85109, 87871, 249099, 95358, 31586, 121423, 70495,
       41320, 160150, 150487, 25673, 129266, 211268, 101679, 226227, 44884, 85013, 151366, 195653, 80194, 116464, 104556,
       87552, 132617, 59379, 31034, 56058, 167202, 58280, 113423, 3150, 83001, 218048, 258367, 83439, 171019, 156282,
       103789, 159214, 125758, 37631, 76315, 214556, 100969, 130060, 241861, 57695, 225507, 170886, 87840, 229400, 137162,
       59732, 13260, 70886, 124336, 60863, 63142, 23501, 132761, 81992, 88474, 69984, 198824, 75567, 156138, 101874,
       22640, 53214, 261305, 8651, 152685, 31263, 104745, 118843, 84302, 20637, 120901, 204039, 24445, 210744, 105600,
       128245, 86666, 146932, 94012, 213470, 90686, 32831, 212678, 11708, 77456, 225995, 170571, 70007, 28018, 199715,
       110686, 209746, 143098, 95593, 138689, 231493, 109015, 92107, 22114, 27722, 155058, 2765, 83914, 212744, 57520,
       5274, 117910, 251469, 9036, 48216, 221179, 93523, 108850, 59072, 3200, 207537, 200589, 75990, 251460, 194691,
       110153, 151273, 180181, 49799, 192076, 80804, 5877, 85390, 33091, 93565, 108243, 237794, 121855, 226150, 247016,
       94001, 23252, 35766, 75818, 62137, 69803, 30150, 88811, 194428, 2015, 82259, 108435, 91052, 16410, 232570,
       30281, 16494, 44425, 112481, 25801, 44105, 61127, 72819, 81628, 69551, 122435, 18064, 98819, 254471, 17409,
       102161, 138576, 35151, 84233, 138934, 163987, 123002, 35365, 206863, 128751, 215127, 69499, 124110, 44293, 46990,
       108026, 213432, 201662, 92487, 185825, 119238, 86943, 117137, 142409, 13598, 194822, 163383, 35583, 261175, 186667,
       745, 148592, 65037, 18010, 153750, 110308, 57570, 179839, 12253, 19206, 219882, 121033, 118182, 216816, 76256,
       105604, 158235, 112992, 9386, 82979, 112214, 32625, 162139, 173554, 107357, 102251, 219186, 105256, 225942, 8669,
       123922, 24773, 243504, 130750, 152098, 198320, 127961, 175565, 124718, 53757, 158876, 43843, 32811, 13051, 27897,
       99406, 89254, 183219, 39226, 77751, 83735, 105696, 133169, 255189, 69986, 134852, 217228, 104061, 166676, 76583,
       36160, 33448, 18819, 66588, 40974, 59418, 73927, 190493, 130497, 123615, 15899, 160895, 34943, 125197, 114273,
       122773, 157522, 55459, 105494, 122622, 145287, 95799, 195417, 38192, 103136, 172994, 198871, 79354, 71201, 228892,
       31992, 14452, 91676, 24837, 127023, 102145, 113553, 27441, 46366, 95045, 123673, 136485, 27945, 29294, 158152,
       80621, 135699, 88326, 58660, 212968, 238998, 20795, 65650, 173665, 69711, 150742, 176405, 36899, 70906, 194746,
       12614, 238509, 134078, 61205, 41446, 206242, 77346, 185634, 171464, 6148, 30676, 125402, 52703, 26437, 113151,
       33772, 68984, 258237, 4017, 113829, 137667, 16470, 220647, 80520, 18223, 127209, 56207, 23969, 181783, 151573,
       105300, 79965, 85512, 57605, 20427, 13855, 19278, 224180, 2140, 13146, 32518, 195618, 39051, 170867, 45006,
       104597, 128468, 75705, 47770, 126140, 222092, 20958, 17513, 113651, 52968, 82876, 52755, 72785, 208781, 28820,
       3877, 172521, 165943, 82266, 69782, 79837, 51786, 169318, 154127, 1274, 207068, 237942, 88328, 8204, 200913,
       93374, 18918, 139126, 82423, 75698, 69411, 44817, 125168, 208430, 69416, 96320, 33881, 50745, 140209, 235895,
       91831, 233679, 58352, 76491, 5811, 193530, 10721, 150325, 221623, 84291, 146502, 144422, 90077, 187025, 22555,
       48588, 177266, 96509, 114790, 260540, 49807, 110495, 151392, 246738, 22959, 111836, 7081, 118523, 260462, 149847,
       57786, 6154, 65684, 94863, 82436, 116707, 106705, 84645, 148400, 66206, 24970, 100033, 52311, 23434, 247104,
       119990, 10954, 63519, 30258, 114528, 48334, 33681, 152574, 218741, 47398, 78066, 14602, 112651, 235523, 83417,
       123048, 224229, 81303, 28844, 187566, 57857, 113229, 49280, 140280, 33843, 46741, 48064, 127223, 233175, 135131,
       78303, 117235, 122047, 928, 219535, 116761, 4473, 124462, 107639, 19331, 24227, 203691, 24585, 154387, 134232,
       100613, 97954, 156111, 29198, 96719, 1211, 127027, 86618, 118711, 83376, 125714, 58513, 90769, 171697, 55021,
       28549, 169558, 227582, 117008, 210239, 201521, 87531, 207536, 112860, 113299, 98040, 56134, 125367, 233406, 210378,
       16468, 3709, 205943, 12659, 231065, 191560, 105304, 70948, 110991, 113524, 229328, 47867, 76514, 203674, 183375,
       47972, 111095, 66212, 85541, 123642, 196016, 40064, 346, 202950, 31245, 180733, 17762, 63982, 44276, 248875,
       28331, 187299, 208924, 63399, 261973, 96178, 125384, 85952, 224158, 110072, 45381, 114486, 123421, 117409, 62924,
       105687, 39686, 76780, 46497, 239776, 240437, 106436, 103155, 160358, 120968, 108092, 51542, 124129, 229319, 56085,
       89548, 28491, 30521, 27704, 65205, 54928, 5207, 99507, 50574, 19293, 217135, 76771, 126556, 43416, 226687,
       60567, 250331, 248316, 112064, 190561, 243391, 60954, 70069, 217815, 86614, 178860, 171465, 3164, 47169, 242112,
       32750, 78059, 45285, 57182, 180112, 67919, 82658, 19034, 250326, 22481, 163882, 19855, 100211, 75897, 53828,
       47763, 66490, 238299, 107142, 229535, 170894, 12841, 1210, 32887, 89097, 14538, 181076, 38447, 34416, 235200,
       104252, 121477, 42609, 52713, 73980, 137379, 87208, 185335, 215261, 122461, 68202, 50642, 2703, 150447, 106419,
       1457, 25924, 131880, 100962, 11047, 23742, 84724, 7876, 186309, 38401, 114799, 173558, 64801, 148013, 85332,
       5496, 155074, 69486, 25224, 60394, 74347, 55639, 154350, 240652, 109319, 227992, 173389, 62870, 245626, 206603,
       76855, 185124, 83321, 114524, 172234, 250135, 40477, 134386, 714, 91842, 16099, 183989, 112940, 118208, 119685,
       26557, 64257, 44467, 46724, 80232, 100721, 128425, 178025, 37441, 128872, 111076, 251204, 29259, 50704, 211441,
       8709, 49543, 260304, 35510, 62242, 222929, 52131, 137129, 143456, 57803, 127434, 214277, 81108, 47268, 89537,
       117899, 164043, 108474, 43299, 98203, 136066, 111409, 45360, 156975, 12252, 122977, 252146, 5488, 157428, 251243,
       66066, 55113, 202579, 7820, 12304, 24319, 51444, 110946, 135390, 117542, 131421, 203062, 31651, 174200, 104610,
       92533, 172175, 114734, 39631, 166910, 15822, 5887, 199617, 156208, 72966, 143625, 49292, 109425, 240310, 119106,
       53669, 222419, 872, 80909, 245477, 73785, 117967, 234092, 143015, 103506, 219984, 75535, 25411, 201174, 227317,
       96126, 26823, 18230, 65784, 32137, 59471, 97775, 94750, 46659, 64817, 37286, 223059, 16771, 192016, 212571,
       74699, 44825, 181902, 64504, 258644, 202349, 67885, 9823, 5485, 115199, 131702, 69560, 117288, 21334, 215114,
       59446, 4104, 170332, 59733, 186152, 78227, 67526, 153373, 122857, 68103, 158830, 100401, 124569, 37686, 79955,
       85118, 57163, 38691, 36366, 221048, 189076, 69669, 154940, 79648, 82211, 117822, 251094, 83856, 41685, 74687,
       76710, 115852, 81327, 23296, 61147, 86617, 4403, 33155, 188385, 44281, 200424, 202281, 56036, 48193, 56091,
       8100, 211101, 227417, 106819, 104576, 216880, 45098, 240619, 48464, 119751, 175979, 34281, 20238, 220634, 218863,
       7462, 151696, 94224, 63218, 35765, 101448, 24789, 146915, 11699, 122866, 209151, 54537, 1350, 127675, 45017,
       54082, 232272, 135690, 121470, 179276, 143411, 50386, 121423, 34230, 12204, 5145, 16916, 39701, 12045, 189088,
       65275, 57236, 182393, 24268, 52943, 133867, 61153, 46089, 65651, 109621, 45969, 15303, 114375, 205151, 44786,
       6456, 184292, 124836, 21089, 242469, 57423, 36082, 217232, 62545, 77970, 67320, 145673, 47316, 79960, 86098,
       110630, 34237, 234589, 93935, 161249, 237894, 13166, 254767, 175611, 81862, 254, 22795, 14812, 207311, 53211,
       33428, 9251, 56741, 23313, 225359, 153743, 22683, 150943, 260133, 80792, 50914, 141281, 73872, 216113, 230134,
       23072, 94907, 49447, 129783, 243781, 74944, 55290, 257998, 48919, 12723, 18606, 251962, 15803, 58245, 226679,
       76532, 30630, 95862, 128328, 153312, 96988, 74966, 203106, 242488, 124392, 200388, 243281, 58213, 99880, 178203,
       57126, 148147, 131990, 65536, 252864, 44114, 91412, 248945, 106800, 48184, 41931, 43845, 113231, 70798, 162126,
       3837, 254191, 179895, 57640, 202524, 207462, 66976, 189729, 128525, 79564, 243671, 173388, 36185, 78039, 168948,
       56030, 171640, 166077, 63509, 87030, 202984, 90034, 174253, 242133, 101389, 257787, 160020, 96708, 131976, 76866,
       44771, 255283, 160698, 130999, 256625, 200445, 111236, 68091, 1214, 34081, 205406, 216523, 25572, 238068, 261149,
       41159, 103116, 9821, 59289, 195185, 46981, 111515, 255882, 188477, 102021, 130715, 132226, 111574, 139434, 114325,
       35645, 252435, 166461, 77786, 39150, 261761, 37126, 5528, 218084, 14289, 231662, 98094, 89679, 43681, 200804,
       18742, 255598, 89119, 87516, 126097, 35014, 84929, 256212, 92494, 106200, 231763, 127982, 18291, 183796, 223811,
       102692, 81271, 74587, 130977, 45300, 208842, 111547, 219105, 124175, 98541, 134340, 136697, 86791, 88439, 174083,
       55283, 194710, 67621, 95748, 30934, 140385, 94919, 121483, 72950, 82771, 194748, 255991, 104369, 209610, 107142,
       58820, 99715, 92375, 15892, 219017, 73233, 73278, 32818, 169263, 34739, 205886, 171240, 50388, 108775, 174445,
       2282, 158935, 32605, 50173, 33538, 155025, 106011, 46814, 147645, 71135, 185094, 120620, 1284, 150645, 83829,
       61583, 96785, 68885, 38201, 39416, 4908, 62593, 136184, 239528, 53043, 231836, 100390, 122156, 99684, 106026,
       5397, 50051, 18387, 89599, 64963, 38961, 111545, 198713, 36017, 125729, 83825, 21222, 23283, 35516, 194192,
       69639, 47973, 57796, 5713, 97800, 50098, 65428, 257665, 234087, 16444, 11196, 203753, 109824, 207866, 17039,
       14925, 44297, 126829, 67277, 191882, 57586, 68301, 27251, 48312, 127356, 45630, 17534, 85849, 165027, 70059,
       37727, 210473, 232615, 31562, 12360, 175474, 16809, 196296, 34050, 99157, 235381, 226860, 90538, 224510, 99532,
       79937, 213602, 244829, 5353, 10102, 155931, 99985, 132428, 227013, 84133, 128060, 128755, 126338, 220652, 27273,
       76965, 198591, 183401, 39839, 153173, 92025, 50006, 173491, 62897, 23047, 207863, 63082, 94753, 211730, 250682,
       92762, 129347, 186942, 26299, 156979, 91254, 20773, 134366, 174192, 10093, 49965, 228779, 119534, 127054, 227398,
       30548, 243595, 59862, 45110, 52895, 40, 36766, 75214, 234630, 54214, 158312, 72024, 93591, 210824, 200972,
       114110, 186359, 41495, 23933, 152908, 32664, 89969, 115007, 134248, 46211, 6581, 239440, 128519, 172229, 107711,
       39179, 244330, 48077, 942, 208438, 136997, 67585, 252359, 105958, 19756, 163755, 169392, 5831, 255200, 82396,
       91523, 142808, 38685, 95978, 180532, 138927, 60384, 194261, 20664, 88720, 193580, 221374, 70548, 31709, 28363,
       82549, 76229, 52994, 78211, 48017, 231849, 87270, 189092, 107151, 26165, 259098, 168897, 35219, 239626, 55209,
       57666, 222804, 169231, 58474, 233426, 73370, 101503, 181367, 63204, 48155, 5689, 49511, 21299, 229589, 168956,
       32960, 38714, 138563, 28145, 144080, 200905, 95900, 37235, 252381, 61648, 92790, 171623, 92881, 168517, 213967,
       54554, 195558, 116535, 116619, 111382, 191110, 128911, 255268, 253758, 87797, 156578, 206176, 113221, 167641, 165021,
       66575, 217368, 114168, 122502, 163259, 220351, 108997, 184510, 21745, 129994, 105108, 228017, 81670, 37244, 157910,
       102132, 48722, 52026, 71154, 213081, 255385, 33963, 102316, 171696, 46498, 123152, 187051, 117179, 20373, 194866,
       7333, 54855, 93176, 77526, 118391, 118256, 48822, 59535, 25895, 50684, 147938, 191048, 115942, 135572, 63745,
       111912, 54074, 40068, 78491, 122644, 89553, 35772, 5024, 133439, 62319, 3723, 139562, 53515, 218027, 256969,
       46349, 110709, 158734, 13472, 81619, 60874, 71187, 6123, 148373, 39561, 165642, 63211, 86613, 109758, 127442,
       41838, 183049, 288, 56513, 120945, 247661, 6862, 256630, 44675, 130093, 249010, 60793, 66533, 133210, 56425,
       3176, 228050, 39516, 70940, 48471, 202689, 114079, 10327, 179458, 101259, 249913, 7007, 91869, 63151, 18471,
       18279, 238867, 158945, 86210, 239708, 246966, 100440, 68420, 84942, 75028, 29242, 186101, 117014, 104207, 160361,
       36305, 158512, 193482, 31738, 102258, 62539, 113976, 64384, 251084, 81972, 52036, 260360, 189, 180902, 121199,
       46285, 167765, 252469, 112440, 235870, 3915, 3580, 215752, 92230, 425, 186765, 79555, 36865, 57076, 3345,
       119799, 213083, 257191, 118158, 123091, 243051, 67995, 43453, 3777, 72513, 226275, 232879, 43516, 250100, 246046,
       31947, 13569, 253018, 106852, 198934, 158393, 13932, 73388, 165344, 63878, 134243, 233613, 83151, 188113, 182459,
       13589, 152835, 17520, 68105, 246734, 153672, 75696, 228130, 163040, 97320, 116298, 79627, 30780, 112888, 22025,
       38447, 5901, 54818, 74648, 72281, 92902, 128860, 90389, 167606, 28507, 69850, 137029, 129224, 101299, 254837,
       93630, 79820, 232356, 108276, 60038, 257833, 11749, 120667, 151080, 39376, 176896, 152580, 7567, 159815, 39162,
       48699, 106883, 190239, 128619, 156842, 20101, 13798, 91962, 159378, 73711, 85283, 146438, 795, 180531, 160800,
       93412, 199770, 168681, 25846, 115493, 258170, 16984, 237096, 38073, 44173, 156939, 52542, 101062, 83419, 84318,
       13973, 259640, 67687, 30125, 119762, 106699, 1109, 117616, 54316, 126932, 19105, 236999, 77613, 185619, 99548,
       94358, 179605, 103968, 85378, 24906, 62606, 18922, 39704, 97975, 77979, 253672, 133043, 17224, 237210, 138616,
       52590, 226621, 229940, 74575, 35691, 112693, 73253, 174427, 96058, 15607, 50355, 91329, 4513, 155035, 131830,
       104626, 44037, 16839, 95148, 27698, 168744, 10724, 43898, 105057, 16700, 159090, 11629, 116992, 194180, 70456,
       100811, 69046, 259934, 130568, 189358, 155793, 33290, 168543, 115405, 63937, 82144, 173250, 30993, 60176, 29029,
       81631, 172949, 166339, 15127, 150771, 31322, 16678, 4492, 148071, 9422, 128372, 132962, 90909, 187426, 74161,
       64759, 21199, 107061, 80967, 69727, 181270, 115251, 195763, 136040, 97036, 87858, 149946, 60518, 248074, 187951,
       129021, 133198, 52341, 59802, 104776, 10996, 14739, 35295, 159819, 130109, 63709, 93451, 2991, 41608, 177450,
       72074, 88580, 226421, 40513, 200250, 118256, 66001, 154019, 153937, 73231, 163609, 251802, 31469, 222643, 94188,
       72988, 154883, 16341, 99098, 115886, 191211, 34931, 256216, 52965, 50256, 112760, 31388, 35159, 27860, 64155,
       107552, 106184, 18638, 95024, 229291, 231552, 114189, 120433, 251190, 22288, 204357, 159235, 9644, 60380, 99922,
       15647, 218790, 10259, 21104, 260812, 76627, 69872, 55181, 79569, 127259, 101419, 261569, 46823, 146938, 192967,
       125633, 156206, 204766, 5007, 14313, 72829, 121486, 260405, 74316, 23744, 9055, 178220, 119599, 241520, 173372,
       7369, 220651, 228655, 124285, 5091, 99309, 26319, 7890, 195184, 39677, 88416, 112417, 64348, 208385, 39392,
       49901, 222126, 127226, 87494, 59241, 53524, 127770, 961, 211523, 79485, 139723, 126385, 94566, 140400, 149210,
       11535, 6335, 134809, 82288, 165335, 6276, 59486, 261613, 180850, 116101, 69525, 28459, 50883, 158663, 76169,
       89057, 108414, 159542, 29904, 148234, 174516, 33996, 124967, 193117, 49299, 31264, 216393, 39854, 56619, 254801,
       33276, 106754, 161078, 6510, 46299, 217303, 109674, 3983, 104392, 8428, 34146, 22649, 116308, 202600, 236818,
       16444, 262006, 161973, 8553, 258578, 239645, 73794, 42054, 82403, 65856, 13274, 4290, 64387, 25534, 99840,
       75301, 113040, 60769, 37625, 21883, 15786, 86894, 22850, 77892, 65850, 226424, 168105, 43875, 129945, 13356,
       108331, 25014, 114115, 95383, 225322, 172985, 51591, 77264, 40954, 111098, 251224, 138329, 120620, 23424, 218646,
       70368, 35483, 163448, 28174, 64892, 249655, 120034, 186002, 110354, 24835, 123932, 144181, 6346, 243566, 165621,
       42924, 98887, 209629, 95284, 244502, 5949, 121015, 99889, 16305, 83530, 79770, 59194, 124759, 100146, 92201,
       12107, 60462, 92376, 7963, 29581, 137518, 79192, 169703, 158293, 126630, 209353, 237337, 65892, 180199, 184238,
       6752, 53397, 63683, 28995, 149864, 246931, 32085, 129978, 206619, 44283, 159810, 238339, 5715, 47891, 257376,
       118606, 25176, 58035, 67575, 261452, 158490, 87940, 63148, 245882, 8804, 125325, 39019, 7093, 5923, 103631,
       76869, 132072, 151275, 116299, 173719, 234558, 69269, 50549, 43820, 115057, 134895, 241670, 106298, 65048, 238360,
       9942, 80586, 35597, 26470, 254301, 92895, 86207, 118706, 5184, 58130, 160750, 69654, 38102, 158852, 140128,
       54871, 46341, 208545, 58353, 54535, 100963, 119347, 237140, 163465, 13560, 126920, 27395, 36664, 227657, 208379,
       70459, 182357, 163567, 91525, 226504, 215467, 82658, 233501, 195147, 123422, 261336, 205551, 104282, 13892, 11241,
       73017, 46093, 29650, 28138, 233246, 10415, 59096, 258803, 223884, 90882, 261491, 141277, 109833, 99137, 169909,
       125794, 143237, 116749, 79357, 237230, 178452, 69064, 98385, 160535, 2318, 240057, 175486, 9450, 44352, 151132,
       20460, 260636, 198792, 7177, 129420, 190134, 52541, 248102, 179930, 44155, 90352, 200311, 83539, 74496, 30133,
       70210, 182721, 120114, 78115, 20807, 142905, 61862, 261080, 156824, 36403, 147727, 104497, 124888, 188659, 253795,
       11325, 215321, 250895, 123062, 84169, 182972, 40794, 155524, 115240, 67195, 147054, 47465, 14266, 47431, 188712,
       9297, 20183, 102393, 56301, 99891, 35745, 97215, 198840, 167186, 35306, 47218, 32155, 73708, 16383, 161145,
       36523, 67484, 135829, 50936, 76314, 176301, 118809, 191851, 104182, 112176, 160272, 254945, 67635, 118345, 33513,
       31208, 257111, 233072, 25321, 474, 108320, 125054, 36054, 137571, 26570, 123138, 251303, 105928, 62088, 69029,
       48361, 173881, 59559, 129192, 106833, 247420, 48254, 238341, 142273, 46073, 258751, 245089, 83553, 165875, 92007,
       126027, 244024, 34697, 127953, 195415, 129460, 92694, 242228, 222062, 98907, 200686, 24237, 73846, 65538, 103580,
       99061, 9877, 122878, 112693, 10206, 240012, 63713, 126767, 182094, 81246, 153751, 10169, 70427, 45580, 253208,
       73724, 38864, 139930, 116660, 94278, 66546, 46611, 107261, 31686, 27287, 25324, 9034, 59805, 143291, 137386,
       27274, 37247, 50257, 65326, 89284, 64700, 118424, 161057, 114272, 80928, 64591, 107769, 112123, 77318, 232122,
       21782, 255909, 33110, 118079, 79566, 57051, 78877, 117234, 65300, 4162, 214703, 195517, 82984, 43963, 108883,
       124701, 131557, 62044, 10376, 151279, 186849, 76343, 180861, 202420, 119993, 160284, 27675, 1270, 200567, 105599,
       82695, 5006, 93037, 62246, 103073, 177068, 45480, 153085, 67330, 82252, 121322, 234929, 6907, 201573, 123007,
       98705, 125725, 11572, 587, 35126, 258644, 40230, 178732, 129159, 66054, 227163, 36505, 49417, 15840, 99944,
       40301, 127344, 31440, 108899, 58769, 58459, 122530, 98349, 227205, 114519, 70526, 44344, 68476, 30687, 170051,
       115889, 43718, 1728, 120699, 43796, 205736, 53639, 182236, 181010, 37151, 213830, 26212, 12879, 214186, 110981,
       62795, 140581, 124262, 124033, 7852, 185849, 73519, 71177, 36586, 87498, 183449, 200551, 14795, 237989, 94551,
       18811, 107326, 154968, 60879, 115183, 226984, 124684, 47115, 201570, 47288, 200420, 72767, 115013, 154209, 200738,
       15766, 122294, 199799, 80873, 178086, 208770, 78723, 142635, 18620, 112705, 131921, 174015, 434, 190599, 156345,
       24894, 189656, 185238, 28794, 234996, 116438, 124513, 250373, 70825, 20144, 245082, 66824, 4844, 191147, 11755,
       70052, 245639, 25882, 69279, 56305, 108438, 110630, 242180, 90223, 124368, 244336, 16065, 70588, 59819, 56042,
       121896, 51767, 183875, 95048, 15801, 215764, 34676, 77076, 208280, 121689, 251507, 122123, 87483, 29357, 30447,
       54276, 100164, 75975, 89160, 181010, 237157, 52600, 229364, 261497, 14966, 77289, 246073, 94237, 257517, 39504,
       108014, 212730, 130183, 95526, 22575, 74108, 30030, 135720, 102407, 125388, 16904, 198950, 3310, 43492, 80382,
       43605, 190656, 185411, 34090, 219042, 30193, 6308, 237, 127165, 53179, 210323, 57570, 81672, 238113, 55331,
       115677, 253997, 72693, 129720, 160033, 219961, 105917, 240718, 199347, 61430, 234081, 39633, 94857, 101323, 259732,
       110575, 119856, 251920, 60988, 195257, 181791, 102898, 171645, 197786, 63262, 57087, 239321, 50658, 210374, 211054,
       68955, 204024, 13622, 88585, 165719, 168292, 95273, 231967, 131294, 46758, 35713, 133516, 74884, 23071, 211105,
       119258, 156030, 17730, 127967, 74565, 27499, 29785, 225917, 185620, 25274, 200947, 28014, 88694, 141385, 260235,
       54353, 116990, 83654, 3174, 228154, 185688, 45463, 230453, 72284, 105741, 169611, 122122, 104520, 89815, 147719,
       64839, 97471, 228825, 61941, 192697, 59101, 75957, 52296, 92807, 28756, 200709, 200355, 68949, 154665, 106840,
       1447, 227673, 121940, 62332, 142072, 196880, 44046, 231403, 121380, 88456, 133427, 95686, 83670, 73657, 199060,
       49916, 241300, 59851, 953, 74508, 199155, 33066, 2399, 41061, 83014, 44412, 114000, 9486, 31146, 235661,
       14108, 237899, 129947, 84808, 45807, 15091, 99059, 247667, 178530, 42146, 42815, 163468, 64182, 112209, 1465,
       123956, 73408, 126528, 123934, 74915, 239351, 40305, 957, 261507, 106166, 191562, 220071, 77849, 114003, 176487,
       127858, 184421, 146825, 62601, 200752, 73349, 101542, 99248, 237870, 100681, 70740, 82175, 65199, 136531, 135390,
       104284, 217668, 250985, 34215, 20595, 242199, 16023, 249029, 164069, 55727, 16341, 240078, 123683, 146125, 250089,
       65633, 156575, 6699, 83264, 179783, 206949, 81810, 58044, 32226, 17376, 154890, 20095, 51156, 260300, 85725,
       92659, 237255, 193529, 127400, 179883, 136389, 22022, 110361, 18065, 53797, 115199, 83724, 12464, 35265, 167969,
       31768, 201148, 28979, 49382, 157456, 101190, 70863, 50278, 17960, 30220, 226070, 15804, 29827, 24412, 111535,
       101951, 191634, 11613, 126175, 96480, 259858, 42416, 157000, 113261, 90176, 128415, 155753, 33827, 32042, 39555,
       121628, 146266, 161152, 88198, 172530, 129182, 105208, 120767, 103828, 6468, 244619, 190388, 78447, 98112, 113870,
       69155, 53345, 53618, 38403, 181032, 29751, 34397, 58458, 127821, 76025, 2854, 147325, 92600, 127179, 156919,
       4348, 5140, 176770, 74370, 120624, 127874, 22342, 123568, 246070, 18397, 163559, 11607, 81673, 135670, 245223,
       40746, 96470, 5732, 57787, 14134, 35854, 47185, 200265, 37247, 84978, 193502, 239233, 61619, 141027, 175436,
       126282, 118948, 1890, 46187, 134480, 76577, 97030, 143929, 93980, 33723, 223194, 48331, 66683, 74804, 142941,
       72426, 110761, 110602, 43137, 3063, 208681, 61837, 57012, 145384, 36605, 159809, 252602, 786, 140104, 84282,
       28265, 119063, 204750, 91758, 212655, 177418, 101051, 174468, 188621, 36726, 196660, 224593, 53483, 3130, 74209,
       4897, 155138, 81339, 31072, 80890, 124614, 102133, 217555, 254975, 79427, 218212, 237897, 26970, 197618, 52167,
       33743, 114605, 89837, 107059, 229312, 98149, 27405, 22190, 17985, 43798, 189121, 197473, 87078, 215595, 199325,
       73546, 32143, 255298, 60407, 47065, 115428, 117930, 226565, 760, 28797, 233247, 157652, 97179, 101694, 231680,
       20848, 213835, 117973, 80705, 121902, 202424, 114114, 97439, 217207, 60018, 26955, 70485, 94934, 191272, 124140,
       107530, 156647, 233702, 17829, 66993, 243489, 92514, 37438, 259794, 120565, 105564, 105940, 75546, 12733, 168061,
       24395, 108746, 123988, 16638, 160301, 43950, 34044, 7663, 200141, 13567, 181193, 7763, 67291, 154075, 90307,
       9136, 87076, 217017, 29282, 23844, 184022, 57659, 246862, 45724, 62116, 250128, 144043, 74107, 238615, 82112,
       92486, 95524, 173285, 6190, 92342, 100142, 10567, 39175, 193712, 7976, 243989, 81438, 55463, 41457, 186380,
       5485, 24597, 109080, 97790, 95369, 154761, 29229, 20900, 130740, 123104, 120565, 104841, 63753, 239334, 91618,
       58500, 212080, 213591, 102306, 201201, 50855, 93474, 136046, 173031, 79601, 55211, 130859, 122571, 143938, 120498,
       55346, 95906, 257162, 105975, 226441, 203520, 49819, 142235, 91421, 109883, 168878, 198890, 34009, 225068, 106052,
       37914, 213325, 32316, 88849, 187580, 125251, 27880, 198441, 246137, 30035, 182872, 32892, 40011, 93610, 162147,
       88988, 144624, 10132, 116573, 229651, 72575, 88416, 244100, 62800, 108503, 70420, 253694, 71245, 150369, 15146,
       9033, 237100, 235653, 13168, 80550, 67170, 72665, 69570, 1345, 42965, 138559, 83849, 28910, 78262, 130838,
       61113, 59762, 101095, 87359, 15944, 156365, 50461, 174213, 259739, 105190, 214625, 49921, 96799, 188474, 230435,
       96326, 200129, 197202, 129130, 205260, 43563, 38696, 100556, 230669, 84505, 123745, 217200, 112129, 67371, 104669,
       75959, 111831, 38086, 103481, 164948, 76428, 54323, 20159, 132409, 77396, 231121, 70082, 7296, 80068, 169617,
       129206, 139363, 207183, 104860, 5872, 34676, 113876, 142249, 413, 91002, 141459, 102511, 24385, 249010, 174255,
       4066, 251659, 118002, 113332, 71011, 254760, 51947, 223201, 155082, 34585, 77865, 61971, 73619, 156778, 22692,
       55168, 2919, 194900, 85415, 43355, 38450, 63411, 195727, 252166, 91387, 194559, 6999, 111859, 234561, 130365,
       25632, 12724, 122951, 43179, 111810, 12247, 57254, 76693, 165572, 126098, 242456, 250026, 47885, 1938, 138311,
       49951, 136180, 22781, 85651, 249175, 148739, 54945, 90275, 199271, 124678, 209397, 158811, 117239, 212172, 74845,
       67293, 135088, 54205, 84511, 256760, 160986, 7606, 47659, 175436, 91190, 207557, 215925, 92694, 61032, 39310,
       47080, 254300, 70913, 28794, 72069, 76588, 119941, 40968, 167843, 55929, 16976, 1987, 85682, 148522, 144485,
       4368, 123683, 132348, 54272, 160342, 94154, 107119, 195789, 99529, 50800, 94771, 126991, 79057, 141448, 11125,
       27506, 57535, 171962, 54594, 222781, 180541, 121587, 86764, 156249, 74245, 252637, 215865, 118217, 251712, 79068,
       118229, 124157, 91054, 123751, 89259, 80687, 117360, 203337, 63336, 430, 16814, 90593, 122423, 52394, 146684,
       18017, 21915, 48645, 5233, 55990, 50909, 7259, 232260, 180569, 45733, 37626, 162603, 81370, 8667, 162873,
       52731, 192190, 238495, 3349, 118278, 192434, 62453, 139415, 36347, 57950, 251828, 225417, 99201, 195802, 170277,
       36649, 110578, 56681, 28512, 64490, 120165, 33546, 112999, 248382, 39811, 206053, 132200, 78533, 193536, 50251,
       61803, 206681, 256286, 44157, 116509, 40253, 49062, 27618, 17126, 48617, 185069, 147683, 127455, 76097, 141074,
       30539, 99934, 8250, 107224, 252923, 228765, 92826, 160144, 239140, 730, 18815, 64564, 130177, 155520, 29220,
       99148, 5554, 58765, 89450, 8436, 95162, 53126, 188765, 224222, 72771, 151852, 52542, 33196, 189487, 95237,
       4650, 230917, 55551, 109579, 8078, 48519, 117504, 4077, 223873, 21295, 92086, 143572, 103161, 4350, 52145,
       97144, 95208, 219943, 23379, 253821, 240009, 55289, 247676, 145920, 55411, 190368, 225299, 99610, 9244, 104729,
       109793, 233371, 148679, 12422, 95606, 210488, 73789, 132004, 141963, 99843, 235664, 181862, 103047, 150351, 120937,
       19397, 211611, 153896, 68879, 2653, 183415, 112401, 245041, 215747, 41748, 227244, 214469, 55720, 241742, 111373,
       105428, 230371, 154755, 11707, 75571, 7630, 112655, 132249, 166952, 40783, 244626, 82965, 190, 25138, 163027,
       30691, 185456, 160178, 11731, 7340, 245871, 12109, 19537, 142334, 90811, 95773, 36870, 28046, 80285, 131497,
       122518, 144441, 98358, 67691, 109998, 119955, 60305, 261846, 236867, 56922, 107295, 151774, 90778, 222064, 7321,
       59278, 258161, 235956, 16855, 237473, 243582, 115365, 243285, 159496, 56150, 166507, 40292, 9699, 243203, 18286,
       69385, 15391, 89399, 84849, 12433, 231918, 36121, 37943, 70601, 104902, 57125, 3062, 87788, 225363, 13020,
       85241, 135721, 226790, 55158, 96527, 69033, 126080, 42568, 175036, 35938, 137002, 19860, 75721, 4044, 169164,
       40508, 125200, 10533, 97623, 12735, 90562, 6264, 32865, 261060, 6015, 105132, 231277, 106281, 44301, 128056,
       56920, 103915, 183559, 44719, 39876, 117487, 79629, 199459, 229802, 91999, 91960, 2306, 26371, 226212, 226239,
       24304, 221163, 241179, 125586, 192626, 34889, 77288, 125820, 84409, 51133, 90940, 229865, 105046, 148322, 13312,
       68833, 166473, 57811, 31675, 59737, 195615, 27097, 55045, 71563, 52017, 36106, 134099, 112708, 70830, 67044,
       8054, 26542, 141444, 28642, 167764, 141304, 117067, 51170, 177831, 15955, 260420, 32689, 82526, 79205, 84123,
       27985, 94907, 60859, 79412, 47038, 92651, 50214, 60124, 120176, 13326, 260615, 115111, 76346, 45103, 11068,
       89527, 204195, 258571, 89164, 181590, 151818, 83497, 98059, 39790, 65565, 121238, 35512, 68088, 82532, 164295,
       83314, 162653, 54600, 90473, 176963, 177538, 85836, 1025, 140367, 76932, 33838, 179349, 20426, 33401, 105968,
       27605, 244038, 154280, 34108, 21727, 221118, 120541, 234020, 159360, 99535, 113632, 22836, 72465, 94311, 166568,
       33037, 158790, 161250, 14534, 202829, 235592, 117802, 44372, 130579, 117003, 136321, 178357, 14509, 24410, 155679,
       104492, 205221, 179522, 58542, 173676, 221728, 42462, 260523, 246622, 96875, 238490, 192194, 80521, 105278, 152100,
       102240, 27856, 18340, 9742, 113356, 141362, 41757, 219645, 46923, 41853, 130604, 213079, 43221, 104153, 12211,
       65861, 10975, 59537, 37095, 48548, 103291, 58246, 65153, 166331, 48205, 90357, 15321, 96376, 189689, 2394,
       79102, 14756, 71971, 85672, 135516, 12405, 27601, 170961, 50931, 42664, 57622, 222665, 2774, 51786, 102887,
       14204, 233212, 79141, 34741, 49360, 123036, 8580, 120816, 139752, 78988, 61336, 70099, 130826, 238696, 95459,
       13214, 13562, 209889, 107640, 75087, 55823, 15573, 126657, 235419, 87806, 254350, 236186, 84299, 249914, 130502,
       118320, 239620, 124707, 14935, 20834, 63860, 41345, 245644, 54384, 11898, 179502, 235075, 53396, 143466, 33043,
       119484, 89245, 128089, 102435, 210359, 5326, 94751, 252173, 131619, 69864, 257194, 7940, 115800, 63758, 132862,
       58909, 61703, 56488, 19619, 157223, 4581, 109783, 254375, 87262, 36652, 197901, 136915, 7029, 224261, 91601,
       16520, 14878, 51808, 79830, 149491, 33704, 79571, 117224, 68971, 34102, 190998, 35465, 95312, 250701, 216891,
       101402, 147442, 132871, 120652, 31513, 2108, 76668, 243224, 56772, 102160, 151830, 4455, 98710, 73721, 256355,
       33791, 143550, 61808, 40661, 244534, 238026, 62715, 168971, 199884, 2495, 124663, 26693, 38980, 136556, 242534,
       62112, 203417, 48260, 14164, 225095, 124318, 16551, 61122, 36763, 60717, 95794, 99981, 95809, 12745, 117821,
       109281, 36667, 9012, 71606, 119321, 17178, 62226, 78458, 151669, 50368, 110800, 48104, 25290, 55138, 137720,
       19210, 45831, 102669, 103795, 118413, 169682, 60949, 91566, 52605, 103588, 224189, 161980, 92285, 149862, 234039,
       25414, 85272, 219421, 66886, 260501, 154027, 58198, 38740, 95488, 55557, 248562, 105695, 71115, 228736, 182006,
       128723, 115064, 235957, 106548, 132943, 41324, 118451, 103766, 191193, 3884, 241027, 69527, 18394, 44110, 132694,
       11110, 37348, 112735, 34502, 56176, 101866, 57919, 192074, 198614, 84155, 53287, 204754, 65644, 250540, 31925,
       118382, 32006, 157668, 123188, 209779, 52146, 21433, 4748, 217890, 111793, 598, 258175, 63140, 76735, 249913,
       59418, 209836, 254040, 102883, 149496, 177770, 12208, 29570, 64041, 115670, 36489, 178248, 87931, 105278, 245069,
       114722, 75874, 179273, 130348, 43270, 229719, 67895, 230576, 119104, 12224, 16463, 203276, 21826, 161418, 87544,
       42417, 76097, 72890, 13572, 233630, 258281, 106868, 126834, 152336, 38911, 16507, 93408, 127911, 92913, 80590,
       92090, 16820, 203697, 22731, 226883, 12145, 62395, 225921, 1044, 61195, 117623, 122746, 64554, 127947, 139845,
       70214, 29653, 88843, 4085, 240712, 147157, 89954, 225746, 56301, 63857, 52525, 249655, 103673, 109251, 70585,
       106869, 130879, 180576, 30216, 183372, 70877, 6346, 233946, 60756, 92174, 70251, 141338, 128157, 84989, 153315,
       58544, 93222, 235252, 34027, 254326, 161835, 20535, 78267, 132981, 37676, 18177, 98033, 42981, 18726, 229363,
       55558, 28933, 55398, 85905, 136958, 46329, 35804, 7362, 188721, 6681, 164191, 165446, 48926, 98088, 2344,
       112149, 22295, 36204, 65319, 243592, 44103, 126456, 35833, 217101, 66010, 178604, 183606, 36162, 159837, 124629,
       25338, 13696, 57107, 91032, 187391, 188550, 70304, 148868, 210804, 79167, 91126, 219042, 98975, 256516, 49440,
       95145, 162232, 148520, 5683, 187296, 145052, 105194, 184751, 116508, 69822, 127890, 17085, 51342, 5387, 81069,
       70453, 195622, 75593, 80275, 61932, 25251, 19596, 23867, 164836, 54711, 123390, 50316, 43985, 250541, 255499,
       45928, 210033, 197853, 11971, 118763, 139593, 20951, 1483, 135388, 21211, 171117, 213663, 48919, 82193, 146748,
       117242, 208606, 74965, 27004, 110019, 222880, 54551, 48330, 112228, 40843, 70590, 179263, 103203, 237382, 155490,
       6570, 45019, 226624, 25761, 88064, 149824, 27609, 54588, 194701, 130149, 162571, 240977, 74812, 163356, 81970,
       18213, 140936, 75775, 35677, 179721, 140924, 21996, 203822, 113652, 16332, 44603, 152430, 104488, 63655, 200994,
       64979, 75640, 4732, 82733, 255605, 92695, 43417, 200132, 188411, 72573, 241780, 241351, 33760, 23129, 55867,
       40374, 243958, 101572, 85490, 34562, 32266, 19706, 181326, 47345, 80900, 131996, 1188, 111704, 31944, 104638,
       15784, 29649, 449, 117632, 11787, 208331, 10413, 27317, 140982, 45732, 60344, 100907, 80020, 177462, 210850,
       73323, 160284, 228172, 12634, 44735, 241082, 104715, 38463, 228589, 127553, 38912, 112327, 23753, 250169, 61495,
       117326, 158983, 249930, 72982, 33343, 207563, 122674, 186453, 200543, 23079, 246085, 125420, 103811, 217067, 132091,
       7835, 181051, 138525, 115762, 85111, 180594, 88363, 111093, 26598, 48530, 9185, 19679, 24964, 227407, 44608,
       107024, 164179, 152440, 79068, 12183, 233918, 47240, 111850, 255037, 58174, 117762, 146786, 108336, 157028, 167422,
       44423, 226777, 142219, 11748, 87657, 21053, 119443, 151224, 87568, 50769, 240817, 34806, 45663, 222260, 156612,
       26791, 17523, 25216, 117626, 254608, 247411, 28508, 225207, 41552, 83449, 258514, 139393, 115443, 165570, 142318,
       4576, 51719, 64942, 108631, 101291, 179119, 53818, 22911, 81987, 86242, 11410, 238185, 48811, 212575, 125658,
       91162, 185270, 207280, 33330, 247212, 135124, 2874, 125844, 91367, 124228, 106204, 149688, 2145, 93210, 22650,
       108016, 89677, 16242, 22169, 53118, 197495, 51409, 23541, 105599, 107805, 188946, 110789, 26991, 246102, 76503,
       113470, 7149, 7335, 65242, 68069, 229265, 47992, 122333, 131823, 86827, 10574, 248501, 44746, 166104, 207083,
       45519, 204417, 96177, 96144, 202142, 173902, 40610, 86333, 36484, 26315, 176308, 238161, 105859, 207955, 233428,
       105561, 155224, 8752, 65219, 145059, 6605, 69029, 211005, 104063, 91236, 40761, 119619, 66751, 157278, 132569,
       54662, 68551, 48309, 130402, 202297, 135949, 19351, 137929, 145098, 77690, 10930, 19647, 116111, 219821, 221367,
       90074, 170361, 140889, 115464, 99262, 248325, 44084, 16899, 120847, 35650, 173902, 61723, 111577, 255405, 225231,
       51657, 101116, 195986, 93019, 126208, 168734, 19365, 183938, 144939, 99069, 56300, 131629, 71956, 66525, 17323,
       35207, 121861, 241923, 64815, 163463, 148604, 91349, 208385, 25558, 1557, 255690, 34389, 83554, 21583, 18863,
       70987, 101315, 259839, 28873, 91377, 227303, 98694, 192761, 230103, 39775, 62436, 233953, 36288, 187700, 68347,
       61763, 139313, 214340, 88624, 76192, 52373, 121745, 183435, 72808, 18527, 256002, 115568, 51965, 227940, 73977,
       8780, 120552, 29595, 99424, 200165, 256877, 58685, 64308, 52471, 92658, 161377, 205139, 42230, 174991, 118934,
       110666, 91610, 81991, 70100, 258440, 49958, 123680, 147959, 225221, 10330, 102860, 146105, 67407, 76531, 259920,
       100460, 215483, 68683, 78663, 54496, 176103, 3040, 26836, 193192, 127446, 98368, 257596, 39094, 4922, 199576,
       32673, 91357, 73965, 63656, 107797, 177602, 71061, 195944, 155263, 100438, 240850, 23170, 51547, 43216, 49615,
       57666, 127523, 138516, 70118, 69756, 223794, 51693, 27770, 219439, 119871, 169298, 228770, 111575, 78058, 209288,
       59634, 81831, 51933, 25, 141818, 243268, 118087, 75025, 24156, 16297, 11364, 249992, 32048, 191701, 208461,
       19970, 78188, 54403, 23568, 206147, 10688, 105234, 200447, 115010, 75956, 108255, 136307, 125317, 80011, 235210,
       30337, 19599, 209076, 63653, 36353, 198421, 128113, 128763, 35287, 108323, 158414, 107888, 95501, 29961, 105569,
       24769, 93741, 36838, 100847, 132306, 48233, 45556, 14614, 62280, 69538, 139505, 25466, 79843, 256511, 254833,
       79870, 136418, 242954, 95226, 231869, 41791, 86730, 161660, 195109, 8961, 133141, 26731, 59945, 102074, 260632,
       87034, 167781, 156625, 38796, 102801, 256515, 41032, 253259, 28301, 16327, 83261, 260030, 54868, 184403, 5248,
       129345, 219856, 89122, 37397, 99437, 47666, 69656, 130127, 208987, 97417, 155502, 220311, 1769, 29960, 69616,
       118022, 108515, 260753, 50665, 237453, 65787, 113916, 202010, 219025, 5104, 248393, 218149, 19092, 108283, 206963,
       42274, 152215, 215666, 45280, 95818, 157194, 111122, 22125, 37877, 1468, 40002, 44444, 84031, 210440, 37195,
       17211, 100567, 146718, 107900, 136778, 229253, 102049, 40662, 165976, 65525, 170106, 133853, 27877, 89134, 215227,
       83164, 152013, 72977, 20481, 23648, 141699, 24906, 209333, 46837, 82141, 130774, 86715, 129922, 77302, 137449,
       116793, 33045, 253891, 77739, 201218, 38519, 70587, 23948, 104017, 130860, 79427, 169262, 71748, 115064, 23608,
       55065, 134418, 157449, 119217, 68992, 106639, 30695, 1055, 252457, 12782, 242902, 177855, 83111, 117698, 112360,
       12563, 53266, 252401, 48909, 85206, 27706, 55519, 35411, 49643, 71766, 238426, 87056, 129978, 209710, 7789,
       28964, 135381, 219638, 49251, 36711, 158512, 17332, 256268, 131591, 79641, 31479, 94346, 95377, 151873, 132940,
       63186, 202735, 173377, 32221, 156237, 30676, 81381, 17620, 221566, 70668, 126122, 10535, 22437, 171740, 128072,
       53173, 141049, 232313, 57042, 40159, 26167, 128793, 176743, 88678, 111317, 155344, 134451, 96255, 117430, 47869,
       116493, 205071, 201992, 96401, 108014, 4871, 118410, 180343, 74983, 7150, 101154, 109928, 59777, 133740, 235088,
       97897, 120218, 105947, 76453, 195730, 176739, 22959, 99475, 38580, 44628, 256577, 129723, 41651, 84641, 254758,
       34255, 68840, 78170, 44975, 121443, 130741, 67482, 222881, 112342, 112049, 102974, 120762, 97259, 184844, 94356,
       109477, 222613, 248310, 115815, 186124, 45285, 54545, 176313, 62300, 45354, 93611, 159984, 7552, 212830, 143446,
       121961, 104297, 76092, 8627, 145386, 248197, 97142, 29955, 94950, 49559, 107920, 53913, 124358, 155628, 99732,
       54998, 19945, 257093, 107034, 128405, 176128, 37048, 35169, 155944, 39202, 40985, 83703, 78055, 241196, 128124,
       130807, 151981, 261194, 67839, 66052, 67718, 122723, 221666, 45169, 103055, 88470, 134014, 104315, 138251, 146157,
       57142, 38717, 99735, 50664, 226968, 30260, 25155, 150793, 29864, 126345, 186055, 177412, 125749, 167659, 131084,
       97919, 173558, 18984, 38830, 105147, 214110, 32136, 45275, 91047, 129579, 31900, 89420, 8721, 235893, 101496,
       110567, 172726, 147455, 46590, 154937, 102301, 54902, 24092, 27469, 109048, 255427, 8873, 11875, 135925, 77547,
       46421, 190867, 218813, 124783, 190331, 139158, 91627, 253576, 211676, 98951, 101242, 127619, 99287, 192625, 53286,
       7939, 10994, 115641, 26634, 216442, 214794, 64390, 224788, 199812, 48254, 49091, 254874, 53859, 25188, 62854,
       102425, 228277, 245772, 1924, 9620, 96929, 86571, 261558, 150496, 14, 117519, 228184, 8265, 54280, 176048,
       53514, 230240, 237674, 110224, 210865, 118104, 19004, 231993, 68872, 72695, 88430, 249189, 88933, 9723, 22918,
       30085, 87607, 2067, 67152, 39641, 19274, 119459, 255699, 83358, 67138, 214244, 48800, 20620, 169962, 72426,
       82288, 229505, 229105, 77620, 225966, 150745, 3533, 3742, 114314, 11874, 102223, 23809, 20549, 169287, 164003,
       17863, 178775, 115844, 34008, 182839, 242530, 59520, 129217, 233357, 48721, 156918, 243965, 116739, 68830, 39207,
       80230, 106039, 207812, 114837, 260109, 76116, 69080, 25793, 213920, 11779, 131683, 234549, 60724, 3283, 26431,
       107745, 117959, 126973, 25441, 149152, 27531, 11955, 167233, 96172, 43179, 175642, 165978, 50973, 161600, 177726,
       40141, 211330, 130674, 17726, 73466, 194647, 32878, 21520, 79674, 89428, 31283, 57260, 50584, 110752, 152971,
       82909, 136525, 240460, 70294, 107227, 203712, 71965, 122403, 181075, 32577, 232694, 148983, 68359, 180457, 148890,
       3092, 158947, 54378, 56589, 135212, 80130, 75054, 214612, 92014, 23854, 138957, 222505, 33627, 166862, 209417,
       28774, 96948, 137601, 9248, 45170, 183769, 45594, 93007, 201025, 128315, 246, 135589, 46383, 213027, 170692,
       60363, 119563, 52701, 85601, 118530, 88450, 84999, 235206, 106663, 124504, 166414, 135401, 112402, 169609, 234032,
       104064, 184670, 7042, 124731, 179237, 159493, 30246, 230845, 155305, 80878, 138254, 21429, 116286, 171601, 133384,
       81807, 9615, 241422, 128112, 119655, 4830, 13153, 112962, 89637, 57583, 243181, 14747, 128104, 238830, 86093,
       49750, 194154, 136367, 96935, 34916, 209340, 3984, 254030, 181029, 91073, 180955, 19289, 122503, 103569, 101269,
       50162, 20502, 240566, 2791, 212954, 117991, 3658, 50824, 244025, 116919, 73066, 102629, 94701, 165462, 129348,
       13983, 156697, 118805, 7155, 67316, 240058, 105490, 18365, 198794, 106150, 13857, 192690, 15797, 10114, 231949,
       39520, 231310, 59572, 102239, 151082, 256775, 68866, 212589, 96655, 125381, 128677, 81528, 63053, 221000, 185258,
       88730, 60500, 233804, 66818, 85279, 62728, 123596, 97897, 206990, 52253, 11669, 122543, 30119, 230941, 217720,
       42812, 145053, 100871, 111774, 249445, 218906, 65265, 210605, 161128, 46432, 146256, 156831, 71337, 65425, 140458,
       17462, 179356, 230039, 702, 119216, 201823, 36776, 208577, 203523, 79299, 81186, 237512, 93281, 110583, 26775,
       108345, 144855, 255125, 121459, 169359, 249982, 54016, 102115, 244284, 97061, 4705, 236674, 9787, 139016, 203779,
       7540, 149946, 31466, 16357, 136945, 130050, 58794, 222505, 113978, 27693, 21156, 218033, 37607, 216528, 62113,
       84918, 249063, 182757, 46992, 57414, 207383, 73055, 210976, 250571, 54054, 153407, 117867, 22147, 36243, 235075,
       9701, 248555, 50969, 30963, 87701, 33860, 7562, 240107, 110900, 81082, 185285, 33941, 104296, 77977, 49205,
       44530, 131589, 152153, 50739, 110165, 70096, 106979, 208398, 186029, 29178, 83794, 129510, 15618, 150543, 250970,
       65682, 145194, 251883, 84697, 114793, 35545, 78597, 237187, 212466, 93568, 201271, 154212, 7438, 128699, 141507,
       56125, 63383, 34955, 31269, 240049, 23775, 99499, 142011, 154144, 114390, 138938, 24014, 36875, 62447, 177177,
       12480, 111164, 190947, 33217, 81221, 41902, 13632, 157464, 30270, 42260, 135831, 184053, 70542, 200293, 43906,
       127622, 81279, 7055, 52346, 67627, 124333, 28841, 19110, 41792, 21863, 9886, 122934, 22680, 175171, 205734,
       25244, 42871, 38449, 99911, 226276, 246688, 7999, 6342, 4129, 130731, 148794, 25593, 68509, 144352, 258694,
       71338, 211217, 60849, 46866, 160617, 253155, 90473, 39444, 133763, 61794, 190188, 156980, 43130, 188938, 110054,
       34752, 57894, 188092, 121326, 250346, 65595, 38140, 151445, 8482, 57198, 245707, 148929, 45919, 248580, 52463,
       11295, 165483, 75586, 24370, 207868, 6082, 24838, 105620, 113686, 90918, 7641, 135998, 53291, 252406, 175957,
       102494, 13743, 97090, 92923, 161363, 228956, 25172, 90959, 884, 73782, 169490, 64753, 97374, 143725, 133603,
       82974, 52970, 89047, 78645, 95354, 100658, 96942, 72937, 56281, 7442, 95697, 49370, 95868, 245755, 249535,
       35737, 123378, 159905, 74956, 115380, 225369, 31759, 104927, 8290, 109945, 130239, 133140, 62987, 229556, 18086,
       84271, 154807, 48038, 104081, 241592, 153925, 117350, 199521, 34410, 95952, 221036, 113240, 19499, 103499, 73981,
       112005, 69925, 250270, 81078, 64117, 94767, 79881, 209382, 101454, 120761, 248998, 189730, 32614, 222734, 100184,
       31403, 59855, 174898, 67265, 80111, 121317, 98417, 32468, 87069, 58620, 192442, 65693, 83085, 108070, 112937,
       59313, 84057, 90170, 80004, 175248, 187024, 107775, 147987, 177303, 23655, 115739, 53785, 91144, 171759, 44303,
       103209, 122291, 233031, 58603, 206150, 110699, 42366, 228435, 210826, 1775, 73826, 108501, 104478, 39187, 57213,
       42983, 150973, 60112, 46833, 69933, 70649, 44040, 262094, 29026, 65370, 199640, 142433, 92078, 6307, 115120,
       101169, 168901, 21722, 51455, 7723, 259470, 86914, 28819, 115442, 94461, 137901, 68321, 38917, 143785, 94243,
       12664, 96798, 6870, 117265, 163928, 42443, 88750, 247635, 54946, 84949, 33426, 148604, 7720, 123331, 236114,
       107200, 67474, 18647, 74193, 222913, 61819, 111133, 237593, 88002, 127737, 179168, 210633, 125449, 13961, 98033,
       112209, 89865, 157196, 1434, 234404, 173677, 116094, 9604, 115574, 9838, 148792, 108687, 111567, 182467, 181644,
       36722, 255726, 260432, 79962, 229970, 159112, 4989, 178046, 115976, 101080, 85792, 213070, 14641, 142830, 7531,
       53829, 188753, 160377, 107144, 74033, 226722, 91140, 205434, 125237, 792, 7435, 21054, 52826, 66624, 190376,
       5495, 137233, 83985, 88276, 255264, 159125, 127002, 4380, 186733, 85886, 105951, 89000, 29408, 247278, 50153,
       46561, 27257, 125219, 128011, 141985, 101390, 29366, 261554, 39553, 73600, 193636, 46192, 52488, 73822, 202867,
       100704, 163244, 247901, 113690, 117088, 115059, 44674, 58516, 193576, 86559, 123779, 233140, 71964, 204422, 68659,
       36496, 72404, 82803, 35643, 216244, 62552, 70599, 138229, 245041, 20185, 121802, 128454, 106274, 124453, 84642,
       9044, 157885, 13559, 12396, 17578, 106371, 44856, 75173, 101517, 15478, 137083, 18513, 62350, 249871, 259722,
       52386, 83443, 152069, 94609, 14042, 24306, 124912, 42108, 163278, 98770, 112936, 156428, 23520, 182227, 17039,
       122620, 169326, 66042, 51397, 186979, 227846, 62152, 248490, 88565, 55256, 220354, 57908, 36771, 225296, 22866,
       117315, 64196, 129615, 43547, 55739, 232985, 75837, 208790, 219587, 31461, 178774, 166524, 104513, 153386, 49636,
       101475, 200986, 73180, 38838, 58880, 79436, 89332, 171828, 223819, 92258, 29289, 79236, 73729, 130110, 97766,
       78721, 165455, 25857, 75294, 240739, 250562, 10730, 34382, 239901, 87853, 5049, 131854, 61574, 91773, 231226,
       57469, 123908, 248446, 112721, 214330, 7095, 3044, 97461, 176294, 32940, 91469, 10017, 15912, 157163, 145829,
       4632, 58038, 115866, 36133, 140362, 58013, 129561, 147332, 52670, 35419, 125354, 213173, 86993, 65329, 131507,
       15505, 176191, 6289, 78885, 97665, 215922, 129037, 250860, 202650, 38251, 190808, 17472, 111158, 253542, 247821,
       130753, 177200, 209393, 77142, 252055, 225817, 40553, 215229, 125459, 88281, 23408, 210873, 110735, 247488, 16735,
       22459, 57421, 122371, 59312, 38324, 259001, 41836, 149826, 35704, 37140, 112839, 221847, 112829, 147924, 168884,
       55267, 8908, 56953, 44443, 108599, 42201, 79103, 87473, 190803, 28757, 105865, 227105, 30132, 157180, 111534,
       68195, 74588, 147761, 53644, 51141, 115434, 38663, 244062, 193986, 7071, 126565, 156110, 68258, 241436, 108527,
       107034, 157757, 92605, 111591, 186922, 28305, 30859, 154408, 198008, 78596, 45058, 80800, 112182, 19659, 54493,
       53572, 137591, 207196, 122177, 9677, 227251, 118355, 52892, 213098, 27280, 137940, 215598, 33943, 10112, 252665,
       23650, 234264, 19530, 25697, 61853, 233699, 118995, 78509, 133117, 122046, 28320, 100943, 6802, 72141, 37249,
       77804, 204219, 69155, 73954, 251502, 197632, 51189, 225745, 181019, 82797, 227249, 25520, 124173, 103710, 213355,
       22315, 169866, 54386, 15782, 130746, 133768, 4376, 149133, 168238, 47688, 94194, 249386, 44253, 167705, 257363,
       56468, 104376, 239692, 65969, 223443, 15573, 99329, 132787, 230481, 51395, 22626, 186059, 43334, 31842, 179033,
       108380, 173206, 42278, 111384, 143973, 172254, 30509, 26338, 24863, 41244, 174364, 37286, 108149, 171171, 163651,
       10408, 51746, 87406, 42709, 102026, 73638, 58766, 38071, 49489, 24519, 223018, 97201, 23581, 187060, 60949,
       55687, 136227, 218860, 98896, 176030, 225904, 110131, 4481, 110513, 128350, 79180, 80527, 9697, 62236, 145876,
       28400, 254140, 99263, 99172, 258657, 194540, 70857, 92694, 39814, 42949, 168645, 218646, 26947, 12603, 162801,
       36762, 197564, 139388, 56267, 199568, 160973, 23219, 148017, 209564, 126383, 6419, 146765, 14101, 218263, 228523,
       129181, 158726, 119073, 110348, 166928, 198943, 55463, 86195, 201348, 96969, 54153, 249483, 88016, 221779, 139352,
       27955, 247178, 11102, 44442, 155799, 121170, 67256, 144, 186956, 83603, 134308, 129453, 71158, 86768, 187106,
       61995, 108131, 138161, 58084, 224077, 24841, 65308, 137481, 220027, 56931, 84517, 170577, 70953, 56603, 52416,
       116390, 2389, 229038, 82946, 53404, 41320, 94715, 95243, 225830, 78313, 81082, 73987, 84281, 160869, 194729,
       75805, 122870, 172269, 3521, 117649, 132789, 131019, 94149, 122880, 4405, 60380, 121214, 51792, 220131, 142777,
       13777, 189316, 190371, 12704, 158821, 148398, 104009, 43151, 128932, 55826, 247398, 243799, 105006, 223549, 163324,
       35754, 175186, 242083, 33615, 23867, 154424, 32929, 104772, 255861, 80759, 115223, 252596, 106823, 157293, 45732,
       59278, 197948, 60995, 49708, 238706, 204953, 127609, 5066, 210435, 15303, 48498, 201316, 63783, 240884, 99782,
       53541, 80421, 221838, 12861, 170201, 175069, 35153, 146239, 145248, 3727, 221935, 22796, 114944, 39994, 39287,
       79672, 14015, 58252, 106826, 27407, 236501, 68361, 48545, 60880, 78578, 249655, 257058, 91862, 104363, 147893,
       119014, 235938, 202456, 12026, 27116, 122197, 43378, 17824, 112503, 92933, 126056, 134137, 125612, 242481, 145059,
       128556, 102568, 80598, 83637, 114717, 207054, 25375, 89044, 26295, 15624, 249151, 83268, 123999, 218246, 48412,
       56875, 201880, 147458, 25534, 243036, 209043, 122407, 41897, 249479, 13700, 53824, 14559, 95626, 89864, 226463,
       81954, 124661, 150088, 11499, 146257, 244248, 44400, 126390, 169432, 19651, 187521, 243427, 79232, 220075, 69117,
       62536, 41756, 104792, 560, 91524, 216283, 127888, 87908, 107008, 45820, 199027, 176551, 33843, 95991, 91575,
       29156, 11298, 233297, 20816, 83137, 53279, 130958, 234580, 148833, 38680, 154186, 86938, 53151, 121925, 83627,
       114210, 95065, 75517, 84133, 125531, 110616, 48325, 134725, 81587, 117745, 184746, 230226, 98267, 222988, 56840,
       29871, 98389, 17619, 84376, 41287, 192055, 120900, 161472, 95161, 65072, 31525, 132022, 96156, 11760, 213885,
       127284, 133675, 171118, 90493, 252254, 190580, 13426, 221235, 32309, 32054, 238409, 103461, 78000, 125890, 215567,
       36117, 170873, 251555, 125506, 237609, 162367, 53130, 79115, 246029, 59930, 27194, 225064, 91960, 102130, 19480,
       68714, 120792, 105142, 50088, 166768, 179430, 10045, 20859, 102439, 78177, 82918, 62319, 113715, 117911, 100772,
       89884, 66785, 124877, 50003, 82301, 238763, 16741, 81459, 58979, 106999, 20665, 219494, 123436, 220550, 198361,
       50891, 188075, 31596, 95504, 154408, 65828, 53839, 153509, 206061, 65833, 34657, 224874, 109638, 165716, 259896,
       10934, 156075, 235336, 69512, 30103, 160750, 28130, 185766, 44958, 44539, 11767, 32837, 84466, 150707, 132722,
       3568, 231332, 18385, 77833, 221085, 18239, 37151, 89446, 18572, 87750, 171478, 218385, 18557, 92001, 136388,
       96444, 78259, 68778, 84625, 75851, 11736, 127302, 159781, 216438, 119437, 115745, 57516, 37133, 19106, 117196,
       3580, 114771, 250730, 85900, 122694, 108165, 79021, 171927, 148685, 3595, 37638, 149804, 16079, 154431, 8851,
       76638, 5719, 47213, 119515, 6069, 90082, 118816, 210827, 136398, 19855, 117723, 34887, 50406, 229717, 166102,
       5662, 179787, 233018, 61508, 104712, 130688, 98708, 40691, 167674, 103543, 79488, 100136, 65403, 143488, 169377,
       12565, 217580, 104766, 49986, 36426, 57427, 122172, 122709, 5025, 30095, 203688, 6556, 41910, 224201, 1322,
       97888, 34483, 6172, 96151, 236233, 239043, 119564, 46739, 59679, 50871, 129244, 231423, 67449, 126860, 216877,
       61262, 16954, 186436, 121602, 87178, 177073, 100837, 183222, 134699, 108978, 193191, 82650, 17445, 119614, 55650,
       103788, 243722, 135273, 56751, 102976, 166481, 3059, 12539, 239801, 7875, 236079, 58551, 88854, 196470, 230469,
       48760, 108707, 109189, 113785, 168929, 38046, 96242, 169922, 164157, 2841, 168424, 181402, 90031, 216218, 189327,
       25212, 6109, 136738, 55388, 194627, 142555, 81885, 76654, 58877, 114388, 228824, 1508, 59781, 173651, 90255,
       105970, 120799, 8616, 102624, 229468, 250991, 54334, 102749, 7613, 65664, 123727, 29471, 91813, 254604, 4569,
       4082, 180257, 10904, 116760, 113673, 97066, 100901, 90085, 193389, 32691, 114925, 211862, 128605, 57363, 130990,
       23513, 13708, 189418, 119811, 44170, 41584, 42529, 100959, 89719, 100027, 43409, 167676, 59818, 50549, 73020,
       96530, 66429, 90849, 20418, 208577, 96004, 35324, 196742, 169300, 13088, 148050, 224518, 113396, 39828, 223547,
       38835, 187300, 8656, 91026, 101801, 144625, 107508, 8606, 75104, 118150, 181162, 36256, 13932, 150863, 100598,
       117049, 66418, 55124, 25854, 82859, 49487, 96587, 57793, 31023, 95531, 183151, 37069, 1114, 137309, 137680,
       28917, 161719, 69719, 64475, 113464, 229725, 55054, 206850, 112722, 120399, 68984, 162135, 47151, 250412, 100539,
       122812, 86368, 220302, 60218, 83786, 145736, 126399, 173766, 256650, 96646, 149332, 220351, 108702, 142500, 3408,
       13746, 111020, 136740, 76826, 191348, 223424, 18704, 5652, 198168, 39009, 204467, 76929, 81731, 252947, 63697,
       95187, 224281, 104469, 5135, 235058, 45960, 69591, 224583, 203477, 74096, 218840, 181308, 10332, 37548, 204465,
       65626, 47715, 33154, 93564, 192762, 138576, 6976, 159038, 94961, 99649, 214428, 29486, 75553, 98264, 232472,
       109212, 198349, 83304, 28581, 235287, 31138, 109218, 222386, 131649, 12394, 77634, 3439, 52930, 200795, 17765,
       26146, 228221, 47696, 114821, 210378, 113257, 92395, 65578, 143542, 3324, 57371, 207130, 1248, 64295, 73651,
       38174, 163127, 226813, 18780, 105999, 60941, 82615, 70381, 38602, 87005, 50257, 179660, 123463, 101933, 80153,
       124785, 203683, 74856, 86362, 238281, 123471, 743, 222400, 217041, 47054, 150711, 259271, 67258, 126988, 245281,
       65428, 128200, 61036, 79081, 16512, 126073, 125901, 105894, 43521, 116023, 255988, 221434, 14274, 208079, 139505,
       34862, 152531, 77393, 109197, 83246, 119434, 108043, 145529, 252388, 36093, 102643, 7162, 95759, 166293, 43889,
       88085, 74266, 68710, 62065, 192187, 90669, 26405, 27146, 259331, 116476, 62654, 7366, 88847, 81377, 58141,
       22150, 63084, 226501, 92379, 223593, 231969, 97181, 52557, 230191, 116245, 45280, 130076, 29207, 258700, 61042,
       129597, 256404, 76164, 20105, 152745, 104095, 78733, 129612, 225213, 86137, 115054, 207957, 54912, 260541, 223104,
       62264, 37372, 74622, 116773, 96520, 205053, 84577, 100618, 240652, 65142, 238445, 154433, 16823, 8872, 226280,
       961, 198498, 238379, 16379, 232447, 237894, 125329, 6194, 3137, 100150, 100354, 7580, 126761, 228400, 176453,
       4680, 108003, 8296, 89157, 222501, 41456, 5805, 168058, 161885, 102505, 184939, 87740, 49931, 236202, 111590,
       12552, 41229, 255975, 74455, 2472, 167783, 36715, 239706, 214019, 86451, 177133, 17334, 86268, 73945, 82616,
       92406, 193894, 71722, 130084, 100350, 47267, 50685, 63501, 78014, 60989, 217545, 233268, 105462, 17007, 16292,
       75808, 30318, 242776, 4883, 98859, 145293, 110503, 258947, 212142, 6750, 9237, 180338, 22389, 193181, 221186,
       13379, 216381, 222076, 10214, 17081, 147760, 3366, 148891, 127021, 7212, 155327, 20888, 57991, 102079, 244834,
       33141, 223538, 93720, 16585, 115968, 45280, 86337, 223581, 166430, 29636, 246507, 73851, 2483, 184467, 247003,
       54843, 30906, 63049, 40689, 19169, 44566, 41760, 31463, 249275, 58362, 113543, 112837, 87675, 232330, 126136,
       80803, 39641, 220290, 122848, 197582, 187766, 67858, 41650, 237974, 61940, 179098, 194736, 27972, 172190, 1852,
       99009, 88156, 237320, 18451, 199895, 72074, 64373, 201886, 39742, 55223, 142393, 58506, 86284, 213053, 104825,
       120274, 126172, 149519, 124072, 46496, 47482, 21993, 205926, 17893, 34316, 237615, 235351, 106382, 174236, 56436,
       67931, 252975, 48092, 59380, 38520, 95095, 93143, 26029, 116050, 78895, 133008, 195651, 127233, 113388, 15092,
       76542, 190218, 44204, 61076, 31815, 164492, 71148, 41230, 160967, 105976, 244017, 214612, 80304, 142879, 193916,
       84809, 232635, 147161, 127328, 114526, 146863, 81054, 87276, 212686, 49844, 196101, 258132, 90613, 127143, 38952,
       86436, 173560, 120447, 1815, 9773, 3856, 61253, 205937, 68852, 97373, 225715, 179257, 65410, 94882, 21843,
       102186, 131472, 236701, 59098, 59731, 170280, 128885, 243386, 109887, 38389, 232359, 61171, 12074, 182057, 177438,
       56362, 132854, 211609, 71002, 232078, 66129, 45756, 108422, 135835, 31756, 72409, 38951, 88088, 20131, 247951,
       49430, 141843, 17484, 82754, 192897, 180061, 102114, 118727, 218287, 99746, 35763, 51094, 49192, 142072, 135474,
       74435, 145926, 99239, 58937, 158018, 228603, 114138, 48780, 153105, 115180, 165534, 154504, 45054, 235078, 61638,
       12024, 55251, 173336, 21965, 97322, 19145, 48103, 171008, 56982, 73957, 97011, 212912, 86086, 101476, 62531,
       43433, 122101, 30772, 87490, 116551, 39449, 122911, 119312, 63661, 85460, 208581, 200545, 20783, 121045, 254227,
       75978, 95357, 255392, 71027, 86290, 237420, 114124, 106151, 120146, 45914, 241710, 164851, 55436, 85721, 115782,
       78467, 115270, 39300, 68737, 124377, 3364, 94242, 247149, 76725, 5293, 226968, 183733, 73861, 45002, 33555,
       15947, 204042, 92391, 41315, 19154, 57277, 86720, 198179, 129472, 20632, 155739, 197944, 40480, 135545, 8373,
       92144, 122085, 60084, 85302, 90373, 195245, 11932, 197007, 40859, 75663, 192932, 127339, 19300, 245585, 11815,
       33065, 187210, 95581, 60189, 194173, 146828, 14332, 80431, 235328, 130239, 77431, 219793, 21675, 83651, 221900,
       102408, 54744, 110427, 108768, 167010, 157630, 130346, 99998, 7664, 56184, 113920, 1376, 114569, 83084, 233369,
       125506, 159737, 173144, 22661, 152399, 246375, 62840, 169624, 68862, 7865, 193475, 37910, 81359, 140955, 232483,
       76206, 17771, 35649, 26755, 63015, 15557, 104582, 186230, 185482, 4884, 232267, 121833, 105673, 217010, 40788,
       3492, 118385, 33991, 86091, 227033, 149217, 10324, 125233, 128593, 32928, 165482, 245458, 94622, 164238, 189077,
       36753, 57120, 68093, 67000, 151702, 132377, 119963, 110410, 124749, 6505, 176698, 199627, 106309, 223012, 86284,
       8555, 86873, 149362, 16619, 66541, 214826, 15639, 103175, 245759, 130298, 255450, 39843, 23617, 99941, 189894,
       117540, 96655, 201855, 129883, 120707, 73386, 50303, 114668, 259393, 82712, 208325, 40132, 102117, 12796, 30100,
       51464, 203467, 98059, 21209, 79435, 195940, 56854, 39414, 130605, 101172, 224763, 207838, 102336, 35871, 134214,
       30217, 47334, 174931, 22933, 25258, 9373, 120659, 191980, 7970, 5767, 10730, 112509, 96303, 168164, 50199,
       6084, 142562, 165295, 109825, 61726, 30785, 118674, 139044, 193992, 38983, 83742, 39723, 9690, 234007, 79546,
       63004, 74330, 115614, 39120, 38575, 24472, 54674, 227674, 210058, 87160, 255160, 104041, 27502, 83409, 260172,
       46786, 93354, 144434, 102572, 8055, 17513, 84379, 43595, 171039, 42765, 152351, 222104, 87071, 88958, 98269,
       100311, 25016, 56972, 77658, 70796, 91819, 31391, 86200, 183336, 32, 39509, 213971, 105231, 10001, 26159,
       107824, 59077, 105137, 91436, 109368, 65371, 10037, 161437, 201582, 76706, 67021, 235652, 107612, 215331, 160474,
       51074, 158873, 56268, 25952, 92336, 125786, 77021, 127167, 29334, 108305, 173605, 210410, 6405, 126675, 60224,
       78243, 154648, 26747, 84302, 19845, 3504, 78953, 118641, 134650, 85201, 56376, 202405, 82755, 163661, 77141,
       17092, 78122, 25050, 30793, 165996, 258449, 81132, 205065, 23802, 2319, 20451, 147406, 83197, 61225, 223545,
       87213, 145634, 215101, 31349, 29917, 19874, 78398, 122227, 164984, 70004, 66175, 109519, 34169, 95053, 75986,
       60682, 243711, 52401, 119226, 80299, 188135, 55915, 178163, 173780, 82554, 245354, 49281, 4633, 131810, 13695,
       10197, 109170, 196101, 10657, 55517, 238076, 102005, 150305, 135580, 45908, 228515, 9105, 29833, 136109, 196109,
       97953, 85415, 256822, 22277, 1394, 115099, 32308, 70319, 21633, 56483, 12093, 79312, 43442, 65688, 140834,
       76728, 138381, 231772, 44281, 116817, 129739, 51504, 250823, 102009, 113100, 71700, 184352, 115937, 79915, 232928,
       108489, 199544, 161063, 113355, 31460, 74604, 74675, 124819, 63136, 84703, 20951, 149189, 73029, 210052, 130507,
       102968, 157641, 20113, 72220, 192851, 105941, 14559, 20944, 177322, 106113, 74854, 218007, 99691, 109967, 15932,
       107518, 115245, 6727, 24959, 254443, 165374, 35601, 102323, 150348, 38764, 200923, 227235, 66595, 34613, 55811,
       17547, 140817, 85772, 50512, 198486, 85346, 23875, 218756, 71161, 34702, 256461, 106611, 92587, 167781, 214423,
       112041, 211781, 28660, 3002, 83295, 97399, 74173, 64692, 32374, 4726, 111446, 18830, 11173, 206842, 174692,
       92416, 203052, 208311, 96417, 164032, 207777, 106690, 19606, 216500, 62159, 205371, 176284, 112696, 179904, 242507,
       21867, 217202, 149499, 32730, 217518, 181917, 17629, 122025, 140995, 104534, 210716, 85123, 29972, 237271, 9346,
       20383, 44462, 119950, 81672, 95431, 217631, 10103, 77426, 164640, 5885, 44337, 245314, 13987, 182355, 133867,
       31, 150246, 203455, 91355, 234224, 34802, 73693, 80763, 93794, 27508, 196684, 128887, 30540, 111290, 251565,
       106295, 72388, 24696, 65774, 148432, 199064, 91557, 133383, 250991, 59343, 147458, 128941, 31158, 46427, 113204,
       127192, 166695, 10258, 74140, 146126, 19754, 17168, 15752, 106961, 53227, 8915, 75791, 43166, 239405, 75955,
       28060, 228768, 149163, 122347, 221844, 137377, 115463, 247895, 35873, 26102, 160132, 97730, 46156, 190870, 207368,
       99918, 53219, 185828, 27329, 79886, 63812, 77537, 154578, 205444, 91723, 102650, 241181, 85717, 120763, 87664,
       92590, 103100, 199446, 92628, 138551, 210087, 126459, 10885, 237701, 45416, 79284, 188932, 115158, 158362, 48218,
       2858, 77410, 155632, 37775, 88816, 175718, 6377, 107651, 152202, 85354, 158712, 75555, 13210, 208528, 92320,
       110848, 128459, 27829, 84750, 17085, 251111, 3776, 233897, 44796, 93687, 78339, 184018, 112988, 168979, 215446,
       86654, 118676, 225438, 4000, 228073, 109063, 112449, 60569, 233902, 96005, 133692, 108783, 49604, 97105, 255829,
       43074, 59039, 138655, 62890, 259736, 221758, 113652, 199412, 173000, 33037, 242055, 116824, 13233, 138586, 231685,
       113329, 162182, 104371, 3445, 226249, 72325, 119406, 52874, 87329, 40074, 166227, 123064, 66613, 200790, 180090,
       17340, 62657, 194989, 118260, 95249, 2820, 98282, 139846, 88434, 121130, 241447, 46562, 89552, 51953, 219404,
       24208, 47895, 16811, 40405, 45250, 24904, 63812, 56737, 101959, 79594, 143521, 261600, 121432, 233667, 115043,
       50325, 75110, 137604, 92153, 14694, 154743, 125961, 92233, 238205, 19971, 255129, 6293, 113077, 18670, 7902,
       55142, 206060, 141478, 95999, 258739, 251116, 38474, 172263, 257833, 43775, 256758, 173230, 3556, 106443, 143357,
       127323, 232040, 106255, 106620, 224379, 184966, 12310, 3822, 105321, 131007, 161707, 136856, 79301, 205522, 25599,
       111899, 241181, 190105, 8737, 94257, 167447, 51046, 37976, 24056, 87772, 134192, 49704, 13950, 125928, 14432,
       64081, 123959, 137358, 58022, 176782, 167518, 28316, 216085, 229688, 39356, 253735, 175697, 126762, 35903, 88676,
       37833, 192507, 162715, 27974, 49868, 12667, 70282, 2220, 112746, 87943, 212714, 147604, 95039, 105972, 206940,
       98860, 180084, 30059, 4827, 185683, 232914, 51610, 252496, 188933, 101444, 61193, 38443, 118600, 203079, 153970,
       78931, 150618, 233771, 6855, 252681, 116943, 51989, 41697, 248206, 9729, 25305, 13454, 98112, 92992, 100725,
       8323, 206797, 119296, 24344, 37323, 217642, 54651, 150613, 200085, 60640, 64690, 117812, 53278, 96842, 53374,
       60738, 85265, 259710, 93485, 178817, 59833, 48400, 210544, 55501, 71794, 196131, 96245, 39763, 56445, 152477,
       46350, 173811, 10535, 80451, 224699, 62035, 64290, 30141, 39665, 94769, 213185, 244581, 73470, 239550, 164168,
       105326, 16389, 24842, 58118, 105196, 188974, 64360, 198868, 135074, 87814, 127046, 76632, 28998, 232333, 131684,
       50584, 145821, 115741, 81899, 50209, 203929, 3784, 228161, 3833, 57274, 188677, 249590, 78492, 120285, 44994,
       126795, 221702, 98486, 114952, 82513, 153651, 36797, 107284, 8153, 66481, 11208, 10464, 7394, 90348, 208559,
       31556, 42640, 21180, 101561, 238115, 191130, 16163, 3726, 233093, 33776, 3269, 54357, 123737, 141239, 239743,
       107984, 112061, 230703, 102475, 189255, 122815, 113319, 73234, 229849, 98252, 82982, 35308, 15805, 124916, 159818,
       67706, 190365, 15618, 58227, 246202, 89731, 40783, 68070, 42083, 109319, 90330, 79998, 60835, 171319, 238780,
       7903, 85774, 226327, 36040, 75756, 218318, 29965, 214779, 80499, 116323, 165777, 62944, 84861, 1763, 112955,
       73449, 167227, 90415, 66407, 138780, 111649, 85211, 161151, 249858, 98943, 12495, 173789, 72664, 81831, 155012,
       122982, 247971, 40360, 128035, 159492, 123071, 130461, 133201, 72923, 87738, 113136, 133934, 122240, 112674, 98048,
       53015, 252345, 248953, 112668, 129474, 100572, 119167, 76987, 158678, 118507, 131069, 67353, 108900, 179304, 198522,
       53293, 200622, 168167, 20828, 84273, 150918, 43772, 85862, 85390, 100570, 12413, 220073, 30524, 201782, 261056,
       62688, 19944, 37630, 74108, 11959, 90870, 79148, 248904, 168293, 122647, 109858, 143877, 86703, 55881, 181937,
       103061, 198815, 126945, 76267, 251347, 146960, 109259, 10368, 212618, 34558, 240410, 62557, 27509, 22591, 216165,
       121414, 162904, 93544, 90895, 242594, 223053, 88018, 52543, 36884, 61249, 84283, 232172, 49374, 121417, 70170,
       72835, 145815, 180207, 15802, 228734, 29714, 59600, 22231, 120272, 59685, 250546, 175812, 70560, 221098, 185178,
       83189, 134439, 154773, 125477, 165902, 36258, 85481, 29314, 146724, 115831, 163346, 89198, 72915, 225373, 49436,
       82172, 181254, 179506, 9153, 175405, 68969, 17467, 37404, 66630, 75978, 147661, 13673, 51866, 229976, 159460,
       104701, 181524, 48420, 71195, 107587, 252426, 115643, 170670, 209418, 127445, 119998, 231376, 19350, 219934, 179692,
       51750, 226247, 82053, 87160, 103006, 226268, 40041, 5805, 241687, 35000, 121259, 237500, 106658, 89291, 41873,
       128500, 43698, 125512, 101423, 249097, 249115, 68639, 89732, 258779, 58000, 218154, 142181, 70732, 185080, 81506,
       60665, 85313, 129405, 65914, 142443, 143519, 26666, 261682, 93257, 118455, 69410, 119227, 98898, 107929, 219670,
       89257, 19070, 66581, 124508, 148319, 239309, 37276, 35093, 227349, 10637, 190396, 106324, 108283, 169473, 130865,
       130864, 133237, 42301, 75816, 77729, 246003, 7708, 69230, 68674, 102297, 132896, 81133, 9666, 114119, 60809,
       70780, 186962, 243702, 36376, 193058, 130395, 119934, 102284, 227553, 59156, 231940, 238005, 117763, 101714, 251738,
       39201, 40896, 43108, 50772, 101865, 171468, 124140, 211351, 126413, 26386, 180279, 185746, 75825, 79416, 83896,
       50922, 216474, 154965, 101471, 157800, 34340, 16947, 35117, 99525, 57306, 167881, 150376, 91610, 130355, 68738,
       53348, 113234, 89143, 7671, 228623, 190299, 92420, 124339, 144509, 65955, 55366, 123509, 1482, 66107, 160941,
       80302, 8781, 172941, 120570, 169183, 203795, 14552, 103044, 160629, 77420, 120616, 109704, 95508, 22982, 70020,
       9276, 117045, 95428, 2964, 66409, 155685, 60843, 21137, 112042, 103702, 110485, 161844, 21065, 213521, 176218,
       109659, 188886, 58182, 86058, 234362, 192485, 43538, 161789, 65729, 67610, 83639, 174392, 126559, 221182, 25595,
       28368, 216692, 23504, 65475, 27172, 10496, 81852, 183994, 50122, 18089, 222919, 27953, 5704, 138202, 85414,
       1764, 58445, 44813, 42558, 37250, 192702, 9692, 110043, 136688, 105351, 192733, 97642, 130720, 174342, 150749,
       8035, 56235, 197839, 56718, 78234, 8378, 3372, 199445, 87679, 17562, 119022, 30103, 42326, 27762, 4012,
       51602, 212908, 159900, 123179, 60385, 261157, 51883, 32033, 81525, 65048, 27611, 25125, 32189, 27065, 110688,
       16, 105430, 245270, 117877, 148350, 177718, 10710, 135432, 149978, 126386, 6315, 170932, 17149, 261727, 230765,
       79282, 165735, 4837, 130994, 195184, 252477, 18148, 217982, 48461, 55567, 17833, 119318, 102291, 181178, 14306,
       4219, 59590, 228491, 90411, 53675, 244104, 10534, 181965, 181071, 31001, 44063, 70830, 20981, 131798, 59066,
       118926, 105059, 37603, 23652, 215687, 96162, 5299, 203887, 12458, 77021, 71545, 205417, 45374, 164169, 18215,
       53176, 190251, 133020, 15605, 207642, 223622, 98072, 154995, 146303, 78846, 220192, 17515, 47738, 172094, 187970,
       22488, 175906, 53914, 77784, 237595, 245113, 102052, 79329, 238565, 40946, 140716, 144348, 3389, 149996, 126440,
       28094, 129700, 227308, 89443, 64728, 13490, 129642, 220302, 41009, 1753, 65654, 113585, 40128, 41863, 76078,
       8129, 52305, 256305, 41464, 139944, 115587, 53204, 1253, 177412, 120699, 61896, 74051, 10559, 69494, 71303,
       101860, 134900, 53290, 51843, 126972, 70336, 106333, 221310, 61277, 67292, 170717, 91173, 5148, 203265, 57982,
       124021, 25617, 16733, 10844, 31237, 191807, 78339, 149957, 243722, 115037, 175380, 111005, 10455, 153860, 95666,
       72599, 239653, 193778, 108041, 84558, 107863, 129279, 144758, 252542, 94939, 10768, 194836, 36481, 221055, 193842,
       91694, 21567, 132050, 92506, 68678, 62679, 91745, 247762, 106686, 111969, 163580, 171032, 11453, 20854, 196396,
       14210, 211282, 97857, 83966, 253678, 118156, 125027, 27008, 30094, 61058, 105402, 254414, 125902, 229225, 240503,
       122956, 186419, 223460, 118346, 48551, 170547, 119255, 258730, 52354, 117744, 115573, 211567, 107464, 141893, 28077,
       91092, 73940, 247530, 3199, 59974, 126206, 17334, 194728, 186159, 17594, 16738, 78727, 3085, 123768, 250361,
       15296, 87606, 31216, 120553, 1190, 69957, 87006, 40761, 212707, 40904, 9084, 89861, 103987, 74324, 22440,
       64011, 148214, 179062, 18628, 229371, 117597, 115933, 119744, 234297, 44389, 25851, 231441, 91600, 229917, 18078,
       38088, 198654, 9204, 65545, 88858, 133775, 106987, 229482, 93232, 20549, 31549, 44715, 128090, 77300, 48383,
       9203, 89506, 199812, 69993, 161432, 226662, 120065, 77823, 90244, 123953, 259228, 204756, 30422, 258469, 109295,
       18872, 104715, 121168, 94948, 249051, 240374, 5501, 146680, 89887, 63601, 63477, 220110, 104379, 228664, 158082,
       73433, 185401, 218714, 24643, 72029, 185614, 63837, 228175, 108469, 120753, 83790, 62219, 80899, 88986, 245230,
       94567, 57550, 61774, 44074, 204271, 213031, 24704, 247825, 97591, 33507, 141127, 42595, 69884, 171329, 74324,
       36729, 4187, 132265, 71036, 107116, 165038, 92771, 184419, 164599, 96258, 193011, 196525, 21585, 153199, 237250,
       98360, 123789, 54446, 88170, 151999, 170425, 1573, 140729, 162977, 7716, 129429, 62633, 84705, 56284, 97779,
       50292, 219551, 207202, 19150, 37599, 245960, 5819, 38221, 133177, 20892, 172833, 209206, 125503, 70865, 208990,
       95363, 126817, 242374, 69167, 106150, 177641, 123409, 156348, 197044, 81148, 11347, 167216, 95111, 200833, 84365,
       37047, 193765, 26525, 77199, 7393, 59524, 18805, 222655, 218998, 53016, 108739, 68503, 4356, 229605, 211607,
       28393, 229820, 131358, 9813, 47446, 244803, 50826, 247838, 241268, 110498, 79980, 610, 49536, 151830, 94349,
       109004, 175389, 167069, 86048, 143347, 63977, 66785, 11437, 7094, 31049, 227546, 3100, 120868, 221092, 152618,
       7104, 54635, 38337, 90297, 54278, 115513, 81427, 40692, 182001, 57808, 50962, 41605, 31499, 91292, 52886,
       56452, 46618, 42997, 114396, 17480, 194459, 109676, 159279, 149230, 123388, 189581, 197009, 40343, 18659, 23930,
       50738, 135330, 188563, 2454, 124330, 8423, 123594, 89576, 179952, 43173, 214463, 223571, 52974, 146909, 179488,
       118987, 200810, 156336, 69022, 81117, 139256, 74209, 165029, 89264, 23099, 49954, 187588, 65360, 96009, 238656,
       120351, 114750, 123944, 73232, 77920, 224791, 33438, 160470, 109412, 4086, 245949, 198864, 44079, 195572, 151043,
       75050, 166799, 38993, 5585, 107199, 110588, 79926, 192070, 123875, 68604, 235181, 254788, 102686, 118964, 203085,
       3786, 112857, 50940, 102347, 58505, 83702, 68272, 103846, 38094, 48566, 5427, 257030, 126534, 177596, 159993,
       20987, 49622, 166042, 70952, 148375, 261321, 42071, 179229, 160605, 69138, 182096, 23981, 72387, 222329, 191824,
       11724, 42157, 92686, 86656, 80210, 980, 83162, 198871, 30017, 100855, 161119, 46710, 11882, 207114, 253258,
       38962, 71371, 68831, 85211, 77732, 241469, 17921, 152781, 78869, 88814, 40025, 82783, 7736, 196356, 134566,
       43900, 38930, 230882, 110980, 31516, 162791, 101487, 238030, 30875, 84510, 20045, 43855, 114092, 190207, 121115,
       92965, 99010, 38647, 68075, 139929, 234793, 128413, 139515, 211437, 91076, 46160, 255630, 78822, 104490, 104224,
       53591, 126396, 194479, 118281, 2887, 49635, 38759, 47862, 6672, 1208, 112892, 247921, 25787, 45549, 41818,
       14354, 177393, 225184, 41811, 39837, 159287, 108249, 149425, 47808, 85397, 78360, 33296, 22148, 163523, 89349,
       103392, 115507, 190898, 66089, 27863, 32367, 67202, 139254, 39884, 47462, 201270, 96645, 113326, 261139, 255843,
       41723, 208763, 229605, 12339, 22730, 166891, 39679, 77253, 74418, 93762, 214962, 101066, 86190, 150226, 25735,
       24643, 205612, 208933, 14651, 207526, 234898, 86620, 261275, 14130, 88654, 16935, 73012, 47991, 253034, 24465,
       110467, 173786, 64908, 128215, 81912, 204803, 26954, 86698, 91783, 75637, 144364, 4432, 700, 197665, 210921,
       93461, 122105, 161348, 54300, 205832, 151431, 25332, 48262, 256474, 98595, 60746, 130582, 106253, 94160, 94563,
       14570, 213815, 181186, 5373, 103938, 249479, 43788, 86378, 36705, 82049, 215568, 107910, 103995, 22090, 69126,
       71573, 132004, 209560, 76119, 236875, 116395, 104839, 4414, 241976, 69316, 146471, 211521, 80105, 63266, 158361,
       67661, 167558, 162394, 115403, 110510, 122106, 30869, 166259, 235851, 34602, 43807, 168399, 16772, 43173, 216429,
       107409, 38286, 163369, 53972, 124001, 158994, 45599, 40532, 128974, 128627, 88878, 232558, 121477, 254501, 118662,
       127400, 96854, 190199, 18651, 108554, 172377, 116818, 41327, 203585, 43084, 163738, 767, 1658, 248561, 16644,
       51288, 66976, 55575, 66741, 100767, 200138, 14184, 174943, 222872, 70474, 125986, 33866, 107408, 191602, 109062,
       49499, 122009, 68455, 46221, 225465, 92432, 44408, 146643, 125360, 120991, 218945, 135683, 6390, 215357, 197221,
       58337, 5264, 187895, 34681, 151952, 235899, 117153, 19511, 208309, 12589, 199830, 103200, 53928, 164184, 142864,
       53322, 54179, 174225, 116443, 165962, 133024, 28245, 41111, 164285, 84527, 191684, 180190, 17616, 230650, 241341,
       125039, 132329, 61190, 77727, 172160, 237481, 82084, 189309, 4552, 56855, 143472, 13422, 44863, 178183, 27303,
       27875, 242474, 126969, 79165, 231439, 39952, 125116, 83122, 69966, 47158, 136297, 206587, 115757, 36624, 85220,
       19500, 107184, 206364, 122699, 238500, 255742, 45938, 245944, 81391, 49771, 158617, 146154, 60665, 173097, 92832,
       94141, 186895, 187807, 94326, 108753, 49306, 62860, 166455, 64776, 68570, 182666, 232649, 3933, 140156, 56506,
       39884, 203755, 206949, 45353, 39309, 111300, 73233, 131220, 126962, 73177, 122449, 207955, 93047, 258549, 111632,
       93982, 52892, 201247, 30829, 141569, 72083, 100949, 254350, 93601, 2569, 125533, 39200, 93868, 201992, 57861,
       13377, 92526, 124975, 95636, 117958, 8656, 69090, 110720, 254306, 57311, 215459, 183900, 90527, 6563, 202851,
       4767, 51883, 204719, 29290, 184163, 58884, 80798, 11102, 189068, 111046, 57089, 45518, 49952, 141607, 126078,
       33916, 100595, 106801, 67991, 215511, 172668, 81568, 27462, 112134, 55063, 195174, 184847, 114912, 58352, 162492,
       68608, 41536, 29828, 4695, 123016, 86098, 29236, 33541, 171029, 59067, 54430, 170948, 91452, 73198, 25910,
       28803, 95970, 129579, 127960, 3968, 132152, 41754, 17830, 80830, 69793, 64401, 227629, 2485, 252177, 38117,
       115984, 103976, 165992, 103394, 35574, 193261, 25619, 18753, 138408, 122321, 52322, 109838, 41397, 196482, 75954,
       90726, 63226, 172444, 107344, 226480, 167336, 97113, 36769, 46455, 120269, 107654, 64590, 113282, 58035, 97687,
       130365, 188841, 259016, 23935, 63719, 33362, 39945, 193674, 186079, 83391, 104043, 237151, 96081, 251854, 166062,
       70071, 197580, 195175, 9689, 246059, 125338, 110309, 149308, 162201, 125943, 189685, 107844, 53151, 236913, 181414,
       29466, 162949, 8687, 2531, 129103, 105117, 31103, 67963, 40417, 91739, 197566, 78457, 119483, 221307, 125919,
       12256, 247632, 153322, 72516, 206616, 151062, 91164, 176109, 166448, 36225, 206303, 37854, 74697, 142794, 154514,
       93749, 10929, 178825, 109801, 140675, 254418, 59310, 15845, 192302, 98023, 37066, 177101, 39555, 78032, 235608,
       27924, 121423, 64204, 24551, 153964, 106251, 47038, 43700, 246777, 4702, 215390, 260033, 37092, 80254, 119933,
       85488, 39333, 132990, 84924, 11888, 17341, 9640, 221387, 4755, 37672, 36637, 201164, 74653, 16311, 215604,
       41753, 69669, 45554, 54786, 137968, 22793, 93429, 139344, 103192, 1214, 163019, 165330, 36227, 119173, 126549,
       18661, 3863, 83437, 16725, 259733, 37285, 125703, 83689, 135659, 49356, 135208, 66062, 69086, 145490, 66736,
       96183, 131696, 111311, 6219, 9286, 108418, 31591, 83697, 159264, 109071, 72032, 167789, 112982, 218536, 121605,
       48883, 110905, 84591, 49133, 225336, 64151, 99207, 258861, 4569, 38675, 116591, 81773, 15347, 198024, 107924,
       33755, 179970, 197009, 50770, 12757, 59873, 6842, 150915, 69467, 62741, 151592, 64419, 96994, 69393, 59529,
       67337, 158224, 46929, 9423, 122177, 250801, 57691, 76671, 214640, 92917, 142812, 58018, 7614, 221415, 41720,
       7844, 76245, 19909, 48575, 122452, 29425, 25554, 83022, 125510, 122523, 154108, 206919, 76197, 227758, 106913,
       37660, 82510, 17746, 92376, 129876, 64099, 49142, 183663, 70510, 17316, 173471, 47845, 31094, 131813, 231385,
       84246, 45106, 200965, 6799, 132373, 159192, 35741, 235367, 228732, 27303, 210238, 219310, 26363, 47507, 121730,
       89491, 9138, 261881, 108241, 124495, 143760, 93830, 17839, 124657, 84636, 219223, 221694, 120121, 43682, 144662,
       7653, 158882, 16663, 21952, 89927, 54757, 54317, 35490, 195303, 48817, 257377, 137495, 54794, 225366, 34725,
       27060, 119882, 15116, 19595, 183128, 127188, 66740, 256201, 106611, 121641, 183614, 200743, 51376, 58030, 154344,
       5682, 102886, 146504, 92558, 200793, 186072, 38155, 184071, 145513, 32125, 24326, 78418, 42501, 37923, 186840,
       94871, 248604, 44952, 107324, 77247, 133647, 77077, 179531, 126296, 42267, 245159, 11141, 40695, 778, 227696,
       16293, 90187, 185993, 122329, 166459, 246791, 83642, 54342, 231056, 3535, 161840, 215940, 86817, 204446, 48890,
       58609, 76969, 168887, 127475, 30758, 1878, 107356, 259261, 192249, 22454, 183104, 3051, 94386, 106056, 112239,
       63644, 28116, 45858, 24516, 100582, 183100, 91585, 62163, 36075, 71747, 48421, 216867, 3981, 43263, 212995,
       84749, 150956, 18818, 83229, 7298, 191671, 18885, 138996, 115186, 45742, 136145, 65373, 76794, 249009, 22601,
       18190, 148694, 165070, 111768, 41570, 178112, 3602, 170671, 56686, 13479, 27696, 206696, 15218, 95996, 243312,
       69220, 14998, 204292, 81279, 153040, 116584, 52919, 29800, 73140, 37836, 36290, 52097, 106078, 222051, 44704,
       8950, 99735, 10827, 36738, 108743, 53087, 5126, 250909, 214256, 1820, 159323, 88389, 46318, 54667, 132083,
       25535, 243029, 131966, 35175, 65359, 38485, 107603, 48712, 27789, 21362, 33338, 82498, 102266, 196057, 83772,
       88480, 61676, 121744, 42787, 227507, 63800, 71638, 54279, 178225, 58253, 16841, 72272, 16829, 8072, 46294,
       118906, 155842, 19970, 74660, 253295, 251297, 115374, 215818, 148942, 107980, 154286, 138075, 10456, 102257, 182686,
       27167, 99807, 197954, 19039, 174268, 252526, 108891, 245084, 12532, 113042, 158393, 95677, 69202, 73854, 202742,
       13654, 217139, 15113, 17775, 141931, 128685, 106633, 123192, 255845, 121790, 212225, 71824, 26145, 177471, 47112,
       1459, 216117, 167106, 43378, 172801, 28901, 3997, 161480, 179540, 108524, 86035, 185635, 64423, 129650, 251428,
       84129, 255850, 256401, 53934, 38190, 115468, 45286, 95735, 135879, 29124, 66202, 145700, 100995, 63440, 67984,
       91166, 213119, 3141, 47281, 123065, 10446, 42089, 87544, 69069, 162, 237657, 50275, 8329, 237185, 23998,
       81691, 91267, 189122, 67450, 159741, 249213, 56990, 137787, 176522, 108462, 97964, 230351, 66046, 247843, 101396,
       50396, 89837, 86723, 21136, 50327, 36115, 107569, 57308, 2451, 75530, 2789, 47667, 12118, 239246, 162565,
       85052, 107694, 155677, 55714, 228786, 228716, 106350, 3957, 231496, 120443, 255343, 83516, 78704, 66863, 174111,
       95893, 250466, 73958, 7417, 124669, 166140, 73433, 210501, 22167, 99003, 241603, 48463, 65111, 159503, 50581,
       77797, 209015, 176163, 117826, 245518, 249821, 25965, 80505, 210969, 12877, 96007, 14006, 90524, 10397, 907,
       107852, 118422, 38359, 111475, 117964, 64976, 84101, 164501, 84218, 109210, 248813, 14623, 91837, 120264, 124461,
       11452, 174881, 251676, 99882, 148547, 251956, 23509, 8710, 187441, 31012, 225378, 222902, 51727, 169602, 115679,
       41230, 244978, 42530, 42159, 140677, 183622, 22185, 48327, 247248, 38518, 69700, 160995, 2577, 56359, 54672,
       61985, 100559, 150491, 100740, 197695, 89348, 113016, 127711, 16197, 107535, 55595, 126240, 54585, 248026, 1613,
       95738, 120517, 222555, 37734, 109980, 123861, 7282, 179417, 172095, 88600, 246356, 173484, 85039, 2858, 132314,
       105071, 44072, 53061, 80754, 71493, 55543, 20564, 25970, 61379, 111825, 183776, 68643, 82215, 72726, 241467,
       105855, 4842, 79157, 101463, 201452, 242914, 39041, 181946, 45224, 9771, 211686, 123890, 23134, 206021, 30560,
       12171, 170887, 64237, 31904, 145305, 207633, 60231, 213408, 216390, 118857, 125728, 127055, 114297, 63537, 110587,
       94188, 82565, 257528, 3160, 119325, 130665, 44746, 148215, 9096, 89436, 202625, 216159, 16912, 19809, 79181,
       105000, 48936, 86572, 119875, 362, 165852, 46413, 46669, 110389, 92516, 68630, 133524, 19425, 108023, 145058,
       90546, 181827, 218731, 2812, 53424, 199329, 19761, 241943, 99237, 93045, 152297, 202182, 93303, 165783, 60914,
       84038, 125352, 41741, 62569, 15048, 35860, 88461, 145051, 29969, 101423, 162066, 39926, 126678, 179309, 255092,
       116475, 250947, 20893, 104141, 49020, 157170, 91063, 67431, 132970, 75255, 187603, 155314, 15808, 115263, 64008,
       21699, 227123, 139741, 107515, 178933, 70802, 105291, 217587, 19989, 80538, 94462, 85729, 57519, 171409, 132495,
       3412, 39708, 252930, 42883, 192993, 84657, 55134, 21285, 39173, 63676, 239143, 218142, 121808, 113713, 133635,
       14248, 198823, 72147, 68008, 242459, 116118, 48224, 81607, 62939, 129774, 36878, 239182, 112966, 63004, 71911,
       57512, 141423, 59954, 131032, 26977, 17800, 67379, 78077, 95765, 21904, 121591, 135573, 72859, 159280, 146418,
       29649, 63474, 90801, 83402, 208817, 57421, 122872, 41576, 174024, 103048, 162493, 90575, 35804, 29158, 114317,
       38909, 223790, 30471, 9081, 194866, 45081, 37469, 70504, 165810, 12140, 135723, 83417, 65463, 194652, 68617,
       92844, 122789, 77864, 98458, 214224, 21349, 7802, 161357, 77422, 44558, 183368, 32258, 37771, 65479, 161008,
       13670, 223329, 142269, 47509, 220113, 138856, 39232, 127230, 80048, 83165, 21754, 208451, 115776, 64681, 169832,
       59617, 3680, 14308, 97866, 235280, 200646, 19137, 228284, 245996, 117305, 8698, 94270, 20000, 235281, 105912,
       25179, 22529, 151764, 13954, 111060, 245027, 40590, 81690, 46738, 72405, 142100, 234745, 129498, 95465, 12067,
       103988, 87828, 96355, 49864, 126237, 49419, 75477, 77201, 212562, 81698, 60353, 195147, 107836, 131686, 76152,
       96528, 54635, 175852, 74618, 33185, 249627, 87711, 41345, 101941, 97768, 239364, 201547, 17451, 120093, 20262,
       26274, 25748, 233204, 90254, 31435, 46557, 111466, 256707, 92905, 53642, 216509, 119138, 128436, 48325, 116861,
       28320, 250123, 98967, 54617, 159461, 38273, 49613, 202467, 172090, 121935, 196488, 45230, 37405, 34879, 167811,
       61707, 128151, 156680, 24541, 29838, 214642, 68323, 107065, 20196, 112381, 178074, 105205, 39851, 15820, 28126,
       106272, 36302, 95251, 119447, 113167, 74093, 9562, 193074, 124205, 99146, 20139, 17086, 33468, 98268, 30665,
       22980, 143493, 113134, 78790, 82357, 33179, 92484, 195589, 103398, 51742, 29339, 198109, 5134, 151030, 65205,
       119105, 188585, 57603, 95780, 120556, 26891, 35607, 238992, 235515, 65124, 246231, 237229, 3642, 224543, 205934,
       44470, 123935, 162370, 68489, 193566, 200778, 67793, 139901, 38138, 27287, 54612, 143516, 101809, 217784, 29249,
       39172, 120807, 18667, 76075, 131742, 146789, 35588, 251958, 152542, 55727, 158190, 79817, 27199, 93575, 34466,
       82969, 156600, 80232, 55782, 50659, 254148, 2112, 138237, 104064, 3691, 168321, 144800, 61752, 135630, 226507,
       24015, 204689, 30924, 76682, 165500, 139515, 53502, 134537, 171548, 85776, 30587, 255449, 124832, 89195, 205310,
       69302, 131769, 71433, 103203, 75583, 240388, 98702, 154525, 208051, 120821, 950, 135739, 28051, 196580, 98370,
       108439, 105044, 251802, 118688, 96220, 82148, 51480, 60145, 260712, 41132, 135334, 16232, 124785, 65733, 127624,
       82265, 23399, 225701, 49896, 7411, 195734, 103786, 116139, 194126, 39908, 847, 104895, 23122, 24935, 128687,
       71299, 49310, 38118, 74214, 142907, 246048, 108232, 63681, 547, 59903, 128313, 136584, 106769, 127639, 130556,
       40805, 179890, 113683, 75414, 173276, 25024, 27324, 247483, 230295, 50521, 45004, 130868, 112399, 116201, 186264,
       28310, 1177, 7738, 106199, 185304, 169786, 37076, 145211, 94186, 4520, 166864, 149865, 14409, 90168, 197081,
       97763, 242159, 69489, 34350, 42068, 124039, 85740, 44843, 259660, 91645, 104485, 244109, 45235, 96303, 246857,
       62248, 152434, 149505, 52922, 146821, 175700, 124170, 243177, 243577, 41936, 88417, 141502, 24028, 135735, 177070,
       47918, 258238, 109629, 87754, 199970, 123608, 91404, 189412, 111291, 121118, 10600, 211368, 115573, 84893, 37596,
       37790, 195887, 173851, 59659, 41253, 66967, 97946, 10700, 131826, 120132, 98158, 992, 44192, 233980, 158901,
       58253, 216966, 57743, 117896, 109016, 127702, 46987, 51962, 228249, 62981, 209223, 255443, 118555, 43725, 6741,
       105151, 163333, 166088, 31906, 256430, 4470, 42571, 141246, 202238, 46263, 1658, 53768, 119634, 119849, 130792,
       130932, 63645, 230807, 101450, 76517, 201152, 63481, 161774, 109501, 1333, 131775, 579, 91421, 40515, 133849,
       51034, 90846, 210683, 82966, 210403, 141218, 79520, 154974, 3671, 63023, 162350, 221072, 123782, 195295, 239289,
       3033, 219618, 153331, 93340, 164889, 218092, 53718, 139255, 143649, 93557, 246920, 122846, 88502, 102142, 103528,
       1341, 239985, 241726, 37399, 232584, 136455, 24784, 158276, 30724, 21887, 61670, 34221, 95482, 234865, 154744,
       31398, 124368, 141871, 62224, 211988, 107996, 32373, 89545, 207391, 76052, 106877, 131660, 94447, 11777, 100772,
       43394, 164665, 242040, 79039, 38961, 155958, 108115, 95680, 118419, 12350, 43386, 42928, 93149, 4392, 232760,
       42355, 66625, 194396, 16075, 255617, 11445, 71519, 259077, 7177, 29656, 171628, 151034, 107657, 139693, 153018,
       5622, 118660, 142914, 12930, 165785, 29748, 68288, 1107, 161018, 77193, 203822, 227379, 95667, 184783, 77010,
       33981, 215527, 220863, 110331, 57730, 196499, 124930, 71502, 23737, 65410, 20866, 227655, 99684, 96225, 5319,
       68792, 242097, 6, 9105, 47835, 211214, 42744, 23124, 17074, 11467, 14518, 69902, 129614, 95399, 47326,
       30018, 231826, 87507, 83348, 193927, 59130, 37269, 178573, 13195, 85622, 75481, 135213, 27577, 201962, 129654,
       102926, 240668, 233905, 14524, 78225, 158734, 117329, 40171, 29505, 110155, 197154, 129351, 88972, 166761, 181403,
       8836, 44566, 210901, 27337, 146717, 13096, 112638, 63719, 118585, 15987, 113522, 58189, 20438, 86960, 83191,
       71303, 158243, 147349, 35936, 258309, 162150, 29107, 237539, 252678, 75473, 4755, 21937, 48834, 97029, 30635,
       18423, 122366, 10199, 70104, 92542, 327, 50726, 128377, 216107, 96274, 152734, 250093, 13468, 94722, 6176,
       81345, 5009, 183349, 57212, 13985, 38765, 53223, 89676, 5272, 30446, 107962, 19455, 3988, 96, 163196,
       111108, 83383, 196587, 42783, 58404, 214760, 89271, 252905, 237670, 124202, 46049, 36985, 74054, 107046, 146899,
       52054, 219888, 64017, 35163, 40078, 207552, 122426, 258995, 163136, 89401, 45271, 30201, 87199, 199957, 103260,
       55857, 111147, 88288, 110762, 58954, 89148, 93542, 115578, 43082, 37117, 104280, 154652, 78587, 255361, 130199,
       56386, 100143, 155912, 863, 205998, 165533, 105856, 214542, 70288, 16099, 162396, 139217, 66840, 198445, 218237,
       44069, 220090, 226208, 44838, 77282, 56427, 62569, 44564, 44372, 130681, 212936, 254198, 53527, 37093, 79929,
       23898, 67321, 88178, 80426, 159892, 84641, 30970, 184147, 212945, 13834, 140626, 111474, 6576, 112481, 4283,
       2999, 24732, 220949, 56513, 160637, 130779, 55931, 210087, 86656, 24319, 211466, 16869, 102762, 247835, 27702,
       16943, 199161, 260600, 119972, 119294, 214614, 77014, 198847, 37921, 3619, 192321, 167161, 126218, 196084, 17229,
       40362, 124982, 185575, 58979, 30907, 64597, 37259, 174621, 132678, 95475, 166822, 31339, 63659, 20418, 114253,
       17350, 101852, 17793, 13658, 57787, 257522, 95076, 106476, 108069, 31074, 192389, 93416, 18060, 223661, 110552,
       65460, 255326, 158550, 105220, 13570, 172936, 36540, 160449, 187012, 36232, 116446, 179391, 109298, 127020, 137538,
       19376, 228359, 87040, 80835, 188458, 29483, 125175, 138213, 50871, 110271, 75083, 170566, 8102, 64571, 217121,
       41931, 93955, 192674, 18661, 80204, 12089, 124418, 227767, 53373, 129229, 87285, 138112, 30801, 1360, 16188,
       87778, 207933, 161334, 110314, 92899, 90615, 30628, 247002, 63240, 24599, 177236, 2377, 1469, 118289, 160987,
       53996, 194813, 248852, 117891, 17582, 68235, 118355, 91373, 53636, 16743, 143447, 136279, 26784, 232869, 211672,
       53483, 151980, 175974, 102318, 5343, 121582, 80196, 156670, 58420, 67351, 82203, 214575, 77585, 182433, 148350,
       12609, 22614, 33718, 62608, 86223, 205666, 130031, 188609, 16222, 11592, 213220, 127072, 68058, 183639, 258981,
       38751, 89135, 62853, 70767, 135173, 152365, 75211, 150081, 107403, 75690, 138333, 261072, 111700, 186098, 50632,
       51084, 255101, 207459, 67679, 150158, 117575, 1432, 106721, 82041, 103487, 255970, 151465, 34011, 150151, 38391,
       107027, 131101, 28336, 34817, 207429, 66096, 1414, 18292, 252544, 20294, 13248, 78483, 129195, 112566, 49945,
       41916, 259236, 139803, 14263, 200929, 89879, 15565, 250061, 125168, 40677, 62971, 110427, 4934, 55267, 163730,
       67041, 218162, 23080, 28015, 117774, 196566, 68067, 22122, 30094, 18450, 64926, 21270, 56342, 64676, 166329,
       78370, 41540, 126685, 8126, 119516, 33954, 52264, 227924, 75260, 39652, 105451, 76897, 31504, 115832, 191354,
       79237, 147458, 173017, 77141, 98345, 126504, 82667, 22298, 50785, 20825, 18187, 70937, 37448, 126390, 206682,
       27483, 4401, 61043, 70844, 232918, 180005, 60432, 210243, 184554, 43292, 68360, 72283, 103024, 139730, 24350,
       12317, 85623, 87382, 127781, 172697, 124097, 15275, 174422, 19447, 101327, 245771, 206134, 48264, 174942, 200627,
       113411, 170628, 178601, 9721, 158210, 259986, 49115, 137363, 4783, 43967, 62436, 162212, 130175, 20791, 201109,
       129177, 230125, 66297, 24877, 258072, 258940, 82568, 106963, 81711, 70191, 157655, 32253, 20234, 11073, 258611,
       21991, 58101, 54502, 129663, 53098, 170203, 59340, 59172, 42351, 16489, 7063, 125540, 28152, 251647, 34960,
       35172, 240614, 57314, 66966, 248391, 84495, 43980, 252819, 185747, 59639, 79901, 140016, 21823, 112502, 60888,
       42824, 257669, 237486, 9216, 140624, 186448, 116616, 27515, 249533, 26050, 231915, 132184, 99208, 108672, 9236,
       45816, 118484, 192287, 62180, 53841, 66047, 38176, 43768, 178121, 91283, 249111, 242899, 110696, 101781, 238598,
       37522, 1482, 55384, 31747, 249296, 103413, 89317, 193586, 199220, 25579, 26726, 215311, 83865, 20383, 208200,
       12376, 229968, 227009, 81282, 161960, 137305, 67293, 64864, 253716, 14929, 222809, 215424, 85079, 81691, 174444,
       58531, 36618, 12776, 28457, 184533, 217603, 46318, 201341, 84774, 64500, 211600, 25040, 12000, 51295, 75649,
       125515, 207139, 1563, 87236, 147571, 23706, 13439, 121914, 160697, 107854, 50390, 117141, 42277, 241148, 161969,
       78223, 185827, 159543, 36325, 174727, 62445, 96128, 257952, 210167, 94766, 60914, 188578, 72357, 115337, 236604,
       31578, 157091, 125518, 33253, 122017, 21693, 50182, 155317, 73142, 19007, 9123, 239333, 44257, 54955, 183653,
       89699, 190393, 217313, 108900, 144847, 33922, 43592, 59239, 47729, 30617, 37310, 244711, 109136, 33561, 170960,
       116746, 93920, 79734, 53742, 89418, 65888, 3526, 99943, 74931, 91090, 2509, 189861, 102764, 210851, 18004,
       2362, 124495, 2297, 77991, 231737, 184070, 77118, 175605, 45848, 49638, 790, 123403, 98273, 131841, 28780,
       56122, 74156, 71128, 88706, 98973, 80072, 67779, 157116, 217363, 32566, 197307, 78187, 79495, 73692, 260659,
       96588, 18412, 15675, 127651, 200390, 106507, 49821, 167739, 122410, 8450, 142966, 171709, 129495, 95396, 73164,
       81763, 153738, 20318, 124053, 40488, 177671, 13608, 215958, 223843, 44831, 15586, 249386, 17555, 92011, 36807,
       109511, 258731, 64697, 115388, 74397, 178042, 65707, 243040, 137112, 24458, 222864, 185972, 16661, 193333, 213458,
       77091, 221835, 210621, 66371, 198604, 131170, 91067, 104130, 76186, 40004, 33115, 166819, 52739, 46620, 181879,
       2799, 219852, 205860, 79972, 175427, 222824, 55462, 70157, 151834, 120555, 102257, 254121, 84120, 55997, 79811,
       52257, 179406, 255405, 34549, 42235, 116326, 118657, 133168, 128022, 2131, 234827, 55438, 42849, 18588, 7750,
       123667, 42959, 184545, 85725, 108603, 242012, 69824, 145256, 245917, 26677, 184168, 144328, 109232, 25797, 228538,
       26764, 204349, 177902, 32539, 22776, 574, 25146, 82050, 177926, 20728, 253256, 54816, 124952, 150856, 203612,
       78909, 127236, 179515, 83602, 154289, 68762, 125085, 91078, 168497, 30221, 244744, 79039, 775, 163477, 261945,
       78496, 230088, 28364, 66564, 63072, 83218, 62606, 154734, 204956, 8110, 200028, 150988, 59563, 180048, 211441,
       37691, 1917, 191963, 35987, 194346, 136778, 29147, 261744, 213921, 43585, 41201, 28110, 46285, 225031, 3915,
       40471, 225066, 45695, 128287, 19911, 24067, 122254, 243489, 211449, 75302, 49221, 117416, 128588, 214900, 115019,
       129918, 80113, 117843, 46653, 191278, 255932, 58351, 163052, 81174, 125706, 38071, 247011, 79773, 223659, 213148,
       27909, 10681, 59476, 90358, 131847, 261917, 26967, 147737, 83484, 44480, 78165, 188594, 29826, 200722, 245285,
       32110, 12284, 215735, 610, 56724, 153491, 115436, 70268, 199224, 38796, 17353, 23859, 11321, 68858, 26622,
       11401, 160756, 134553, 72878, 112075, 6451, 130144, 21600, 145910, 19008, 100880, 232162, 13057, 164121, 48367,
       57449, 96000, 77332, 73836, 250112, 127697, 38585, 5871, 189787, 39652, 46061, 82927, 55636, 257962, 234297,
       41175, 181946, 7665, 119974, 89475, 99972, 5499, 18236, 232683, 30745, 152042, 21645, 105978, 165703, 23334,
       109308, 146621, 93282, 14621, 195902, 217981, 127633, 32222, 198703, 90879, 106662, 188034, 35729, 83108, 138916,
       59773, 208408, 242748, 38946, 145003, 100673, 19663, 187782, 98717, 38165, 76363, 71641, 76033, 212449, 138805,
       108261, 131030, 116262, 47648, 126590, 96194, 45600, 39511, 12579, 61341, 206541, 51071, 84483, 50226, 105961,
       98515, 221970, 80786, 42834, 69387, 183994, 76854, 102409, 236693, 51034, 79741, 40762, 93899, 251969, 94448,
       21584, 71088, 192946, 33675, 171943, 103872, 55844, 155018, 198474, 116577, 98394, 85951, 75146, 251097, 187904,
       126536, 104885, 179281, 13536, 213061, 133873, 60316, 29312, 113324, 54929, 120872, 1423, 78670, 58708, 43707,
       106425, 216319, 70224, 110290, 72249, 79723, 87843, 196018, 200645, 84087, 119101, 9220, 124391, 52464, 42583,
       50290, 176975, 103286, 109154, 150616, 197237, 120783, 88216, 7366, 64427, 8342, 145912, 95564, 244628, 63846,
       49416, 195730, 197445, 20824, 154703, 241131, 76874, 62063, 54792, 25751, 244375, 240900, 59978, 113579, 221551,
       114410, 9792, 209984, 11274, 150963, 151418, 3988, 86252, 94036, 79492, 69314, 7731, 43392, 228117, 147743,
       54779, 244088, 25247, 53177, 78191, 112077, 11353, 127574, 37971, 467, 120445, 203936, 117758, 34416, 143195,
       28547, 76801, 151949, 55847, 6716, 146315, 127392, 67638, 190900, 108365, 111449, 107595, 14146, 186924, 173257,
       66652, 158993, 93629, 95692, 240690, 87265, 91539, 193754, 176112, 99725, 16588, 11028, 59959, 130161, 46301,
       23058, 149472, 188913, 60931, 199483, 147429, 84919, 230037, 146155, 79769, 100132, 154342, 9243, 122325, 91901,
       8513, 116769, 112427, 126518, 71944, 40947, 19897, 116550, 451, 38595, 205542, 167610, 100615, 101409, 36965,
       53697, 50772, 170810, 23784, 251985, 586, 61241, 21709, 58050, 74573, 107627, 238682, 59345, 6556, 147105,
       120448, 26215, 136852, 37316, 27789, 45349, 86682, 33807, 258166, 14718, 181855, 197010, 51417, 167642, 237789,
       97123, 122544, 239415, 29467, 54011, 91287, 77302, 123337, 185441, 20111, 78195, 153744, 13461, 82861, 33501,
       68581, 42694, 166173, 88475, 10821, 10228, 14859, 65039, 95572, 120294, 201575, 235117, 29592, 110629, 9523,
       15725, 105798, 255256, 26568, 39666, 102877, 22226, 52696, 223646, 11884, 237975, 175830, 104574, 100710, 189193,
       64951, 33347, 175262, 50924, 5266, 76891, 124600, 184456, 128194, 48628, 212679, 230657, 21885, 117741, 150252,
       35919, 91732, 54512, 31321, 215348, 212876, 65371, 4455, 30592, 38208, 41840, 2771, 67641, 44554, 54209,
       87725, 164572, 155795, 101882, 27902, 228494, 93081, 209900, 89502, 26947, 48860, 86569, 15191, 54526, 27702,
       71100, 7144, 104584, 26071, 200880, 58225, 11132, 113450, 180801, 69087, 81192, 6719, 42833, 148748, 127825,
       99109, 252521, 112381, 41181, 190159, 15456, 128282, 108157, 135203, 99421, 39773, 204041, 7561, 253211, 252806,
       66698, 253709, 65233, 73743, 208230, 49770, 91134, 187929, 152278, 65247, 58138, 133256, 63365, 240997, 54839,
       48226, 117888, 190821, 35580, 258607, 207308, 124020, 92847, 69923, 41628, 8043, 48536, 8312, 199191, 139505,
       21926, 90531, 21164, 112364, 252507, 99057, 76891, 57869, 103362, 102076, 84978, 179118, 106008, 161170, 59354,
       107903, 64634, 77703, 72170, 10459, 246198, 23215, 144367, 211170, 19429, 42808, 105486, 75233, 74959, 104069,
       48039, 201684, 198301, 73144, 130829, 243037, 65336, 127926, 67552, 78931, 80400, 31399, 4208, 250776, 61958,
       4303, 254123, 85095, 94580, 241757, 253499, 25313, 150497, 126248, 85484, 250828, 244055, 71640, 209133, 11976,
       128685, 200528, 160358, 109498, 83717, 133986, 54150, 96463, 192435, 80794, 120889, 21549, 15373, 95351, 155175,
       50644, 102609, 61399, 96192, 35127, 86666, 81614, 212303, 222466, 63500, 163952, 106031, 23138, 5957, 153920,
       105269, 247158, 25764, 35804, 129282, 119731, 107541, 218678, 83917, 80164, 215765, 35038, 48854, 171369, 223184,
       5322, 54434, 241140, 30463, 158011, 122082, 116532, 79782, 96714, 107213, 139775, 260390, 75347, 45464, 103189,
       61121, 214432, 225389, 84822, 74780, 143936, 61112, 19559, 69640, 84450, 84956, 90590, 40292, 18389, 150372,
       109903, 132997, 192458, 92001, 205031, 74517, 43250, 148260, 155156, 108877, 18088, 130151, 63876, 251711, 187222,
       22890, 69541, 69132, 10185, 243222, 98125, 91698, 189937, 147830, 113393, 29897, 78905, 105833, 9523, 116958,
       85937, 128931, 37434, 18530, 81602, 89465, 12326, 142901, 162039, 45223, 189463, 233978, 112054, 230746, 14580,
       126056, 182562, 197423, 31635, 170384, 215533, 99889, 105836, 150317, 75218, 48758, 99780, 4169, 14474, 255079,
       71161, 34555, 106259, 105636, 57802, 239791, 36191, 253089, 37932, 117618, 257629, 28478, 30967, 32518, 243729,
       10023, 127517, 217859, 20963, 148155, 26742, 109707, 167774, 135320, 54697, 31829, 161476, 104457, 65251, 151639,
       69629, 204412, 8985, 62987, 221670, 76474, 105763, 188898, 256759, 55507, 96532, 137995, 105124, 8946, 3387,
       13193, 259859, 183618, 83402, 139254, 172376, 92089, 128627, 227912, 117846, 129474, 204559, 29402, 153268, 202626,
       79196, 80772, 192600, 56787, 210846, 152157, 50170, 169459, 46938, 13987, 41709, 105377, 17594, 60583, 133029,
       109705, 197032, 98561, 98271, 178751, 56703, 50114, 56788, 33453, 108591, 103073, 248107, 10586, 48595, 136233,
       81890, 96168, 107535, 113793, 149836, 164082, 109951, 160560, 132969, 48861, 100115, 184354, 97679, 76438, 3854,
       56029, 27464, 187995, 110118, 154529, 107593, 69568, 7951, 4207, 100251, 89952, 44497, 10298, 140098, 183926,
       77335, 231774, 211163, 72126, 222221, 235027, 79950, 227769, 102352, 91179, 35869, 229249, 120338, 99331, 180111,
       102980, 241650, 65538, 28788, 102449, 98658, 108251, 229587, 257869, 16001, 59638, 237102, 81552, 213128, 192682,
       115704, 80518, 179896, 13254, 70750, 15417, 111370, 239980, 249635, 104676, 214139, 107820, 66030, 223782, 245410,
       40487, 216669, 97675, 53141, 157136, 242158, 126963, 251438, 181906, 26436, 236474, 220838, 75969, 234150, 211332,
       10910, 139278, 175172, 28559, 178181, 194455, 100049, 106330, 64824, 39662, 68529, 51272, 129206, 86612, 153875,
       65643, 23978, 246343, 67703, 220842, 93660, 4759, 221646, 125300, 125373, 229145, 122766, 22837, 32915, 195296,
       70561, 99343, 261950, 51861, 226093, 11132, 54471, 135763, 86043, 84318, 167605, 24024, 86781, 75257, 81988,
       20222, 240471, 179654, 65481, 215429, 108262, 103609, 120642, 83422, 58102, 116908, 242573, 21732, 84829, 221769,
       41053, 254587, 75660, 27837, 3729, 94397, 16491, 38575, 177743, 49490, 82191, 97838, 70901, 156046, 14334,
       9535, 180334, 99092, 79144, 88354, 63926, 130157, 183349, 67472, 126369, 205282, 72315, 108681, 111839, 45785,
       34909, 226056, 139603, 2937, 2224, 127606, 109253, 256397, 228577, 7303, 94960, 155413, 26952, 21992, 117823,
       71362, 149908, 96429, 23380, 96035, 150066, 109286, 79733, 186815, 101863, 229561, 168316, 99060, 57843, 168972,
       106971, 125533, 36786, 28796, 197064, 229611, 95537, 100014, 245165, 46567, 119828, 11259, 87404, 177294, 220744,
       15993, 165678, 256445, 92482, 168878, 259160, 127416, 27292, 47637, 5714, 206329, 26296, 12298, 89583, 120052,
       16205, 83458, 104712, 56434, 228628, 127804, 38113, 36804, 235505, 105764, 167343, 137527, 62100, 63181, 11029,
       63509, 73028, 79854, 93983, 162009, 111838, 47443, 261745, 67996, 46295, 152131, 12732, 99211, 224258, 187585,
       102241, 165599, 18138, 1887, 72329, 12589, 18846, 237305, 182927, 27931, 53686, 251248, 46084, 256020, 153823,
       38200, 179094, 151242, 87624, 68100, 100632, 108545, 89486, 207658, 25177, 58969, 170819, 73790, 241828, 179236,
       48210, 107914, 168557, 66293, 83266, 237419, 81363, 254761, 147260, 117125, 239975, 158896, 25204, 48380, 165176,
       11404, 33391, 141256, 82209, 241343, 180750, 51659, 135950, 153412, 21351, 257376, 259427, 15346, 222612, 147507,
       73257, 111040, 80296, 39383, 73863, 69786, 130734, 175747, 240034, 53202, 60867, 146845, 27824, 217680, 52862,
       82424, 131607, 51457, 32014, 256088, 228201, 64760, 221736, 184296, 63252, 59127, 73850, 59448, 184979, 220975,
       104344, 142706, 86431, 28391, 235753, 127213, 118529, 96230, 129109, 103722, 152682, 109708, 43663, 3807, 243847,
       23671, 244240, 102403, 36639, 56290, 195061, 43599, 78159, 133531, 72998, 90256, 175978, 6077, 149061, 10558,
       119846, 230652, 28491, 12933, 133906, 98481, 36604, 241778, 110245, 14324, 137118, 255057, 33642, 162717, 156430,
       109795, 152765, 32020, 80632, 84921, 118049, 29795, 186059, 11673, 114263, 35131, 256265, 104950, 244062, 222733,
       98782, 83553, 209840, 111100, 239348, 182177, 81218, 189544, 205477, 65724, 104248, 209326, 49012, 107937, 230732,
       29329, 51821, 99701, 73061, 15936, 5372, 116587, 141751, 19577, 77854, 99889, 34831, 120534, 186274, 36342,
       46781, 228974, 56586, 91113, 32593, 185281, 85021, 230898, 44947, 87875, 27475, 12667, 84546, 248152, 252153,
       29052, 189150, 231583, 18820, 195617, 9201, 128270, 199963, 174483, 5936, 241992, 97830, 61307, 41111, 120270,
       55716, 33378, 99835, 47188, 106139, 207079, 102496, 49192, 234923, 97694, 144962, 244165, 118649, 168080, 178666,
       51837, 89399, 154716, 73948, 36460, 62386, 116956, 123026, 156724, 130265, 171257, 66749, 127047, 91924, 118222,
       94089, 60789, 227011, 18773, 32101, 116750, 3039, 9683, 1509, 108163, 5350, 124796, 110223, 249832, 51215,
       97827, 4448, 9349, 36690, 34381, 259972, 83862, 54130, 256674, 41451, 82776, 15858, 59067, 96184, 6776,
       50126, 139318, 176734, 119752, 166056, 163348, 30691, 123117, 80952, 75708, 161607, 172457, 47314, 149677, 74448,
       86910, 14884, 197039, 73998, 110111, 19474, 121107, 157981, 158593, 13318, 133155, 121428, 28919, 219191, 88658,
       100446, 199312, 22179, 48337, 164804, 91311, 21729, 160544, 124622, 65971, 84958, 189746, 85477, 147927, 192772,
       5875, 138170, 55400, 38223, 121709, 12384, 106092, 165376, 104504, 68189, 129980, 26168, 4637, 58849, 5361,
       36955, 231253, 218447, 83773, 116407, 210977, 26130, 116495, 231784, 108447, 221877, 165330, 88680, 41233, 127659,
       61784, 156310, 83807, 120012, 167832, 255234, 51354, 29005, 92295, 30811, 142100, 66956, 86691, 108275, 7786,
       75142, 248201, 28263, 43941, 160660, 109597, 45044, 210077, 116745, 52194, 58084, 28382, 38160, 29967, 111527,
       93092, 199652, 178695, 85374, 222525, 93634, 57773, 159507, 250416, 52147, 159400, 68172, 47847, 262138, 27725,
       37154, 199182, 171434, 11232, 113517, 22855, 35154, 32647, 163797, 42100, 131904, 142201, 71786, 9979, 161289,
       101422, 1956, 22697, 51865, 123608, 40310, 123831, 46442, 115103, 108442, 108634, 160617, 129079, 248461, 159493,
       114845, 179567, 113057, 80835, 132023, 6999, 78443, 229956, 12958, 16977, 65139, 24983, 94686, 82405, 40365,
       78670, 82113, 147750, 66444, 158507, 6805, 90870, 130275, 9803, 58202, 62614, 206634, 68663, 87469, 235279,
       52212, 218443, 86423, 94027, 62321, 9261, 114899, 40142, 142604, 110211, 59732, 171209, 103025, 237098, 67049,
       1807, 47712, 221788, 119521, 261137, 188738, 36028, 133815, 202179, 116388, 136485, 215732, 25817, 840, 260107,
       57625, 64993, 145945, 98225, 52106, 96311, 83922, 168274, 68849, 54515, 188812, 53142, 88948, 153655, 230445,
       71951, 238598, 116476, 36141, 81050, 145624, 84715, 181686, 213972, 26771, 19425, 58754, 90962, 113349, 157847,
       407, 196333, 60159, 71928, 186364, 105929, 52568, 192958, 184411, 39728, 109534, 49378, 67594, 229292, 124587,
       84582, 75051, 199248, 126525, 107310, 135219, 109191, 112412, 59354, 93998, 70641, 105258, 62779, 39596, 58834,
       51399, 29898, 56858, 4263, 190548, 203496, 47067, 143989, 227529, 111198, 128010, 48119, 50334, 228067, 153588,
       60500, 227802, 96699, 35629, 231112, 238997, 35931, 33806, 242569, 8109, 171820, 159365, 80452, 133205, 143573,
       58729, 92483, 90189, 79424, 129750, 169271, 71681, 146737, 230150, 104706, 41352, 58684, 98436, 166034, 71712,
       101115, 261996, 210510, 65436, 66877, 161509, 46383, 245493, 218978, 122347, 105065, 217633, 7113, 64954, 50163,
       20004, 99631, 30382, 54997, 181458, 167682, 80472, 172343, 70335, 1074, 220076, 230292, 94283, 21121, 173795,
       73233, 106277, 135955, 63530, 251654, 101448, 55508, 89582, 71186, 68090, 53536, 46339, 21205, 151988, 122569,
       14249, 17063, 22898, 37963, 95319, 125915, 92996, 55599, 120067, 77108, 18221, 170926, 62930, 179349, 221231,
       74910, 103820, 3106, 73303, 17376, 62748, 40244, 157091, 220407, 12773, 195537, 192516, 117543, 15368, 78051,
       78631, 149163, 202963, 91455, 59195, 217425, 60817, 11584, 190519, 99153, 110776, 122576, 76611, 59083, 31152,
       7051, 215135, 43065, 116666, 209354, 68069, 40047, 61297, 156929, 18073, 162523, 146069, 11539, 186374, 98399,
       94429, 144917, 98235, 92270, 142022, 195575, 91771, 170399, 201049, 120029, 143503, 28622, 45736, 172957, 46812,
       73548, 218094, 33764, 81198, 137639, 214297, 128382, 168357, 197626, 40939, 218562, 111291, 125348, 63709, 224107,
       19494, 237635, 13000, 100139, 52125, 232707, 82953, 162709, 130440, 107072, 51746, 136699, 3759, 229509, 52729,
       10240, 207633, 211008, 9135, 43311, 91659, 77720, 100073, 188363, 79028, 9502, 137954, 118764, 256916, 53103,
       61289, 190802, 212614, 8919, 85390, 41996, 27463, 114748, 40167, 1058, 41073, 199528, 101805, 137950, 9793,
       106902, 65376, 81669, 130802, 12122, 98545, 54027, 39538, 54061, 2529, 124953, 190360, 30766, 135011, 42162,
       77040, 10753, 200923, 126083, 206720, 227978, 13576, 64985, 19114, 15934, 214669, 86694, 91980, 250011, 151426,
       87452, 42759, 216065, 32834, 96732, 9393, 106580, 134754, 147039, 16879, 75769, 147399, 121338, 218910, 219974,
       26349, 172273, 219153, 10663, 4770, 99214, 44501, 219917, 104626, 24620, 192248, 197909, 69067, 62979, 144573,
       90026, 91579, 15530, 64346, 19171, 188656, 86587, 32557, 2033, 47830, 225879, 235783, 3659, 228239, 176871,
       127672, 139694, 8172, 107402, 43743, 52487, 9623, 39874, 218638, 58874, 117597, 3348, 83233, 57554, 94443,
       24981, 150007, 82743, 75758, 32314, 28432, 69946, 102674, 253879, 27297, 192621, 56269, 18508, 188129, 167158,
       99478, 184870, 124420, 42282, 13282, 200366, 31986, 230910, 1712, 96715, 50189, 216156, 96477, 260990, 205948,
       36228, 135764, 51035, 114369, 76900, 205007, 90210, 85363, 162135, 45320, 1981, 95476, 56031, 242071, 97707,
       95251, 76534, 17689, 27732, 187733, 49214, 61441, 108682, 163851, 85663, 52176, 55601, 70713, 40287, 129833,
       79734, 213111, 30564, 71593, 43183, 92664, 26113, 36572, 91886, 53766, 114026, 108647, 69728, 105608, 47007,
       102244, 100601, 165492, 85708, 140554, 228617, 55914, 33650, 195703, 127716, 140194, 212691, 14128, 255490, 41269,
       27106, 85912, 203776, 44736, 137998, 101499, 29959, 104667, 140233, 81977, 244686, 160967, 5183, 260360, 67453,
       23256, 260620, 129454, 38449, 159680, 242526, 89567, 130398, 158201, 114801, 94867, 54159, 104659, 239429, 53487,
       23865, 186668, 73408, 74108, 226379, 208599, 3935, 33599, 41604, 40702, 177266, 200986, 105641, 238015, 39085,
       59856, 23181, 224691, 19653, 28571, 248944, 57482, 18040, 89160, 25956, 149843, 34553, 51536, 102436, 193530,
       63941, 80986, 201525, 45817, 73642, 76243, 122810, 103355, 222041, 73731, 254584, 28960, 110479, 164773, 31274,
       99710, 55605, 235540, 86660, 102364, 46393, 65128, 52957, 178187, 284, 241746, 1035, 80408, 111500, 56186,
       46656, 14491, 80079, 15435, 84600, 246963, 58278, 14057, 66162, 96410, 116669, 96347, 126049, 8364, 42647,
       49034, 177285, 37713, 71135, 217109, 188983, 111574, 79643, 157882, 43777, 254796, 143201, 18645, 246838, 39243,
       36946, 213747, 222279, 117849, 216936, 239076, 20891, 255200, 107739, 43151, 173777, 112302, 60901, 87760, 4715,
       111032, 216119, 57966, 122907, 250482, 134842, 55811, 212049, 103732, 122153, 21240, 111468, 21162, 200928, 117058,
       20558, 247359, 257020, 124420, 53328, 68475, 66804, 208263, 105058, 24367, 81735, 84693, 63961, 229075, 20885,
       102657, 13777, 189584, 108386, 27833, 113023, 113242, 46768, 121480, 74654, 209036, 28622, 113632, 91224, 225637,
       66850, 178134, 67172, 79568, 145627, 225715, 99446, 241676, 176796, 55762, 171622, 12208, 9644, 123910, 214082,
       45897, 1238, 237558, 81781, 161581, 88046, 25209, 101804, 133665, 19449, 43611, 127981, 38414, 171216, 239273,
       4208, 239490, 125788, 97441, 242771, 12292, 33910, 97362, 238784, 16284, 45907, 181763, 91636, 76233, 229711,
       110484, 68278, 11952, 2605, 35153, 188432, 30618, 102013, 129307, 123893, 128787, 129831, 50496, 7891, 220218,
       123023, 36420, 22133, 35941, 153571, 168201, 28582, 147096, 204460, 28063, 161937, 94886, 11171, 23849, 171965,
       117497, 45329, 209990, 128428, 245389, 123166, 125109, 99191, 211082, 111677, 8478, 167472, 111003, 76501, 238670,
       86649, 208234, 213246, 108293, 126786, 177523, 27307, 222921, 209100, 50844, 126953, 195146, 83995, 182094, 85577,
       114658, 7366, 168603, 86569, 13991, 11804, 109972, 75005, 97075, 62121, 133940, 58230, 94018, 114165, 244795,
       128448, 11600, 186029, 20118, 13673, 120664, 121493, 91483, 225288, 68467, 75332, 189629, 84307, 229041, 121891,
       115064, 12182, 215273, 53694, 50254, 67407, 54878, 228897, 221875, 69098, 203857, 65054, 2503, 196193, 156032,
       65099, 7777, 117252, 38153, 102235, 120177, 121628, 212492, 123984, 11499, 168054, 207742, 60204, 13526, 18159,
       124186, 143662, 45552, 118100, 129061, 75570, 91927, 37496, 208108, 77248, 191838, 229211, 36795, 253071, 180314,
       48097, 210418, 118233, 11814, 41154, 206275, 103036, 206255, 232492, 42450, 67690, 125791, 87527, 133449, 147880,
       46870, 173706, 80638, 60860, 188642, 176565, 72745, 74464, 116937, 105100, 104562, 13586, 27676, 180543, 8496,
       52266, 256057, 180402, 17050, 13576, 183772, 9930, 21207, 189280, 79255, 229955, 209331, 24784, 141915, 236920,
       7838, 5071, 41767, 117584, 110110, 190357, 70033, 172918, 19903, 17645, 259103, 83727, 7002, 175473, 29683,
       15710, 77836, 17755, 61779, 30084, 134071, 87617, 20427, 183943, 84053, 225965, 34589, 18929, 215682, 91033,
       83032, 174036, 42527, 53066, 143418, 82240, 60914, 235220, 179266, 105045, 22598, 196359, 43581, 93788, 208798,
       19267, 120352, 230196, 114485, 65306, 12902, 27804, 99310, 162673, 38539, 21808, 166312, 92614, 45141, 84886,
       89594, 80519, 121329, 104910, 8281, 14152, 24099, 201438, 197688, 46174, 7910, 152824, 16499, 201299, 118897,
       70915, 21783, 146562, 38347, 213045, 209848, 90300, 45177, 116546, 45, 35913, 223123, 7822, 201844, 23302,
       56696, 142530, 59793, 125591, 29803, 179159, 116765, 176434, 113075, 130286, 196955, 167697, 54634, 202174, 53265,
       6103, 216172, 146775, 40102, 74303, 231129, 88574, 167021, 109413, 17716, 50036, 112856, 39317, 249931, 228737,
       7361, 212734, 234719, 62254, 230596, 134286, 27383, 170673, 70379, 11960, 16090, 221760, 53898, 230314, 158155,
       46035, 213962, 128704, 70453, 137577, 159007, 98177, 260736, 24949, 14754, 159756, 8145, 103694, 108359, 221636,
       3445, 230750, 55358, 58078, 66208, 31556, 76995, 173686, 219699, 125435, 191387, 159015, 75225, 62646, 160379,
       20807, 150538, 245361, 67835, 62786, 31222, 51876, 50731, 196972, 62830, 24367, 259132, 25833, 235904, 209741,
       65644, 105405, 113919, 19666, 3141, 217820, 97523, 56275, 15467, 77844, 126180, 122911, 10292, 204889, 193113,
       116603, 143534, 112007, 80790, 28189, 252869, 41432, 205502, 123533, 5982, 115498, 64516, 82867, 57007, 256493,
       48947, 147308, 1677, 118963, 83949, 179521, 4571, 132982, 236430, 5125, 61447, 238844, 124426, 145787, 13440,
       126467, 251083, 169785, 3636, 60069, 171334, 93851, 238071, 98747, 29031, 202711, 230098, 91932, 249734, 208987,
       113866, 142900, 227872, 13216, 48128, 253311, 31295, 155131, 2258, 3155, 238064, 55009, 5744, 226886, 47412,
       3882, 18851, 100464, 104947, 9914, 179654, 39097, 214419, 254658, 64646, 54999, 209240, 103264, 84755, 241987,
       64873, 67045, 131720, 56255, 153700, 93550, 1516, 242043, 14849, 74454, 19313, 223298, 16350, 85128, 2430,
       100223, 255385, 34374, 33782, 52149, 222276, 88367, 24198, 100853, 84701, 212399, 79155, 80828, 237142, 158373,
       34989, 244719, 207173, 35007, 259856, 136299, 113121, 113547, 172594, 1678, 178966, 97890, 23792, 140145, 91320,
       79976, 84545, 246699, 107091, 232431, 222110, 46969, 16387, 91042, 85648, 36964, 38831, 73027, 158920, 53200,
       8459, 105008, 64519, 81494, 10960, 207245, 106679, 250588, 23493, 130082, 48821, 65213, 3884, 257845, 136763,
       86515, 37957, 168269, 54335, 219946, 192752, 1282, 240687, 31540, 80525, 135689, 89660, 16046, 207323, 123905,
       49619, 134791, 77748, 34257, 237907, 237597, 47338, 107338, 34527, 64578, 156043, 115933, 47082, 81747, 165495,
       72447, 176093, 29308, 31280, 76598, 1337, 83278, 36065, 227870, 111904, 111274, 2010, 29368, 240116, 235164,
       66568, 126467, 227397, 85025, 17679, 33676, 74006, 177280, 60035, 47926, 105961, 149154, 84174, 104891, 21891,
       3702, 75167, 69939, 48484, 91656, 23632, 69810, 143706, 174569, 2701, 211800, 141122, 66538, 143498, 202882,
       85754, 115522, 1025, 99510, 228420, 102724, 14860, 43934, 246510, 129835, 83697, 212150, 79451, 160681, 1533,
       47604, 140715, 10829, 32649, 25852, 123467, 75090, 193319, 76129, 115567, 185864, 173461, 68231, 143550, 223234,
       86700, 121968, 86398, 46883, 258925, 204152, 50875, 235065, 177645, 37509, 142465, 198426, 92489, 76401, 51411,
       47079, 112984, 114085, 24997, 152177, 89852, 48418, 18786, 68603, 111912, 220144, 160816, 96764, 45050, 247575,
       43862, 11735, 3837, 118857, 69373, 143132, 9808, 121412, 6337, 6521, 86231, 206786, 16707, 208232, 25435,
       15263, 251071, 2862, 11512, 162355, 145887, 86683, 130767, 225642, 78753, 160533, 96178, 84882, 248901, 68884,
       90225, 135122, 110066, 99205, 194751, 71502, 27155, 24704, 83668, 81566, 148396, 61590, 76028, 36143, 132893,
       123687, 106666, 248378, 30456, 236546, 10983, 7696, 244437, 79498, 85654, 237444, 44466, 97015, 244977, 165906,
       37119, 17530, 107492, 74822, 64366, 228155, 7803, 134003, 55972, 125834, 261468, 23731, 14408, 22570, 175327,
       8856, 158679, 148913, 5781, 159075, 158823, 56003, 100487, 118425, 12734, 241669, 23868, 97602, 140047, 111408,
       117817, 61336, 230400, 34107, 109025, 21597, 82414, 144254, 81089, 5549, 100906, 61208, 50667, 204061, 190996,
       38396, 133350, 90630, 29965, 147379, 162343, 84505, 51703, 90718, 17069, 62229, 21298, 112815, 13031, 18059,
       87141, 97496, 126319, 93157, 126180, 171810, 122597, 117761, 124601, 123518, 182717, 243083, 72306, 45452, 138453,
       64930, 110994, 192396, 43959, 36216, 30332, 93791, 105406, 32844, 70544, 30207, 251358, 122273, 210357, 235358,
       31277, 47277, 152281, 40665, 115367, 140523, 41430, 159153, 255377, 105643, 217431, 152251, 12981, 108625, 255919,
       59722, 220616, 207230, 56043, 226061, 154804, 9586, 145858, 96317, 53843, 258000, 90032, 67289, 125573, 138694,
       8533, 105448, 261596, 66828, 170105, 28936, 125729, 60461, 154713, 128308, 67676, 135804, 69688, 87015, 236475,
       67514, 205822, 104071, 37422, 33131, 260732, 130693, 240938, 186834, 35943, 200777, 78720, 59362, 178061, 168785,
       384, 150162, 119683, 45774, 150689, 77387, 9363, 215765, 222943, 97494, 157366, 18565, 73533, 75074, 203187,
       74995, 186725, 34414, 37553, 159190, 260320, 106810, 22690, 38263, 428, 190506, 158078, 43725, 202835, 88587,
       86441, 171722, 136124, 119003, 58412, 14705, 30751, 152752, 238280, 70923, 17296, 69560, 70515, 160293, 197545,
       114579, 205232, 92538, 6621, 91684, 115693, 55636, 225637, 262015, 23916, 36942, 259874, 2822, 84144, 168440,
       19271, 167624, 74648, 127987, 252715, 23342, 28160, 163535, 228370, 122556, 92673, 221983, 26903, 25479, 182186,
       122066, 190852, 78107, 85802, 124575, 183051, 14839, 205885, 95246, 76272, 205314, 137192, 41748, 71284, 109918,
       50220, 170514, 73397, 57694, 23012, 105286, 55405, 14380, 120213, 87046, 21100, 225349, 100711, 141423, 27289,
       43145, 256397, 139814, 121158, 61128, 86056, 123006, 172152, 228046, 5333, 98822, 155408, 1954, 32709, 105975,
       55714, 77077, 9533, 77417, 14244, 62296, 36425, 139213, 177721, 34001, 230472, 96648, 88910, 149874, 254609,
       78866, 153091, 175630, 21908, 72141, 207631, 115933, 81332, 9132, 89125, 215867, 61649, 47523, 155747, 235380,
       89604, 14514, 268, 14765, 174427, 180816, 61375, 69929, 151567, 22149, 32644, 193309, 5430, 124857, 61157,
       44345, 26450, 33353, 19757, 52767, 45534, 83036, 122068, 95238, 88351, 111936, 188030, 19489, 104323, 73565,
       3226, 19888, 257909, 103915, 69713, 44892, 269, 161958, 13357, 45077, 98677, 179734, 64826, 5778, 8331,
       107301, 18071, 49147, 109911, 146386, 257576, 95019, 68776, 5118, 32400, 180035, 173673, 94396, 89615, 67819,
       32314, 101120, 133247, 28129, 32743, 139159, 71713, 40689, 47231, 88978, 212248, 24259, 6953, 157564, 179759,
       7867, 74022, 211909, 102782, 215026, 230625, 112656, 6207, 49577, 79225, 73344, 110534, 56207, 90410, 104534,
       110797, 84309, 48978, 95527, 132676, 79279, 75968, 149625, 185877, 41911, 53867, 121682, 25951, 159572, 179368,
       54876, 81947, 27438, 37594, 107132, 7517, 44467, 79065, 171246, 67584, 208058, 245674, 22163, 126648, 122465,
       105667, 49757, 188608, 19074, 219573, 93135, 63044, 209271, 46152, 97775, 250406, 123385, 63572, 166251, 72544,
       47319, 231713, 257186, 62244, 249885, 80635, 111236, 253189, 236763, 129817, 226376, 107662, 82725, 55892, 184534,
       103998, 78003, 15097, 1899, 16009, 191161, 115391, 32475, 200048, 125049, 55085, 46263, 75388, 156228, 22256,
       98802, 186352, 239988, 67206, 125553, 177100, 37513, 77769, 261368, 111705, 221821, 260811, 78228, 152440, 156743,
       75940, 235813, 240587, 86393, 203481, 237790, 112198, 12308, 15453, 95932, 104783, 111893, 27672, 123308, 106909,
       61187, 129921, 224901, 128489, 173793, 165898, 72687, 100106, 15800, 122977, 182182, 65096, 106609, 253050, 60597,
       87297, 6439, 132075, 45791, 261054, 71431, 39887, 195433, 77215, 84334, 127368, 22273, 56696, 174839, 162558,
       104694, 61564, 124492, 99674, 153554, 205377, 40911, 148677, 3105, 92108, 17577, 174371, 64821, 178917, 153068,
       42374, 142144, 107484, 54128, 93650, 30784, 117355, 146784, 187065, 47122, 184271, 261532, 37669, 261502, 107453,
       46112, 19931, 150357, 28130, 122597, 20957, 71386, 104088, 261313, 19324, 206721, 249692, 107143, 260040, 136240,
       29567, 66628, 91348, 78388, 70403, 243600, 16387, 89704, 56678, 128247, 212609, 259569, 59582, 30028, 26019,
       107763, 168290, 36868, 100748, 54818, 16490, 93545, 45894, 258530, 108444, 96573, 121742, 13167, 253261, 13797,
       88931, 258124, 146237, 34842, 133007, 25140, 103005, 202048, 40059, 125418, 184048, 232281, 118160, 9346, 232353,
       15067, 4641, 4010, 48437, 255559, 151835, 47752, 134330, 214412, 16029, 161539, 130210, 12861, 151536, 21339,
       50448, 83825, 253045, 130032, 210309, 103869, 74572, 118269, 8790, 81498, 42368, 228377, 61737, 102386, 163174,
       86812, 259562, 78424, 125391, 160496, 256055, 77161, 214479, 253625, 8524, 189003, 230138, 64604, 40024, 176662,
       130121, 234589, 114274, 50777, 170234, 175713, 77841, 52828, 92644, 13977, 24603, 216128, 18504, 212423, 66111,
       114646, 64861, 186699, 39366, 202142, 251551, 40036, 28652, 166793, 50752, 204947, 86357, 126678, 76707, 65862,
       11061, 60580, 150160, 107317, 12700, 202949, 44768, 176680, 236181, 111341, 124020, 220815, 129991, 103937, 252179,
       45700, 140192, 84879, 16954, 261523, 76473, 18923, 153425, 116163, 99449, 179846, 30736, 18995, 41342, 58403,
       34133, 255808, 61419, 26790, 235851, 21394, 46619, 131267, 55180, 9747, 98497, 122545, 112294, 249208, 69266,
       112741, 25527, 178858, 54123, 246643, 106201, 80227, 142041, 249496, 84141, 229717, 52038, 98206, 199149, 101418,
       68247, 233610, 216167, 66890, 200841, 35675, 82746, 65195, 190698, 92149, 251479, 67931, 45441, 105145, 112294,
       43302, 83538, 7556, 35352, 139109, 201835, 71938, 108972, 189813, 47206, 85600, 231465, 70819, 246579, 50692,
       53213, 61663, 54204, 109672, 110828, 18816, 9585, 85664, 116168, 75000, 206287, 171598, 75448, 40956, 152830,
       50294, 156061, 100227, 55184, 13288, 170633, 104874, 214363, 254074, 36788, 121779, 84133, 114216, 167182, 75025,
       117485, 133577, 256040, 85277, 255188, 112618, 101300, 1638, 183739, 80340, 67747, 150073, 68846, 199899, 194102,
       126704, 101346, 53396, 37048, 39707, 71321, 20204, 228819, 219378, 37681, 73798, 54079, 80560, 54458, 49955,
       24272, 95315, 63444, 119120, 19470, 110204, 53873, 207157, 190552, 111406, 87656, 162522, 32667, 244413, 197794,
       41047, 157977, 204506, 7762, 138704, 29133, 33786, 33279, 57535, 64266, 108233, 208130, 124012, 15225, 72495,
       50974, 76177, 117706, 83852, 133633, 151280, 56060, 215093, 150497, 6133, 26598, 36952, 65999, 7429, 147515,
       8639, 113639, 164497, 115828, 82972, 260221, 98702, 15906, 17557, 49630, 158764, 233197, 83914, 194252, 168465,
       14683, 197754, 108989, 92085, 75301, 44652, 107837, 47791, 215289, 107707, 221680, 213967, 37260, 216722, 143544,
       34569, 194329, 70045, 68340, 167182, 4234, 126847, 218315, 194857, 120654, 206496, 72722, 47138, 140268, 52501,
       102213, 213132, 25175, 120758, 252175, 255124, 34200, 40295, 90133, 108828, 134056, 116815, 35113, 161378, 139106,
       44994, 176895, 234723, 26059, 216423, 203666, 66463, 252555, 219269, 110534, 116793, 183595, 69212, 222758, 248350,
       16179, 138661, 51961, 33000, 203158, 179532, 73775, 112897, 29031, 76439, 143176, 236997, 75616, 55204, 198278,
       10093, 463, 245322, 98788, 112207, 253329, 119200, 150181, 194959, 66914, 193859, 237510, 94218, 102832, 193266,
       119801, 219826, 176865, 84229, 222753, 88396, 88385, 58026, 68939, 94555, 240981, 103074, 34144, 151340, 48313,
       76372, 197760, 24241, 110385, 151155, 206556, 38818, 168134, 29347, 117593, 244245, 166715, 81314, 184266, 46356,
       55466, 98075, 41178, 81681, 219445, 28707, 52672, 152452, 17254, 109843, 630, 150129, 63218, 120829, 38770,
       118123, 219542, 237311, 66821, 148051, 215878, 86555, 211174, 114847, 130776, 93519, 243015, 19263, 27974, 22691,
       96564, 147582, 146585, 18202, 68329, 202570, 109951, 233909, 99522, 78178, 88493, 114216, 122966, 117945, 229580,
       113502, 173992, 227540, 9813, 164546, 133134, 17996, 135985, 90984, 78796, 177197, 99122, 67936, 140636, 187122,
       22094, 44249, 221696, 16955, 97718, 236002, 73923, 104849, 4502, 6412, 64260, 256519, 114522, 61244, 95783,
       105785, 254925, 183387, 102940, 3390, 20078, 2096, 203962, 250161, 6244, 103215, 69827, 72068, 134555, 60317,
       130341, 95392, 215511, 44868, 18112, 131951, 45137, 234864, 56532, 17600, 21409, 252896, 88386, 142204, 174133,
       84761, 54258, 135932, 13280, 139397, 157670, 61264, 173877, 172243, 87434, 220842, 257030, 64686, 38540, 106859,
       88390, 48077, 204564, 106990, 50733, 75856, 89891, 52546, 209856, 80755, 85227, 245642, 111881, 205038, 22723,
       118041, 247665, 57077, 50972, 32268, 58799, 22708, 54862, 125330, 107198, 156991, 69048, 28017, 12394, 41228,
       121759, 110673, 93574, 2998, 172500, 58206, 120752, 224512, 203743, 77225, 103077, 6751, 101546, 261802, 13940,
       52231, 57769, 31562, 129986, 62341, 71365, 29825, 162716, 116036, 34648, 13775, 127544, 6741, 92616, 197754,
       123269, 189960, 226517, 59772, 176391, 207553, 88454, 67030, 201817, 90104, 60563, 34288, 114622, 193525, 26580,
       87153, 21614, 127781, 73665, 63021, 64462, 93102, 227961, 38833, 98431, 64111, 198008, 24369, 248452, 104178,
       14374, 72910, 218757, 9810, 154279, 217448, 49027, 246319, 112848, 65273, 232636, 6862, 80694, 121495, 137738,
       125571, 131220, 12464, 43357, 5549, 166136, 99729, 74384, 98345, 69646, 27765, 32379, 28847, 164515, 245721,
       80649, 82105, 71861, 126769, 187705, 208755, 16293, 88447, 64165, 66490, 45429, 76585, 6764, 107530, 56423,
       42102, 121301, 161558, 81343, 166240, 159854, 110239, 3858, 159499, 95725, 159093, 58240, 60667, 147753, 88889,
       119173, 169140, 86531, 39677, 109202, 97916, 98826, 29765, 39094, 62129, 81395, 84228, 117785, 258378, 180042,
       104521, 30094, 20763, 118157, 113101, 52786, 28081, 234371, 145864, 87575, 213237, 256652, 96791, 229592, 7017,
       97309, 189419, 204699, 66060, 90975, 107967, 1474, 164748, 99349, 34266, 67031, 21645, 42375, 181479, 77596,
       111678, 37617, 198462, 110216, 153569, 16491, 13720, 165307, 19203, 124496, 232966, 52164, 23915, 17744, 164648,
       54310, 241697, 2015, 28201, 14119, 162057, 112765, 130378, 123794, 98225, 163347, 35011, 46337, 190782, 56660,
       89375, 51188, 258626, 24165, 88143, 224803, 50108, 116520, 232402, 49428, 64439, 231957, 31186, 219348, 25511,
       114859, 255056, 103203, 88977, 175175, 77414, 36692, 53821, 233424, 31735, 66148, 176915, 2353, 51734, 86856,
       45427, 60075, 77878, 69044, 253138, 128434, 36400, 33705, 236627, 91810, 122475, 216824, 53968, 218697, 255416,
       41460, 107880, 214490, 123084, 43372, 131700, 34445, 219306, 131421, 52200, 110829, 152948, 50107, 162066, 18387,
       31614, 91636, 15340, 28505, 29161, 3022, 39633, 145182, 36560, 113277, 42798, 261558, 100543, 23119, 201450,
       89259, 253839, 71960, 59913, 105762, 111648, 66552, 86579, 74907, 35014, 110823, 22249, 9740, 192795, 257153,
       43390, 38758, 29579, 64957, 40387, 86102, 7512, 35555, 125115, 11564, 239958, 7050, 34475, 63786, 25166,
       48113, 251324, 176943, 51552, 215237, 203105, 15451, 147450, 232931, 29598, 224547, 189455, 34294, 164789, 160365,
       8865, 10090, 216764, 42742, 141546, 38046, 9466, 59240, 106091, 92203, 164210, 43478, 50600, 13856, 120567,
       42828, 23378, 41895, 16583, 134758, 161260, 29688, 75268, 126416, 30501, 35952, 4997, 129132, 180054, 25571,
       109490, 239565, 205251, 2000, 120347, 110317, 80850, 1474, 160969, 33542, 169910, 206295, 13680, 234045, 234953,
       92484, 97557, 83243, 17249, 210391, 133526, 58161, 259903, 223894, 82859, 39973, 69046, 72678, 193115, 239434,
       128139, 210022, 164102, 102988, 224339, 125441, 101475, 19449, 256682, 46608, 157153, 128474, 1100, 108511, 126281,
       96260, 185958, 22151, 131036, 231670, 129663, 53199, 101295, 28289, 129173, 230868, 259689, 18573, 253056, 58728,
       38864, 122409, 30940, 22377, 136419, 11190, 62282, 69500, 137689, 104461, 248055, 249051, 44651, 54849, 64072,
       118781, 62718, 12850, 71412, 3128, 246603, 61004, 28510, 65716, 103158, 94872, 17886, 13296, 105393, 128634,
       101417, 74424, 102822, 31844, 53625, 241334, 36806, 173587, 175033, 78571, 158590, 259083, 118218, 91477, 178288,
       75812, 250536, 94328, 85059, 23342, 173683, 101789, 211300, 220608, 33990, 56311, 85590, 108427, 45078, 196622,
       54782, 228762, 51785, 23023, 142359, 53987, 45890, 177448, 50040, 32260, 235162, 226283, 29977, 248945, 173763,
       37036, 32396, 108984, 23714, 252641, 64821, 87517, 1233, 55968, 76020, 178147, 84738, 84992, 150941, 199559,
       45052, 180093, 91396, 100890, 130165, 145380, 16988, 20157, 102495, 74860, 8069, 118690, 36104, 45083, 20135,
       69154, 231972, 88182, 42419, 202331, 108314, 103613, 251153, 95101, 116820, 205117, 63751, 97331, 158888, 10123,
       23014, 28419, 47752, 36027, 92826, 169809, 120502, 26309, 189627, 57307, 82987, 146632, 123362, 104494, 85970,
       51439, 112135, 101509, 124751, 2179, 49075, 121338, 120743, 150579, 86576, 152180, 253979, 1156, 256611, 183211,
       52472, 174964, 86423, 119437, 107720, 18670, 116013, 46088, 151955, 24561, 77000, 172373, 52321, 169898, 152982,
       109511, 250941, 211077, 75743, 158854, 87390, 111057, 53772, 162112, 108339, 220257, 45796, 118945, 126252, 145457,
       15364, 88325, 185833, 19033, 167515, 108766, 10853, 247737, 231939, 122587, 146155, 204891, 62280, 126889, 141416,
       8431, 63846, 237070, 42143, 148735, 228328, 46060, 93768, 113649, 106110, 163887, 237409, 96400, 111990, 184198,
       90359, 88961, 67455, 2865, 183386, 218833, 119366, 188594, 12521, 28253, 68143, 18163, 82452, 88194, 169601,
       8102, 195456, 8520, 10685, 206546, 233131, 1255, 82669, 79654, 74177, 70313, 208683, 82494, 13646, 45908,
       6614, 51120, 141668, 38074, 113984, 92014, 111601, 218359, 114128, 13278, 180946, 137547, 28383, 70766, 100848,
       55625, 210888, 207602, 110398, 144488, 161440, 33403, 150803, 26266, 130696, 194740, 244536, 46564, 229735, 152342,
       50652, 156910, 42434, 16004, 184654, 125742, 89154, 235735, 234147, 31911, 122798, 50354, 82426, 244698, 118253,
       29249, 191306, 189205, 50839, 50806, 27373, 112285, 189906, 189012, 96849, 229540, 214333, 20262, 141148, 36701,
       79653, 137603, 18580, 82397, 49151, 291, 11870, 259773, 239360, 61054, 20637, 83309, 34166, 85971, 247808,
       61227, 178801, 41881, 101852, 65267, 56724, 20743, 104077, 83213, 16161, 191059, 178066, 35299, 223254, 5534,
       124816, 169824, 46655, 98018, 213649, 149795, 2550, 31156, 8263, 52560, 132832, 7831, 33737, 175089, 171435,
       83642, 231962, 59817, 60200, 99737, 218018, 126418, 196778, 169594, 28701, 247340, 12671, 77051, 135307, 176625,
       91777, 243029, 188064, 108208, 101907, 214653, 53342, 132880, 225887, 90036, 59842, 93984, 39741, 58525, 145908,
       57078, 189367, 18651, 117391, 167599, 113038, 124506, 76066, 100649, 94216, 216870, 209900, 49067, 13376, 166679,
       107486, 161126, 44499, 3390, 118000, 112489, 13467, 29356, 135382, 86687, 151617, 84938, 38174, 139790, 87013,
       124700, 24751, 42290, 57155, 88224, 21372, 56277, 185004, 260947, 88877, 62274, 225965, 100606, 195716, 89806,
       62332, 114012, 156216, 28049, 137937, 86750, 101359, 28945, 200683, 41989, 21574, 134505, 22952, 31130, 93364,
       82790, 89908, 140846, 11855, 247212, 56266, 127317, 36131, 3607, 82889, 150533, 220186, 129223, 78045, 14313,
       44419, 115029, 94834, 127297, 210472, 40197, 19079, 35372, 55970, 5333, 247778, 206889, 4323, 75175, 140100,
       60931, 128244, 216175, 10879, 137932, 212421, 67130, 227780, 128693, 42926, 38271, 250108, 43991, 147666, 33044,
       83310, 142185, 167523, 21377, 152531, 186679, 100473, 179137, 257365, 76287, 250797, 178333, 119923, 163156, 106782,
       47820, 103329, 121157, 128806, 109953, 193365, 75474, 231030, 40625, 127585, 194301, 131874, 3546, 234369, 32989,
       95417, 81928, 49405, 107036, 56736, 98507, 6969, 138682, 97196, 75886, 186594, 159139, 105112, 47265, 253569,
       73536, 122628, 257169, 8364, 45854, 171586, 90891, 135465, 72732, 7942, 146486, 21733, 107147, 74188, 194743,
       5640, 151119, 78269, 18008, 248911, 252904, 36058, 236481, 112822, 83016, 102249, 153029, 127973, 89104, 143581,
       15443, 72597, 207715, 18704, 256801, 77942, 48348, 152210, 90716, 109604, 239815, 153971, 61240, 234733, 248865,
       42154, 37905, 43376, 73558, 28493, 213764, 34147, 77735, 8068, 52580, 217936, 198172, 43595, 58227, 121256,
       105400, 97541, 37554, 121144, 12209, 140375, 99558, 169442, 31382, 57551, 147450, 19941, 66104, 50900, 161621,
       16393, 172808, 35316, 97893, 13478, 229275, 78181, 68222, 232984, 118284, 161264, 26541, 26294, 132070, 248394,
       99578, 215548, 246368, 89741, 74460, 171746, 34844, 237452, 1149, 87474, 171191, 3809, 121159, 122614, 250969,
       120381, 63379, 261588, 94322, 234455, 9089, 6301, 10225, 53930, 114329, 113042, 15112, 86216, 93736, 194900,
       40689, 62503, 216066, 24543, 73245, 136628, 15231, 19065, 246083, 6584, 170618, 240187, 98841, 215198, 12327,
       30912, 108411, 161334, 3178, 230905, 26760, 52071, 15434, 150882, 63256, 72159, 182729, 22181, 90393, 179461,
       5773, 131994, 23835, 24789, 14501, 254608, 89011, 93637, 181118, 10779, 221056, 202817, 72749, 213298, 128432,
       19190, 134238, 121474, 25649, 97349, 176514, 51521, 132203, 76287, 13215, 99207, 176131, 22702, 33952, 4717,
       45737, 233432, 92069, 43210, 98536, 252350, 98208, 134262, 110312, 9801, 227094, 183471, 112780, 261836, 12763,
       106985, 47994, 39944, 100400, 14731, 233394, 40550, 14232, 137179, 107856, 199594, 255366, 23960, 61411, 226969,
       16306, 147699, 196457, 5892, 135408, 179134, 123117, 75471, 58378, 40371, 158435, 169349, 120274, 2828, 186547,
       35732, 1241, 97738, 118956, 127250, 131045, 118479, 206783, 6721, 121068, 17451, 93608, 65031, 215900, 49354,
       113501, 81711, 39589, 124618, 206449, 137934, 42548, 50281, 106783, 54902, 185100, 79714, 94272, 65492, 159245,
       39368, 199898, 176093, 98803, 77001, 157772, 9685, 50136, 258812, 68615, 256960, 58991, 16031, 228847, 261100,
       38446, 129683, 145861, 33898, 143509, 41023, 109960, 132316, 35897, 25364, 181849, 118064, 105964, 232204, 215241,
       104065, 254399, 252439, 65389, 157249, 45830, 30650, 79481, 106002, 29739, 198461, 144860, 60938, 158163, 192743,
       1154, 161013, 84672, 69645, 54030, 22521, 124882, 188219, 194809, 20277, 194096, 138386, 75149, 146092, 89154,
       126062, 67181, 194424, 112790, 93812, 210497, 111461, 5928, 55638, 107721, 134762, 45106, 40504, 89677, 164217,
       116734, 243612, 121863, 123383, 95031, 160690, 64984, 132253, 102682, 46474, 88160, 184226, 54293, 216408, 170762,
       43805, 27982, 58326, 27842, 28844, 131432, 81061, 72847, 256668, 73740, 183258, 10683, 60631, 249149, 223400,
       12562, 169482, 70939, 104450, 92974, 156765, 22928, 233815, 235727, 15015, 229677, 259962, 81667, 56085, 99282,
       52251, 29810, 1743, 7839, 56749, 77337, 46605, 14528, 105412, 101158, 208230, 19449, 80641, 247418, 99461,
       47551, 23489, 104974, 25140, 62298, 76861, 82810, 187592, 235968, 116333, 169975, 169940, 84708, 67553, 105654,
       106548, 244852, 31563, 68357, 182676, 93515, 94105, 238263, 106208, 117470, 61785, 110339, 101342, 30156, 158584,
       119256, 98927, 223019, 56510, 86488, 207470, 118517, 250945, 55542, 81470, 15874, 239280, 114039, 8353, 253815,
       5161, 42099, 179205, 86226, 7183, 82501, 111145, 206972, 217255, 22833, 2347, 40338, 86741, 193185, 56566,
       108128, 121713, 244231, 37742, 26155, 211795, 53116, 117097, 119634, 74647, 216635, 150327, 68048, 91047, 50535,
       5136, 165707, 145936, 12933, 39122, 114410, 13168, 93187, 164044, 34375, 256615, 72090, 32225, 236189, 254960,
       97284, 150021, 206496, 75070, 197175, 66984, 100135, 228947, 214829, 9161, 109061, 155243, 63598, 139, 249776,
       42437, 239265, 131676, 111403, 64314, 64407, 92771, 89227, 34492, 113935, 116991, 203550, 6085, 77539, 13457,
       94479, 203535, 4501, 70779, 255520, 193438, 108134, 105854, 148701, 66474, 144958, 202240, 70806, 74516, 190873,
       6785, 66625, 43502, 87624, 164879, 173432, 35800, 259463, 172382, 2581, 84349, 132127, 8708, 13569, 162396,
       125473, 88955, 137415, 45361, 11141, 18380, 113780, 107163, 15769, 125786, 213496, 90578, 123635, 240379, 149228,
       115569, 128646, 234331, 117288, 257240, 96415, 37880, 226069, 210354, 19853, 120967, 255743, 83789, 110765, 209299,
       63976, 255888, 149573, 12942, 243771, 16927, 88806, 182288, 10602, 73775, 48994, 258824, 113123, 254373, 208792,
       79846, 246013, 230305, 75228, 71740, 144851, 57770, 55018, 250142, 60658, 111889, 124496, 125092, 172014, 87360,
       18146, 103637, 22516, 58486, 207877, 94898, 85960, 153932, 87937, 56755, 149773, 11771, 37121, 167422, 222692,
       37664, 132461, 138429, 30625, 200617, 135376, 45076, 21051, 249767, 114252, 40943, 9562, 66220, 207686, 49431,
       31488, 149570, 161202, 50400, 179792, 140935, 13871, 105846, 104130, 118493, 202500, 195134, 53503, 80281, 12163,
       128501, 219144, 27903, 45552, 157834, 9394, 109622, 225397, 57287, 33604, 245310, 24129, 9981, 134228, 110261,
       4159, 93108, 170108, 79451, 185602, 119790, 40838, 153169, 16165, 58133, 9902, 40919, 107301, 184614, 257454,
       32520, 6031, 120252, 40455, 182827, 64704, 110799, 237095, 162277, 64587, 88261, 184471, 108483, 191044, 60421,
       49083, 83552, 51614, 52215, 39354, 231899, 21907, 41773, 250876, 120107, 74376, 32683, 117543, 60906, 252138,
       129003, 76685, 204384, 52749, 144140, 132255, 107297, 130454, 252314, 54388, 213783, 20780, 59545, 223048, 58689,
       108789, 178393, 135483, 23247, 214274, 218548, 28876, 155923, 187539, 41252, 15709, 5561, 103308, 52991, 221602,
       48844, 48202, 187999, 46945, 215848, 68760, 130916, 224396, 170935, 50306, 62596, 243606, 32475, 204403, 26899,
       81685, 226290, 90009, 105104, 2375, 188282, 9123, 167243, 23855, 81119, 116003, 237446, 4683, 240562, 132574,
       68987, 113746, 70932, 33684, 104397, 131469, 40192, 36856, 201855, 61223, 53003, 48082, 121517, 217342, 62705,
       93148, 153409, 13285, 122794, 59243, 143720, 86503, 188615, 26817, 931, 164266, 85137, 34810, 205255, 73361,
       118721, 110967, 99875, 84337, 181226, 134524, 128666, 122314, 58942, 20442, 135247, 42562, 38895, 87026, 212582,
       47496, 66550, 7831, 42802, 153706, 66508, 33029, 8870, 236423, 58125, 245968, 152238, 84187, 78545, 60026,
       40797, 17667, 161383, 10446, 112289, 7206, 92868, 203257, 69997, 60164, 57147, 58948, 72939, 65227, 177174,
       59690, 72072, 201166, 116700, 246072, 182550, 73235, 216077, 17228, 121015, 194498, 141546, 66922, 34385, 4301,
       38350, 30304, 39327, 46588, 149628, 57448, 68436, 139137, 220697, 69466, 203316, 205391, 90090, 190635, 179398,
       29424, 260017, 76083, 86355, 224548, 112469, 102051, 22920, 111369, 88682, 69531, 254382, 63154, 45615, 178361,
       129981, 148452, 257505, 53059, 175739, 158183, 13971, 11805, 117246, 107676, 52565, 158707, 27813, 167290, 26705,
       93491, 200962, 156474, 23458, 204296, 44283, 2212, 40206, 55908, 20945, 32137, 199915, 49412, 173654, 10113,
       13974, 174820, 166366, 25910, 50575, 42957, 100221, 25026, 139843, 100910, 48303, 237526, 107149, 214149, 52980,
       110251, 235710, 169982, 55107, 97931, 116564, 113711, 122978, 177422, 68935, 156783, 148383, 61682, 27606, 172056,
       94179, 260496, 51912, 28025, 159072, 154091, 103481, 46, 3734, 56290, 247678, 212758, 16684, 226624, 161337,
       15638, 118260, 164744, 21614, 172157, 181249, 116729, 39170, 76220, 129884, 53015, 203570, 46789, 70728, 206325,
       38291, 230423, 155631, 28674, 196324, 223957, 107979, 71642, 187171, 27421, 63736, 141700, 121122, 89524, 224184,
       87470, 248741, 62632, 117588, 87532, 108826, 72615, 47090, 72520, 90528, 207328, 166956, 81193, 160476, 140783,
       108946, 118187, 250618, 109557, 248576, 107773, 77305, 91245, 250705, 82904, 11170, 191278, 120832, 31628, 16936,
       121879, 120530, 54635, 87064, 143569, 167505, 1016, 96665, 68837, 13685, 101381, 165275, 112452, 63838, 143777,
       11103, 170042, 151269, 27986, 101206, 191301, 30218, 56222, 7056, 78673, 254737, 3734, 75580, 108549, 181918,
       37934, 139887, 220061, 27212, 9675, 40606, 100208, 194567, 225138, 122612, 28633, 93438, 6921, 90722, 71614,
       17456, 60190, 70325, 84169, 188305, 73247, 105439, 196595, 210843, 103702, 178570, 231552, 94330, 81327, 204078,
       116316, 250833, 1009, 28488, 92364, 165431, 14062, 219922, 188322, 80656, 224189, 182144, 107777, 90611, 15489,
       76289, 161459, 96199, 126222, 1750, 33916, 104276, 59004, 78832, 91854, 47953, 178716, 7898, 11437, 30734,
       14121, 259710, 837, 102870, 62437, 50842, 25983, 115705, 115811, 3779, 126929, 227889, 119375, 58878, 33025,
       116759, 168281, 47939, 28637, 29413, 82149, 102263, 51028, 121375, 6288, 207134, 57081, 37363, 32159, 18786,
       81745, 70516, 125066, 100031, 104171, 250348, 1363, 11134, 428, 42756, 213741, 124240, 28094, 183828, 34149,
       130912, 38100, 160177, 87946, 257730, 87360, 53172, 44216, 82428, 9915, 245850, 239803, 78468, 238024, 168418,
       84109, 24955, 189772, 107007, 251063, 24143, 37824, 90509, 97032, 128637, 194344, 79839, 57601, 171280, 138149,
       38789, 246365, 194978, 45671, 249326, 208126, 68103, 48007, 160475, 122775, 91085, 94678, 96358, 192403, 116388,
       75642, 240117, 58655, 21339, 231518, 152207, 19576, 9742, 158575, 65823, 250055, 223112, 95513, 80564, 156464,
       98436, 174983, 12793, 29611, 13139, 145793, 13120, 63792, 51348, 50392, 18555, 121285, 120346, 186538, 143539,
       71482, 98708, 51098, 41956, 30575, 261507, 42419, 219274, 42409, 17312, 239387, 166844, 62026, 100018, 35406,
       103725, 128187, 254160, 126950, 242434, 244283, 65745, 15685, 66324, 21917, 50711, 152545, 89515, 176895, 143504,
       99194, 40599, 234819, 9397, 217463, 60018, 111429, 114294, 138480, 108700, 247542, 257457, 61936, 236200, 241970,
       73455, 183595, 46359, 93507, 215410, 191013, 88702, 191430, 50958, 2167, 105836, 98990, 16047, 220239, 63060,
       21311, 18173, 196952, 99047, 249071, 137129, 57682, 165873, 10342, 71500, 31521, 185641, 101277, 180283, 254108,
       44693, 59761, 44339, 98158, 141525, 6577, 57973, 13244, 164587, 49437, 199641, 134965, 43651, 225515, 187538,
       126477, 64711, 229719, 101184, 25923, 3440, 2647, 32073, 19423, 125490, 95066, 62087, 101638, 110925, 153955,
       19552, 164671, 201675, 10005, 207296, 166836, 40395, 161544, 183948, 81812, 189114, 122892, 80812, 2002, 218189,
       36156, 59664, 237836, 58415, 133903, 218329, 27772, 227145, 20639, 6629, 117813, 85601, 67760, 92564, 201908,
       45480, 215468, 240017, 71156, 179874, 89220, 124060, 159323, 126072, 18791, 218495, 154624, 257, 43427, 219585,
       10076, 152350, 150241, 60648, 26682, 197931, 92658, 260835, 253497, 76121, 222039, 166606, 64866, 216525, 25174,
       46394, 171840, 66421, 40628, 245002, 172996, 49320, 152448, 26883, 80168, 56804, 124624, 21987, 221905, 193159,
       101103, 254528, 197244, 75399, 155368, 247348, 35278, 226682, 211620, 65687, 31756, 142539, 126193, 86023, 38981,
       2685, 226940, 49575, 26151, 217995, 225090, 58770, 24852, 119985, 83681, 149740, 24538, 27817, 48055, 226363,
       122080, 256461, 33628, 84223, 52117, 133680, 115006, 199337, 227353, 43164, 94307, 76603, 108652, 170413, 235943,
       49573, 248826, 108742, 33128, 178341, 213718, 119492, 128087, 120123, 12087, 68169, 5561, 123586, 83958, 161627,
       60098, 132399, 94525, 130105, 106446, 101274, 70725, 196727, 28087, 99285, 128369, 157941, 926, 212927, 96907,
       65099, 29733, 235362, 96659, 131447, 97453, 102606, 184329, 45462, 20715, 194987, 163616, 54915, 94478, 247617,
       54928, 157206, 90684, 13584, 106968, 72234, 58070, 225649, 103947, 105787, 75571, 117906, 39345, 75927, 183933,
       56698, 106884, 245501, 125954, 203625, 50471, 4156, 10727, 206246, 77531, 246719, 225770, 97443, 171814, 211753,
       99730, 100242, 31014, 93839, 112406, 188334, 95217, 116286, 165522, 7734, 238056, 242286, 70010, 93046, 76666,
       102625, 84452, 99395, 12329, 77098, 129954, 1579, 106804, 148763, 106766, 65114, 84706, 93361, 222813, 204305,
       54028, 188606, 207350, 123259, 168089, 117729, 100479, 142989, 165636, 126859, 123034, 54559, 121807, 54971, 115603,
       63084, 30180, 147078, 98921, 56426, 45463, 87712, 66509, 143927, 106357, 195710, 195245, 103243, 234424, 223354,
       20084, 110303, 250318, 30636, 48136, 64748, 34829, 254091, 245685, 107282, 63741, 73777, 106265, 140671, 8768,
       64924, 155869, 68614, 76130, 221743, 154759, 108386, 89242, 182844, 40972, 70366, 209276, 6577, 8558, 123858,
       63254, 230780, 157508, 119762, 192276, 261248, 103608, 67082, 208681, 48053, 68983, 259345, 8489, 186583, 243711,
       83482, 82158, 109841, 109378, 98984, 161262, 87156, 36307, 146287, 55715, 101308, 32156, 16168, 53683, 152140,
       119377, 452, 228713, 36170, 107393, 93731, 29397, 196725, 60857, 106951, 181800, 194180, 128610, 120536, 4383,
       86528, 137739, 110402, 81895, 42052, 122079, 41868, 116101, 25830, 2675, 165624, 191133, 25139, 86473, 54807,
       76602, 122206, 99571, 19833, 92086, 202057, 115846, 33262, 112869, 24660, 131209, 250128, 68433, 72054, 67289,
       67110, 157325, 148446, 79160, 94799, 197051, 42917, 114920, 73739, 114495, 229324, 27300, 58235, 128692, 158317,
       91770, 138902, 211700, 83350, 28408, 48639, 15355, 231244, 55749, 81610, 153416, 126511, 72181, 183869, 258844,
       117781, 218045, 234527, 115458, 68812, 27557, 19785, 247960, 225766, 10706, 166566, 237982, 38612, 207449, 87544,
       129317, 83978, 46643, 2827, 188224, 243997, 88197, 86933, 152469, 79759, 29392, 29036, 84748, 80838, 252160,
       28611, 44077, 248713, 29716, 77581, 44624, 56445, 31193, 194870, 12564, 71955, 91971, 9779, 184164, 180272,
       11581, 118040, 31920, 75101, 137872, 103932, 52132, 215133, 3703, 38484, 246067, 219772, 41395, 20376, 95138,
       27169, 9821, 7418, 53936, 216874, 182922, 26615, 59571, 58227, 91494, 76246, 58439, 16244, 21574, 20472,
       124287, 258607, 190005, 11772, 196115, 69330, 123661, 74119, 37471, 109221, 167380, 212647, 89222, 78400, 53008,
       119577, 53109, 242029, 18247, 179753, 43433, 23109, 243815, 124626, 33050, 37891, 250071, 32087, 245481, 38441,
       40743, 132269, 53059, 75449, 24405, 52510, 3692, 167905, 153814, 50105, 61230, 217575, 32294, 50196, 40851,
       79512, 49137, 81559, 129128, 30031, 28401, 67850, 6639, 159695, 55795, 108963, 60006, 48266, 109562, 233567,
       102884, 226496, 230130, 9434, 179483, 1014, 125799, 10714, 44705, 54777, 87333, 224631, 41117, 100017, 53106,
       127673, 14720, 27343, 122667, 134837, 46557, 84139, 155075, 219498, 2425, 209357, 193539, 98111, 255957, 197896,
       43982, 47064, 233171, 50892, 174697, 162281, 20806, 169955, 168397, 68610, 182968, 55717, 97589, 261590, 203570,
       35784, 29693, 61075, 123041, 157213, 210285, 25524, 143966, 227646, 8685, 36046, 124790, 84458, 16150, 24559,
       111321, 237194, 115330, 124929, 7899, 196575, 100554, 167428, 225906, 26168, 137968, 135485, 128144, 1786, 106187,
       120512, 78418, 132099, 21386, 178372, 78261, 73241, 46112, 146035, 72812, 204485, 223675, 58003, 240763, 70660,
       129011, 189404, 60269, 7814, 211254, 111999, 82209, 137900, 52543, 26909, 145865, 64620, 69118, 93235, 219681,
       102202, 47825, 126233, 32338, 255733, 64038, 51558, 110749, 187726, 124619, 19144, 241619, 99808, 210568, 89513,
       75067, 255129, 30005, 29097, 168195, 109634, 55745, 166278, 57026, 101457, 200595, 90261, 107550, 58283, 139505,
       32061, 6187, 95419, 86777, 145725, 207568, 12452, 60865, 140820, 3042, 126762, 240002, 71915, 206698, 131773,
       29409, 240192, 32898, 10343, 41355, 148669, 95660, 14844, 167495, 65270, 137690, 31903, 104369, 162628, 258324,
       87024, 130910, 95583, 95656, 260331, 44616, 40286, 95973, 252579, 34508, 23337, 24950, 78757, 229076, 76915,
       26225, 43596, 49184, 106877, 182667, 55996, 68540, 50433, 80003, 29752, 6399, 167533, 81942, 13250, 220383,
       123867, 189757, 231647, 10760, 83887, 13498, 14332, 24907, 22723, 110603, 179478, 236110, 14364, 177004, 230516,
       5161, 2205, 29367, 45603, 250902, 257695, 61172, 19332, 186649, 74638, 57987, 211089, 66492, 224416, 244627,
       119692, 243006, 164962, 100750, 226821, 74506, 128949, 256339, 42866, 62449, 253030, 9643, 11053, 65698, 196531,
       125243, 81902, 32505, 539, 31540, 17483, 101724, 119727, 250979, 4100, 51992, 245008, 99773, 227120, 209497,
       122937, 139650, 88718, 51021, 32949, 90350, 31583, 195291, 208023, 29658, 225726, 115154, 64450, 108803, 243876,
       22398, 132527, 22654, 88201, 116947, 29457, 48280, 178310, 140658, 42350, 159223, 50663, 60461, 163329, 27257,
       71118, 7633, 151109, 18603, 21845, 187131, 92767, 251558, 135041, 115729, 168369, 139294, 36436, 78926, 104791,
       23644, 51454, 217231, 99680, 253466, 113248, 24057, 47400, 52283, 5407, 103908, 105139, 81165, 117278, 133706,
       31424, 182881, 159720, 22519, 139963, 179412, 128660, 166346, 163031, 38255, 85748, 103627, 118416, 31178, 34315,
       23359, 128472, 52504, 107344, 254451, 10553, 65800, 161933, 195048, 10301, 150359, 240901, 96155, 29634, 255056,
       116925, 220457, 227186, 21366, 252433, 122501, 95104, 147913, 11718, 58333, 242163, 97482, 98811, 80753, 69839,
       93575, 252713, 65579, 3486, 142975, 62225, 23425, 84836, 180714, 61738, 126559, 92622, 122368, 14496, 206751,
       44836, 66092, 191979, 82427, 184417, 105716, 1583, 220382, 99947, 93208, 217018, 208211, 79045, 95246, 60462,
       93768, 57731, 146635, 118575, 177175, 97413, 19201, 238069, 31217, 34287, 18750, 164627, 130518, 260334, 196865,
       20484, 118229, 132684, 94454, 6029, 39136, 95037, 39254, 24633, 89521, 93403, 166291, 29811, 24359, 29524,
       28198, 13614, 19234, 87338, 172089, 138675, 24412, 48281, 2727, 86712, 112464, 122488, 64556, 174845, 60410,
       50676, 57393, 248758, 39352, 14286, 61914, 124200, 210712, 140003, 66596, 223322, 126437, 73564, 109374, 105696,
       124420, 234234, 18350, 85705, 2054, 153885, 125547, 183224, 195926, 13941, 183871, 109278, 110970, 196559, 178168,
       43963, 122191, 176539, 106232, 57903, 247664, 112150, 945, 109629, 35584, 120641, 246308, 53586, 64636, 78642,
       95160, 40225, 176306, 12983, 110009, 130309, 99029, 76392, 39339, 14479, 237859, 259107, 119859, 142013, 222385,
       36220, 90138, 120775, 75444, 251027, 40377, 15355, 142491, 135319, 35323, 1774, 44493, 52947, 51238, 170657,
       63838, 123303, 67284, 8, 222049, 124978, 116477, 232806, 159507, 1005, 249728, 122485, 101408, 100411, 222523,
       61679, 188534, 16491, 68666, 687, 218266, 27297, 202613, 5488, 79608, 258058, 231252, 70416, 15938, 922,
       21526, 208217, 255279, 31210, 192346, 211972, 8769, 50452, 193400, 8687, 241267, 23609, 1805, 162481, 36424,
       28898, 2828, 120595, 89084, 145856, 62020, 41446, 257780, 132889, 44922, 227074, 102385, 17289, 27185, 153415,
       75428, 23947, 34831, 44845, 118327, 215133, 88646, 51395, 195104, 97184, 150863, 237603, 76636, 226635, 44059,
       36184, 258560, 62000, 66664, 63301, 39925, 33021, 19511, 189701, 118346, 154967, 227983, 100451, 186917, 209742,
       64619, 70808, 60308, 126544, 104509, 30889, 71664, 86484, 243327, 43061, 210248, 221992, 12513, 23605, 257587,
       71269, 217358, 138503, 112776, 137917, 109081, 113602, 146050, 26553, 79241, 213533, 33671, 51568, 197432, 173461,
       85235, 167167, 176182, 99895, 68302, 90008, 53952, 126809, 148527, 62423, 153738, 234366, 89209, 194154, 131174,
       114904, 160009, 82766, 103679, 81863, 89473, 2934, 231095, 143771, 16301, 191848, 171282, 111775, 89560, 144091,
       109290, 216456, 234149, 50961, 178960, 181760, 76582, 124738, 106957, 118730, 239478, 56058, 119479, 214810, 126616,
       102641, 142994, 51586, 27471, 63262, 226872, 95719, 164659, 86532, 13251, 45540, 225395, 117170, 79103, 249553,
       19549, 60812, 226716, 86815, 94622, 165162, 79985, 211404, 37322, 101829, 207538, 55498, 72296, 96046, 186498,
       7807, 133737, 101688, 92516, 178312, 259477, 50220, 218716, 22615, 41980, 103725, 21804, 129980, 166588, 116658,
       77384, 230194, 237156, 93155, 97090, 179410, 68986, 162377, 91493, 100921, 224041, 108916, 98575, 177625, 127196,
       86133, 119452, 83303, 130776, 46805, 182326, 60266, 15230, 103469, 92562, 11397, 2133, 104566, 92573, 192158,
       49287, 162910, 250453, 59922, 221567, 32906, 127030, 181388, 2693, 4232, 117492, 28013, 43947, 228578, 6417,
       63728, 237345, 22790, 192, 5130, 148979, 117850, 101550, 43382, 37518, 164108, 155938, 33777, 232719, 117931,
       107521, 208424, 202225, 36435, 214362, 9703, 86195, 238191, 94110, 107676, 15748, 251861, 103871, 137726, 6757,
       102491, 222050, 162420, 11617, 236862, 37956, 10465, 183955, 69367, 40208, 252215, 20616, 4711, 199408, 204241,
       65592, 85570, 96757, 51744, 229373, 110923, 73010, 131179, 46938, 39162, 212688, 12482, 63668, 196261, 251596,
       43875, 174574, 255461, 25586, 82592, 28652, 85113, 206996, 207566, 88268, 154791, 34137, 108689, 14793, 87864,
       114655, 122086, 27120, 92335, 60484, 79852, 90111, 196403, 111960, 7428, 155400, 208017, 14388, 258142, 194058,
       106504, 57560, 163411, 30533, 101649, 231604, 46604, 163465, 225742, 19044, 108721, 226988, 25578, 251350, 61440,
       101635, 127893, 93890, 34322, 121647, 182956, 58855, 238838, 241508, 19879, 228120, 60499, 88857, 164804, 226466,
       95455, 202006, 41723, 47407, 192804, 187509, 102858, 81893, 247252, 31445, 11712, 206336, 90689, 58461, 149452,
       95677, 240547, 134593, 126963, 225397, 14493, 30450, 226833, 8825, 12282, 214968, 159559, 34476, 151747, 103144,
       16103, 208097, 230528, 22242, 45194, 105686, 43793, 15020, 84755, 54262, 156016, 36937, 118452, 246865, 167974,
       25639, 196713, 103598, 127370, 102889, 107112, 106188, 105258, 7300, 115536, 57151, 161468, 121824, 21659, 48455,
       98728, 217629, 201331, 103386, 249060, 83182, 57385, 188684, 24251, 66905, 192193, 94357, 122222, 191327, 176784,
       49578, 198925, 25791, 5498, 22743, 206973, 99975, 194723, 251086, 75124, 236290, 70209, 106807, 110660, 128033,
       9902, 171866, 32420, 81426, 31314, 152045, 32467, 80255, 150879, 118393, 57990, 225852, 14406, 30309, 149167,
       110502, 203348, 244634, 11606, 257665, 33761, 3289, 146952, 158739, 30809, 186021, 44997, 43652, 213403, 34478,
       82120, 99399, 125899, 17265, 106541, 250597, 57321, 185874, 179346, 26773, 62614, 94371, 112106, 83089, 167371,
       5893, 222856, 138787, 46653, 123132, 83434, 82755, 121480, 19737, 119680, 76984, 204059, 113769, 166172, 237784,
       117334, 158796, 140646, 8238, 80454, 134829, 110221, 129427, 117893, 102224, 183892, 180403, 118283, 136612, 29623,
       40838, 242352, 173794, 119506, 229640, 163734, 52774, 254883, 203941, 83112, 187165, 235291, 55597, 259191, 19565,
       56052, 192698, 944, 71648, 211636, 14763, 46652, 6732, 197806, 103905, 163397, 190226, 83052, 77680, 182972,
       90407, 174896, 78321, 30282, 50681, 137087, 127084, 45144, 78320, 86530, 157676, 75046, 25846, 224488, 135221,
       98368, 67421, 105209, 22769, 14401, 11971, 8307, 258245, 87535, 69147, 125498, 188934, 72551, 128901, 115101,
       24768, 25116, 88206, 45662, 190050, 209356, 123963, 228884, 2008, 37355, 247368, 146941, 20390, 161706, 82626,
       130097, 21245, 203065, 39623, 207425, 60488, 89162, 54905, 44630, 30351, 14706, 183449, 72105, 127279, 37573,
       50630, 197276, 46575, 126036, 30649, 137485, 56728, 191781, 180404, 76568, 230337, 215977, 123832, 105907, 63275,
       129660, 240690, 136256, 13324, 148134, 34233, 109356, 22116, 204459, 50084, 202670, 97324, 77965, 101759, 208,
       49158, 79116, 84736, 52575, 27081, 121516, 20821, 203150, 61231, 75073, 169145, 143503, 71659, 39968, 71925,
       24819, 63416, 169280, 71005, 181097, 235547, 127546, 107468, 160527, 93638, 252569, 101309, 63043, 90714, 224118,
       120072, 251699, 181073, 75407, 158160, 229792, 17701, 2959, 107301, 71763, 48380, 207572, 23720, 133215, 160720,
       100598, 103343, 142637, 126769, 120223, 115905, 47293, 55971, 57912, 57005, 145852, 174816, 55246, 100899, 160358,
       37394, 219788, 185827, 104094, 198274, 88393, 80966, 232791, 180257, 8395, 95855, 171564, 109944, 6276, 213881,
       24522, 7506, 40923, 128339, 78923, 12756, 49369, 259772, 261561, 80799, 75537, 34352, 10200, 130384, 31076,
       45175, 184743, 91764, 105166, 36149, 116884, 62548, 176018, 131542, 118568, 49229, 92804, 75384, 143063, 232030,
       121709, 213593, 156570, 128792, 169274, 198243, 59492, 227463, 185222, 74076, 53026, 191126, 109434, 188364, 40867,
       29036, 202926, 22867, 112935, 134085, 65609, 77584, 41062, 29574, 95092, 197589, 199458, 10466, 164222, 91310,
       100425, 197144, 63688, 40735, 120889, 92140, 105543, 106166, 7737, 66735, 168165, 126906, 35994, 65560, 96340,
       124880, 31197, 62648, 100278, 67788, 147292, 129195, 221531, 73303, 47771, 209328, 119239, 85094, 135215, 225324,
       80162, 39632, 59948, 90119, 114600, 73083, 5022, 60016, 89213, 38236, 61661, 82950, 119188, 182051, 168829,
       55550, 247000, 136608, 125913, 128006, 30125, 27984, 75456, 214775, 130734, 93074, 204787, 91433, 85170, 94675,
       101763, 115049, 146852, 52017, 101597, 77837, 118883, 96592, 43555, 71494, 239430, 101856, 89251, 250445, 65055,
       12426, 186054, 62165, 82795, 171134, 208321, 115222, 168073, 129458, 23367, 246228, 236922, 96695, 56021, 89543,
       3329, 86057, 106156, 121399, 73868, 194123, 128832, 239136, 68330, 46423, 23518, 89991, 14034, 100566, 71685,
       86320, 241625, 113589, 3910, 123060, 116333, 63240, 115831, 136469, 35622, 167783, 159549, 62041, 130149, 46527,
       2395, 107024, 249161, 6764, 239090, 238759, 2093, 257907, 70927, 81150, 223470, 28682, 73412, 130785, 23574,
       30560, 127188, 32573, 84756, 211862, 159140, 115894, 213273, 261700, 36349, 42578, 241521, 109051, 24218, 135808,
       86836, 104195, 116572, 4432, 239370, 239472, 49171, 169645, 126307, 66552, 197603, 99596, 95905, 72410, 241634,
       37634, 203563, 11846, 128808, 104937, 72289, 89723, 260274, 66417, 48865, 113847, 99469, 12717, 69709, 218771,
       23772, 61623, 77378, 63911, 189877, 183947, 64840, 186008, 61439, 100626, 113755, 122114, 95181, 110799, 162449,
       26381, 68080, 1203, 77982, 40414, 181256, 2702, 246590, 53129, 52238, 106098, 24248, 100152, 210263, 172510,
       52364, 102325, 30084, 109523, 70868, 225843, 127946, 164151, 63913, 79588, 149490, 131737, 19005, 255405, 103876,
       49765, 13367, 241868, 1243, 607, 57, 79000, 129050, 204303, 107684, 164248, 222733, 82567, 132651, 82058,
       103033, 234417, 112990, 104845, 1980, 192719, 111543, 241274, 186047, 34952, 40728, 4480, 114198, 237980, 100541,
       85733, 107103, 74591, 37974, 238067, 28770, 129406, 181635, 99787, 124542, 80402, 131101, 75293, 33698, 217203,
       110521, 2247, 134885, 34274, 158761, 23257, 54530, 210034, 251313, 24113, 143294, 67743, 68170, 234245, 64583,
       65011, 235783, 109122, 27893, 224173, 75887, 88185, 121529, 165775, 15439, 2520, 142233, 8086, 5734, 78001,
       50450, 69219, 205213, 53716, 145037, 106483, 41909, 10689, 229559, 33809, 152484, 24642, 44404, 24403, 208343,
       21413, 252504, 187720, 52881, 84419, 86314, 118568, 45448, 227946, 29416, 21017, 21469, 89712, 98343, 43701,
       18583, 256729, 237171, 46387, 65279, 181843, 42097, 5461, 245058, 122818, 83042, 260997, 56096, 121639, 143899,
       90500, 197180, 89797, 78966, 1388, 184874, 18485, 24648, 210697, 123147, 116915, 148049, 45333, 204425, 180737,
       5866, 148690, 133186, 39379, 198585, 125404, 43992, 48160, 208078, 12156, 82719, 154029, 81261, 177893, 74986,
       45451, 20433, 208372, 82461, 244087, 206264, 883, 130849, 97836, 128719, 12518, 9314, 22349, 241211, 15556,
       86419, 217865, 25402, 93819, 73452, 158680, 22493, 13007, 22942, 14642, 92337, 139280, 19998, 156680, 186586,
       32350, 252295, 72976, 22050, 136359, 86731, 88342, 118722, 102994, 55159, 117880, 155953, 70489, 110068, 15052,
       6204, 138302, 174050, 112885, 163601, 223383, 22357, 40533, 49324, 47205, 232361, 110637, 9424, 76476, 186710,
       17929, 196541, 14471, 87267, 173084, 87162, 90778, 200162, 152803, 88731, 57671, 234206, 72369, 176437, 193263,
       124848, 241053, 78935, 66476, 190006, 61174, 58905, 87426, 15166, 32446, 76648, 52324, 12956, 106299, 105059,
       71847, 200010, 201134, 41273, 75117, 109117, 68685, 14424, 161755, 27016, 115297, 179149, 109860, 253884, 71109,
       131032, 81963, 27592, 42258, 19104, 175730, 110405, 147885, 159485, 114424, 10189, 87630, 130557, 100568, 240060,
       44921, 3368, 162104, 99095, 224803, 103482, 29990, 118941, 99976, 81893, 68545, 202017, 92385, 32837, 187581,
       97140, 44934, 161712, 27154, 123333, 181742, 111244, 41412, 126037, 55177, 163495, 99080, 28359, 258324, 44472,
       71110, 166412, 252923, 113161, 247907, 115867, 126758, 38406, 218098, 98069, 25063, 120835, 737, 773, 41165,
       17655, 130567, 152277, 9997, 100650, 84884, 13266, 75424, 135233, 50205, 41354, 167211, 44366, 261032, 217240,
       14900, 240612, 196638, 115636, 92276, 122181, 80665, 84747, 60882, 104394, 10179, 119311, 48699, 189135, 226204,
       53770, 119308, 202223, 41631, 64830, 44412, 57465, 118725, 71507, 80003, 96608, 77526, 64616, 104824, 261818,
       109827, 120018, 192148, 117983, 10776, 58353, 61562, 105389, 100869, 31424, 64823, 9437, 123888, 68368, 10162,
       96342, 258217, 157141, 83902, 193311, 21374, 97702, 227775, 61304, 9959, 22067, 233984, 8863, 240652, 109858,
       20069, 217625, 110140, 19326, 181719, 95730, 55138, 31582, 253719, 20631, 70221, 99682, 112004, 100989, 195794,
       75772, 84130, 8057, 48268, 215817, 130593, 9125, 148197, 245434, 77467, 51189, 97315, 15274, 49770, 217722,
       97415, 95593, 165936, 105219, 28640, 238902, 71300, 14701, 236931, 19608, 195547, 48397, 103135, 175879, 66652,
       40347, 158333, 91896, 29183, 155379, 215439, 61676, 209728, 188217, 120933, 23108, 35555, 38977, 81825, 81653,
       118695, 258285, 27490, 7032, 117042, 230166, 10947, 162283, 247113, 91561, 207273, 191092, 24981, 94718, 57701,
       41500, 27836, 139844, 17874, 178090, 250855, 43548, 116688, 161274, 36760, 118572, 219131, 96513, 64754, 45171,
       92015, 159786, 102878, 125164, 56326, 149845, 94951, 104626, 170747, 91071, 39983, 67221, 90990, 181442, 63127,
       115732, 81355, 138930, 38828, 89404, 155977, 39333, 176406, 52534, 97152, 98688, 55094, 29976, 220131, 234864,
       119540, 74968, 237639, 70094, 238621, 255094, 39337, 255478, 258084, 101724, 254275, 149682, 40936, 128345, 116428,
       126258, 213798, 41120, 128842, 94816, 188103, 87398, 83106, 189824, 14894, 57985, 145761, 34499, 81363, 222850,
       67556, 191908, 45352, 111600, 241219, 122522, 24233, 116110, 184585, 13684, 97040, 113489, 9761, 239252, 178882,
       66449, 66147, 197640, 115959, 137753, 49811, 5552, 29006, 186324, 27829, 106981, 238621, 90866, 152982, 6740,
       108247, 149991, 61813, 105827, 123497, 43468, 102900, 115450, 157444, 17013, 31324, 43221, 52066, 189889, 194505,
       129072, 118606, 48021, 129615, 123675, 35017, 78961, 95189, 68809, 92965, 18627, 57899, 124686, 175570, 21242,
       58972, 247628, 189215, 17939, 108212, 36012, 87680, 122424, 78708, 125842, 138754, 234816, 91384, 51677, 215253,
       105292, 237702, 5904, 55410, 139259, 213714, 12643, 162146, 149196, 22135, 186868, 251524, 128798, 139933, 119186,
       64642, 171651, 32636, 1575, 147533, 136120, 125221, 235987, 70973, 65245, 2260, 44945, 109611, 97386, 192403,
       71887, 132538, 49032, 13330, 84338, 129213, 80683, 245437, 92478, 130731, 65278, 134396, 4553, 39491, 52181,
       110335, 170146, 83212, 30864, 246113, 65210, 51624, 218508, 100432, 48851, 204767, 204918, 117807, 38232, 256749,
       66124, 3602, 139304, 58612, 7372, 138390, 107220, 49038, 22639, 6410, 93299, 12227, 11332, 558, 244648,
       2842, 210199, 201929, 90175, 77383, 93402, 68893, 146360, 10352, 114821, 254825, 108359, 65343, 184721, 256445,
       29074, 87829, 959, 105532, 72479, 144236, 38577, 161538, 234433, 122642, 191660, 94586, 32823, 146755, 183594,
       21983, 126199, 139776, 64660, 252238, 252887, 6621, 30813, 22601, 4772, 146296, 49649, 65013, 162129, 183509,
       28194, 128209, 69590, 1225, 227808, 80987, 38804, 202242, 216330, 62569, 129447, 155550, 51680, 54703, 167405,
       17756, 66550, 32707, 75979, 36446, 215533, 93104, 200753, 259960, 88544, 70533, 70452, 51611, 42610, 150537,
       18035, 714, 179111, 65468, 191463, 109500, 116710, 175894, 51709, 61436, 115672, 189883, 25648, 80360, 182595,
       12196, 178924, 151724, 123722, 92355, 173886, 97387, 191165, 255101, 41021, 54275, 213273, 38712, 112875, 149174,
       117338, 20313, 258299, 23274, 58634, 138203, 70128, 106857, 189452, 93520, 113339, 159979, 51955, 177265, 36839,
       5230, 20930, 13327, 29852, 210562, 107167, 118201, 208716, 171271, 68566, 65331, 247872, 106881, 135019, 210355,
       72834, 213769, 43432, 123679, 213356, 44889, 119162, 5649, 148568, 63293, 26592, 134533, 41716, 213139, 84710,
       78861, 244133, 101449, 88458, 230217, 248822, 65320, 104505, 212387, 107778, 80309, 58653, 24029, 61867, 241372,
       43832, 7199, 106347, 89964, 189245, 24168, 32333, 91122, 84777, 57651, 86605, 227913, 126318, 126726, 160659,
       82034, 213776, 86036, 124394, 217542, 138062, 94691, 220097, 218065, 94983, 137057, 196026, 77575, 236839, 57514,
       18639, 148095, 134987, 68119, 259924, 252574, 33117, 121695, 192910, 130898, 2370, 212926, 34991, 61712, 24019,
       30236, 119242, 140712, 81773, 160670, 69345, 66971, 21717, 174743, 2798, 201600, 214881, 16978, 45308, 41046,
       106305, 5366, 106529, 63398, 123717, 151145, 19138, 132707, 17325, 60980, 71616, 181825, 33180, 198342, 212464,
       29306, 152041, 36432, 125530, 253607, 19467, 47451, 73081, 165405, 6085, 214368, 177942, 127182, 172395, 81188,
       104181, 55769, 184475, 33346, 120826, 231280, 53594, 70925, 75694, 113022, 5012, 142248, 46846, 237189, 35079,
       74370, 205152, 76656, 70104, 199130, 935, 52598, 125587, 102291, 83820, 207952, 41343, 62035, 42865, 181045,
       2782, 189531, 89577, 106742, 215662, 26716, 14831, 145426, 63974, 60829, 51228, 170511, 76008, 198303, 174344,
       92472, 23471, 31851, 53843, 242082, 255544, 96409, 212675, 91043, 17216, 83441, 142792, 85648, 108764, 83436,
       108309, 234859, 36294, 116581, 52535, 181152, 75964, 246351, 218671, 41011, 209558, 121063, 21411, 121819, 49632,
       45293, 20147, 168132, 70775, 136587, 2976, 25733, 103578, 21196, 124848, 8839, 61569, 117589, 87800, 193106,
       4319, 200656, 241018, 73657, 119752, 1826, 103456, 73860, 114352, 32164, 3924, 247259, 68668, 33284, 260992,
       53214, 44043, 30955, 25761, 186631, 194224, 80574, 225019, 537, 130245, 57885, 80603, 47878, 244260, 100250,
       72401, 110459, 247043, 42972, 149115, 62573, 114943, 107243, 134554, 113325, 53778, 216106, 23432, 48629, 13952,
       117958, 25911, 103783, 19858, 144120, 94208, 12509, 132746, 151773, 85581, 116902, 239930, 50581, 58448, 216679,
       69565, 60572, 164346, 85533, 198581, 254915, 6925, 126466, 171642, 38397, 251144, 199878, 60411, 239100, 141063,
       34942, 38005, 35289, 6418, 203759, 149235, 11360, 228538, 223815, 105086, 182623, 125799, 119457, 74790, 161363,
       19953, 137210, 106651, 32671, 69013, 165423, 85491, 166193, 63778, 125078, 81326, 131901, 39267, 215575, 147958,
       112094, 146910, 57027, 66325, 173591, 19702, 125378, 14140, 122095, 17859, 182295, 106505, 127621, 49434, 149298,
       57799, 249222, 26618, 124903, 141743, 227905, 60121, 116425, 223172, 69478, 242609, 244882, 105483, 123229, 13996,
       94716, 95118, 174502, 81212, 169453, 126354, 54654, 106339, 57570, 103866, 126272, 161354, 124286, 48260, 247924,
       1285, 244812, 30884, 77050, 8515, 6596, 113505, 223431, 97948, 85604, 200932, 14150, 104966, 76672, 155469,
       117317, 117703, 163687, 98428, 170799, 234590, 93980, 237196, 51540, 126451, 45474, 227327, 113204, 229501, 159914,
       106873, 54557, 241522, 11325, 16059, 243704, 31330, 32726, 210767, 72975, 32930, 161984, 93003, 121131, 80010,
       39742, 257555, 22393, 12232, 184141, 55207, 40776, 102921, 123068, 101060, 88278, 220218, 115002, 185523, 257811,
       119656, 28048, 79769, 49658, 213219, 195538, 48829, 98588, 48217, 53307, 252086, 236374, 49258, 25893, 140992,
       87319, 189199, 156476, 46966, 38434, 6174, 2666, 136435, 115517, 57543, 218224, 196856, 29380, 15628, 142317,
       3775, 212117, 107602, 61714, 85811, 33240, 26994, 229633, 196639, 59341, 203202, 38473, 36405, 64551, 169069,
       79129, 86257, 72492, 129876, 73623, 198381, 71726, 205078, 71022, 84789, 246839, 200029, 120491, 81820, 98625,
       49020, 257622, 145977, 21829, 219784, 59931, 37066, 211148, 176969, 52795, 36298, 237498, 84543, 198578, 179469,
       601, 94946, 217553, 111854, 169011, 9525, 9973, 206893, 97994, 118050, 176076, 166061, 124444, 73810, 38711,
       129774, 197507, 31115, 106104, 31166, 118423, 18593, 75365, 94026, 92558, 190497, 84292, 26649, 190893, 246688,
       117588, 89041, 50542, 41498, 45059, 72379, 42833, 210320, 3497, 120278, 171128, 43962, 1734, 58434, 119689,
       25423, 139305, 58540, 55303, 132656, 36058, 91844, 256185, 155486, 84877, 207753, 69718, 87741, 40187, 46011,
       115346, 64830, 70014, 15863, 183028, 253616, 68440, 203907, 227553, 95089, 212773, 100336, 83377, 82981, 244799,
       58761, 112283, 207986, 2243, 63700, 221308, 7923, 157119, 108567, 15589, 230055, 220358, 44987, 143660, 15640,
       15421, 19227, 192686, 55847, 120832, 16644, 23414, 252442, 15526, 102126, 228548, 49768, 114227, 163813, 48128,
       51071, 230205, 138862, 67021, 72651, 129217, 124976, 172850, 237314, 70190, 19007, 213267, 130426, 62009, 100787,
       18629, 103181, 63663, 113013, 194353, 178175, 65169, 102751, 164389, 2977, 48231, 209779, 127431, 53839, 58563,
       126490, 198787, 201765, 50236, 19808, 201207, 125061, 81144, 108357, 18482, 109006, 178707, 89143, 103918, 86560,
       25156, 135310, 183841, 32328, 143277, 171689, 102149, 82986, 175414, 49461, 20672, 186949, 934, 56636, 107113,
       54295, 15397, 87354, 29893, 131594, 187693, 89565, 109688, 233555, 25486, 204361, 109589, 110395, 223996, 157851,
       35008, 108863, 251024, 51514, 262109, 218911, 39064, 75345, 2182, 84400, 84159, 203548, 13259, 185512, 241008,
       62665, 115599, 214064, 43837, 173418, 185384, 115885, 191659, 210471, 9622, 70760, 69011, 108749, 207500, 82224,
       21978, 56470, 259324, 11610, 13380, 116113, 26518, 225878, 254945, 13454, 244228, 162743, 68286, 106970, 40029,
       129527, 81345, 139378, 4499, 92974, 257896, 60441, 3932, 179412, 50603, 2667, 208086, 44512, 233813, 157534,
       43498, 7116, 91791, 117311, 29369, 185519, 2487, 63428, 102926, 101569, 220391, 119876, 33152, 119960, 94036,
       50239, 81053, 84092, 55069, 233144, 213682, 39941, 209838, 103689, 12262, 248286, 176195, 14985, 150213, 44758,
       39076, 168478, 219520, 107716, 40941, 172964, 17645, 240046, 228961, 97339, 75552, 144010, 37862, 192197, 163912,
       115797, 135259, 197553, 56141, 228046, 86598, 22508, 30964, 153071, 129216, 158273, 89643, 23151, 220123, 130345,
       74399, 17094, 8312, 74617, 135595, 215832, 48865, 106082, 141468, 124713, 134428, 32688, 110608, 85627, 230054,
       108766, 28699, 13279, 127684, 11136, 9880, 59914, 61649, 260853, 12738, 87551, 103641, 100329, 219954, 180939,
       49913, 227125, 55485, 24948, 241103, 153651, 63340, 51320, 20711, 121335, 218346, 116910, 22460, 28100, 226239,
       111240, 170684, 137758, 54814, 251162, 26253, 17930, 238345, 48272, 111199, 43345, 23928, 127090, 20279, 164726,
       38177, 114102, 92032, 39785, 25715, 101668, 51189, 168581, 242606, 106709, 182224, 83314, 1365, 105594, 130337,
       29354, 113547, 131370, 92523, 183511, 166196, 53167, 255342, 110616, 43292, 133141, 73514, 114331, 226181, 145891,
       120236, 207508, 82992, 124254, 117891, 5238, 35723, 194882, 15905, 119604, 223545, 69378, 96595, 143966, 172394,
       20213, 61738, 145373, 79989, 82090, 131612, 3451, 198557, 93526, 92848, 141985, 234167, 96150, 42553, 143696,
       103460, 46399, 29210, 22613, 53449, 149921, 82345, 255920, 175273, 23443, 27104, 12069, 124079, 83815, 77978,
       88475, 396, 30389, 12494, 144061, 33316, 24514, 180473, 100577, 86961, 11005, 90634, 62478, 40703, 206806,
       96508, 2019, 255532, 36803, 144035, 196767, 86234, 148737, 205668, 23194, 137139, 21811, 71265, 50237, 21358,
       125540, 185614, 166406, 82342, 90290, 125623, 6552, 200129, 141242, 129599, 8104, 213615, 20560, 205405, 126737,
       94118, 197506, 214186, 69799, 203759, 90857, 38582, 116410, 204579, 23240, 115329, 52209, 23291, 210839, 241954,
       112512, 42733, 127664, 114414, 101988, 211897, 60967, 145178, 18872, 13581, 228691, 107876, 115889, 75626, 76350,
       63834, 58949, 230359, 57509, 122759, 109297, 53393, 26190, 11433, 47843, 36122, 108520, 68944, 152112, 38152,
       79238, 112107, 12571, 61136, 52897, 46263, 117525, 122704, 121380, 41636, 129117, 244052, 75800, 128894, 80240,
       39315, 146860, 84223, 98743, 24725, 9975, 13385, 56814, 202039, 24733, 40608, 50252, 105015, 18665, 42663,
       24012, 19713, 102267, 82017, 216291, 257746, 127171, 196536, 181770, 68536, 83500, 21371, 24562, 111939, 88534,
       42033, 161674, 251490, 107932, 77855, 257993, 46092, 235721, 14228, 94832, 21194, 141691, 101888, 216909, 11256,
       65691, 10001, 228891, 102657, 90365, 37997, 41537, 28992, 48914, 67654, 20241, 77336, 89988, 148052, 123477,
       22029, 179192, 16996, 35864, 46794, 259383, 85463, 194426, 253039, 85899, 94798, 43145, 64658, 43116, 96039,
       104278, 252676, 116810, 63183, 235959, 236674, 115516, 176153, 133413, 96456, 87684, 229014, 41247, 179600, 224482,
       51806, 192256, 113398, 87515, 7674, 222541, 117237, 181837, 91119, 23423, 186387, 201695, 67457, 256730, 189653,
       15569, 81702, 235894, 36628, 195590, 101846, 89912, 248702, 167985, 10188, 218657, 67829, 86816, 174075, 131151,
       118071, 30210, 174381, 127057, 79373, 27923, 28394, 109013, 84068, 98159, 144957, 98679, 121421, 59625, 96670,
       11975, 251215, 170678, 54266, 236561, 226586, 120508, 229890, 186515, 26579, 200008, 88400, 122389, 230777, 72096,
       69100, 31232, 68190, 13093, 48788, 200132, 58966, 83797, 109408, 42763, 185443, 230504, 36989, 16706, 241487,
       70972, 75143, 114182, 63385, 120890, 238915, 63172, 104738, 134861, 11552, 239332, 1481, 105161, 117603, 257445,
       63103, 56083, 181972, 107597, 201530, 252346, 108081, 70479, 90543, 41567, 147141, 7721, 569, 177925, 182820,
       119438, 207994, 113211, 99705, 203112, 96803, 14057, 190967, 238682, 91976, 200750, 26005, 2624, 128416, 192652,
       3638, 114483, 199859, 68920, 184460, 103821, 12587, 214414, 25214, 126397, 135443, 75697, 117156, 64628, 223223,
       85172, 42614, 14670, 8350, 121169, 183235, 42576, 211526, 249715, 48722, 124985, 110174, 63029, 231169, 136554,
       22138, 114688, 121888, 75695, 158870, 258349, 57117, 86602, 161155, 124164, 28202, 256768, 122708, 257199, 76601,
       74117, 210311, 104744, 84456, 40938, 60114, 18061, 67796, 194074, 29271, 111034, 11186, 118058, 149280, 106163,
       91641, 19882, 135978, 24828, 260785, 169127, 74738, 158659, 108302, 122521, 6979, 94890, 45242, 70051, 240166,
       24355, 222366, 73212, 123473, 35938, 167607, 60458, 255145, 224863, 54688, 194838, 50872, 35070, 148900, 193274,
       116861, 227483, 36697, 110836, 178485, 241132, 52820, 198609, 121290, 4012, 142559, 222818, 58543, 130101, 231706,
       23705, 110611, 116926, 18708, 115354, 135087, 51523, 148346, 225152, 12986, 55661, 121666, 125496, 206530, 214468,
       6231, 14584, 61246, 52608, 83834, 73901, 21325, 201473, 150916, 90283, 230040, 168922, 10329, 255399, 108858,
       71670, 235987, 254983, 101331, 251443, 12631, 124526, 63622, 59735, 91557, 106098, 122071, 13040, 153002, 25364,
       11602, 148240, 96842, 95892, 5090, 80559, 28223, 171906, 224472, 58620, 144352, 137267, 128007, 178519, 26399,
       107466, 215975, 79085, 110964, 179444, 241601, 112822, 218353, 132401, 81205, 12273, 180959, 97508, 237834, 260673,
       47049, 190055, 45113, 130868, 90127, 146801, 36650, 166991, 59274, 77333, 118060, 181401, 36970, 101790, 197966,
       14689, 98759, 228331, 74394, 159363, 109267, 46314, 30667, 168062, 76443, 187651, 73453, 73227, 27602, 10996,
       71074, 176685, 173072, 16161, 85109, 262036, 57695, 98161, 79145, 106430, 256991, 138363, 41306, 127991, 76195,
       58173, 231489, 81518, 64727, 129553, 67573, 113079, 240806, 139873, 85930, 202624, 190628, 13133, 195728, 215093,
       113399, 181259, 221557, 109060, 144582, 125649, 98781, 232251, 126477, 61087, 41045, 194986, 99292, 259130, 120206,
       62749, 178162, 42416, 96550, 188715, 50537, 115357, 209595, 124168, 116725, 17470, 238893, 59582, 137068, 204320,
       112635, 200190, 260005, 13298, 58137, 195991, 13345, 176865, 164616, 71862, 116722, 49485, 85438, 151474, 195608,
       20053, 52482, 144263, 61889, 152786, 32620, 12368, 79585, 225866, 78918, 100603, 31232, 112078, 232150, 226710,
       96683, 213874, 18419, 49583, 112816, 77153, 130258, 141692, 50567, 86892, 55898, 97700, 106856, 63648, 95730,
       87778, 150981, 20212, 129684, 202402, 207251, 107657, 70099, 158351, 68081, 220205, 39844, 48087, 167263, 174536,
       89411, 104272, 5758, 77361, 144945, 182595, 82490, 63089, 118653, 44959, 62450, 171823, 56194, 76425, 191397,
       73150, 218697, 83793, 110006, 145242, 167645, 99995, 261532, 248350, 15552, 121178, 79473, 32185, 75145, 214109,
       3494, 21318, 48479, 1043, 106840, 146382, 29409, 89524, 174674, 104768, 156053, 173617, 118587, 22295, 244485,
       51349, 226297, 35317, 73819, 148492, 165216, 92543, 190485, 60956, 124903, 83635, 145444, 119659, 223925, 66229,
       7496, 81156, 222166, 32527, 155556, 142868, 6441, 124168, 134889, 80811, 117493, 250902, 93125, 204466, 55706,
       40407, 84783, 200276, 111916, 20264, 124472, 59351, 19089, 218509, 130859, 225954, 47394, 52, 101844, 208885,
       14351, 9191, 65592, 39556, 168804, 128073, 3343, 87000, 22470, 102542, 209034, 222636, 6916, 236920, 122952,
       98170, 67762, 245494, 6890, 66330, 109552, 33125, 122691, 246138, 110267, 218833, 23919, 124661, 252289, 11582,
       54332, 208872, 120355, 127131, 220182, 185638, 82166, 140624, 61257, 54504, 89435, 5445, 105224, 203884, 56728,
       38709, 78588, 164084, 34838, 117327, 138845, 86055, 4484, 205182, 51181, 251529, 61409, 17815, 12485, 85006,
       8777, 35716, 150591, 103264, 26779, 18028, 88592, 254656, 223341, 53975, 56857, 233253, 117470, 91382, 170095,
       53851, 213976, 171407, 93099, 222307, 137832, 119159, 146106, 124492, 110194, 67267, 40691, 66991, 137689, 173825,
       89212, 97840, 54816, 54220, 180, 38772, 84829, 112136, 140293, 33757, 239389, 154207, 56982, 135878, 176460,
       27465, 151760, 33756, 5004, 256407, 173993, 77141, 24980, 238972, 113302, 126655, 229356, 3352, 156135, 251059,
       25694, 2667, 211152, 60317, 98589, 103338, 87280, 112086, 205479, 22443, 92503, 120822, 7431, 27426, 65315,
       68032, 197533, 89600, 107309, 241043, 259387, 4618, 81273, 106700, 45792, 144860, 28336, 86968, 53573, 180830,
       17136, 161539, 101771, 30926, 4178, 211810, 70188, 24066, 127067, 124941, 258187, 41772, 37662, 149856, 217989,
       63901, 50896, 96820, 52419, 193484, 47670, 117623, 151151, 70111, 9422, 196151, 110160, 74206, 25452, 37236,
       110902, 157604, 46488, 129514, 143408, 181595, 91583, 91333, 235912, 49798, 236628, 163424, 53978, 168174, 167067,
       46095, 181379, 10185, 79116, 203480, 226595, 96915, 103069, 175243, 107409, 66189, 256395, 54603, 181422, 163922,
       93940, 109263, 194439, 120091, 33444, 260550, 120694, 91084, 24540, 92278, 128304, 198988, 83480, 11591, 11595,
       69668, 48698, 212085, 24012, 22220, 95844, 16204, 101142, 12821, 63663, 29643, 194243, 20898, 174179, 155930,
       75628, 140052, 92755, 84633, 143724, 171212, 68893, 127820, 243424, 4774, 136855, 141494, 7566, 136056, 253445,
       14855, 224331, 255593, 20138, 173788, 194007, 129745, 234344, 38347, 45153, 170616, 130190, 38269, 139992, 193174,
       6850, 181526, 209319, 83272, 187235, 213029, 85483, 249191, 34422, 22996, 107646, 244152, 120486, 216859, 43744,
       104922, 76058, 73660, 30188, 108394, 157937, 63681, 77576, 119387, 60082, 54081, 72350, 45681, 71219, 131399,
       107169, 4477, 74156, 14321, 134914, 224617, 54436, 17836, 258936, 56102, 234971, 7956, 61436, 210356, 242700,
       112898, 227025, 112200, 28595, 148900, 180617, 13490, 90753, 232249, 80977, 102456, 18226, 22784, 218183, 153182,
       9821, 130641, 87359, 55921, 200969, 192026, 28789, 130281, 196798, 47345, 100838, 125171, 34040, 223003, 154961,
       12142, 12174, 134624, 73445, 217207, 187740, 3541, 93870, 250080, 126664, 196506, 97654, 44738, 229151, 216630,
       91115, 179624, 256868, 106215, 231323, 228408, 36582, 215943, 260374, 98138, 178279, 4195, 109107, 17396, 120527,
       31629, 244441, 119675, 130088, 68757, 204932, 2711, 185345, 165864, 28442, 180078, 163459, 102238, 230835, 75227,
       25445, 37150, 7162, 91522, 83048, 20106, 112136, 21297, 21405, 125726, 34902, 148007, 62160, 149510, 216875,
       127285, 56352, 116258, 53952, 41332, 109511, 28590, 125413, 245529, 67360, 200573, 154375, 85173, 165747, 258954,
       60026, 43977, 161943, 74314, 55620, 147980, 54579, 153368, 88499, 68781, 156981, 170548, 124858, 162506, 150212,
       65513, 227757, 85005, 33184, 199447, 113375, 99450, 114602, 203384, 44247, 228078, 125089, 106981, 237579, 133292,
       7450, 103069, 210510, 43539, 60769, 17335, 12367, 246912, 69220, 11182, 203911, 56040, 86296, 114373, 101659,
       50506, 158094, 156029, 114226, 127895, 217558, 67686, 66645, 59095, 38711, 59424, 63437, 94488, 91310, 204335,
       81791, 33792, 32355, 104804, 122196, 39739, 84356, 105527, 214762, 21890, 205155, 121781, 87858, 229967, 179467,
       51321, 35764, 73288, 60705, 21826, 160628, 120791, 81807, 144726, 47181, 54388, 177531, 80210, 185805, 18539,
       47642, 72813, 155104, 12416, 31709, 39918, 59444, 124160, 9782, 78258, 11930, 219704, 53412, 71170, 133848,
       51205, 104374, 201113, 107528, 171068, 36735, 3890, 234593, 72142, 38742, 254049, 102761, 106398, 169944, 179342,
       120655, 190746, 35585, 54040, 244138, 190216, 116496, 10235, 52887, 26074, 44293, 191473, 29022, 232951, 70494,
       110911, 261124, 186544, 118391, 209367, 87624, 29203, 156662, 20597, 7775, 194046, 56363, 11838, 253045, 140263,
       34259, 185821, 246709, 99804, 171295, 83603, 66845, 170092, 235507, 59714, 246606, 220618, 76564, 101989, 43338,
       116683, 84915, 185361, 11852, 233494, 103528, 91058, 230911, 138929, 121476, 86434, 151307, 27964, 56799, 162660,
       109808, 129236, 105398, 91491, 129732, 25001, 1896, 110090, 10806, 30357, 211332, 56510, 79409, 74580, 1568,
       65850, 161820, 239183, 69197, 173143, 211155, 30399, 153253, 18239, 88474, 14395, 10581, 34919, 259185, 214022,
       51044, 5223, 144317, 48354, 143373, 112857, 88083, 173984, 206865, 11829, 159902, 111360, 26940, 206583, 105411,
       26279, 144716, 75847, 14211, 115051, 65919, 27209, 233063, 86830, 79568, 158187, 119128, 95966, 195688, 161015,
       86547, 76913, 91126, 62283, 225344, 157339, 6872, 184576, 78392, 125698, 253468, 72187, 22030, 30900, 51281,
       87611, 85422, 188447, 119654, 104530, 148852, 91459, 10361, 23486, 28580, 53068, 33782, 41392, 13755, 30040,
       3959, 37591, 178214, 80315, 117478, 44814, 80346, 56620, 133970, 95092, 212913, 242296, 1441, 80118, 138725,
       107196, 24486, 145908, 96824, 84569, 222660, 18466, 75938, 210310, 45564, 30128, 62146, 83692, 192613, 168849,
       64985, 23066, 162970, 15085, 166555, 79934, 11448, 139725, 91237, 102427, 10495, 99504, 20442, 241721, 26981,
       22556, 139187, 78532, 108910, 198151, 46939, 80234, 95992, 72160, 79261, 74499, 56754, 62828, 212059, 223218,
       74579, 82451, 146567, 78875, 41118, 253702, 126854, 241238, 239061, 29225, 146107, 166106, 28123, 32892, 134423,
       7499, 194411, 96278, 86271, 113497, 57720, 71964, 14870, 12862, 14580, 90420, 114075, 47780, 222115, 159971,
       23417, 194943, 44152, 43447, 255505, 247175, 124684, 25483, 65965, 89563, 253453, 225580, 992, 25475, 550,
       33096, 193527, 7898, 1358, 28494, 178311, 93699, 63929, 56833, 61528, 14270, 225790, 130288, 4711, 168831,
       96152, 59031, 231418, 67883, 232056, 221196, 105474, 91720, 141802, 92380, 6337, 56092, 31952, 60595, 242119,
       69502, 3302, 141691, 72875, 226718, 62993, 59143, 220515, 134311, 23487, 35510, 206028, 29277, 112286, 124066,
       36837, 116637, 223670, 1344, 42713, 146398, 120185, 175593, 20957, 89927, 255278, 37189, 90389, 136528, 104033,
       75016, 135846, 125372, 90349, 90766, 170035, 128694, 180390, 260964, 50483, 192878, 223277, 93392, 40297, 153193,
       47124, 48670, 31299, 111973, 89503, 171428, 112463, 137773, 295, 118261, 226731, 204873, 716, 23287, 149551,
       39084, 143937, 168213, 17553, 192036, 102495, 59504, 230406, 49509, 64939, 150880, 256838, 33541, 224054, 246528,
       94823, 151677, 240127, 35359, 67206, 58285, 111921, 65625, 112172, 23286, 44223, 255850, 48134, 69351, 165283,
       81557, 248374, 39298, 79342, 125398, 24177, 10227, 113185, 153118, 110920, 212026, 143591, 78389, 148623, 189376,
       114014, 60494, 127103, 113722, 191498, 177723, 71554, 171595, 127734, 119377, 248295, 169546, 111202, 132908, 157582,
       125583, 23747, 136373, 111476, 137912, 237028, 107636, 217883, 50738, 61520, 4436, 88447, 27791, 87856, 124573,
       119368, 108805, 242862, 94705, 253484, 78227, 36929, 67123, 158322, 44694, 259882, 128697, 89925, 178967, 84118,
       62628, 123270, 192443, 10680, 21586, 156131, 18539, 226792, 134174, 97733, 174127, 242915, 43066, 69530, 87250,
       66538, 164070, 146490, 100482, 160012, 21115, 98458, 22916, 43786, 21890, 260467, 97312, 12896, 178413, 201149,
       77483, 134569, 242163, 97207, 79705, 101009, 19534, 251830, 39172, 48752, 242069, 41793, 114069, 20312, 229505,
       123761, 56521, 6202, 59515, 218027, 13489, 10422, 81921, 101337, 33776, 207069, 124376, 30535, 218469, 171841,
       31321, 118693, 61495, 64734, 16485, 150127, 76444, 144865, 164805, 16057, 151206, 160923, 116569, 175764, 84638,
       81261, 54778, 248453, 78282, 256583, 221242, 129404, 165904, 184837, 82332, 22916, 25865, 121760, 139884, 143803,
       37520, 71796, 78185, 31474, 66206, 195779, 67701, 35997, 123506, 66664, 102756, 110011, 29685, 174300, 235016,
       91705, 69798, 202736, 3884, 42979, 214273, 90522, 83177, 201169, 59923, 57642, 218075, 90309, 155310, 58678,
       62531, 239185, 74196, 128101, 24534, 32987, 43867, 216507, 159908, 128787, 209714, 230531, 8516, 69360, 82595,
       89621, 233902, 254443, 59535, 110066, 222841, 107759, 58419, 180685, 103496, 146142, 168952, 104885, 39083, 6984,
       12417, 151437, 101021, 107789, 30674, 13448, 28054, 176034, 3448, 3365, 252587, 109482, 28539, 117824, 246328,
       62820, 224721, 43448, 97270, 5286, 125171, 28656, 156376, 42894, 14812, 32857, 259759, 84668, 57684, 240593,
       128961, 126726, 31236, 78757, 71364, 200006, 90578, 70996, 146927, 73553, 88915, 200894, 102543, 255664, 79491,
       127900, 166976, 192533, 71320, 27880, 185924, 54629, 148361, 195269, 112766, 232184, 48803, 127104, 61203, 164423,
       16932, 25174, 59583, 75782, 6497, 172073, 103869, 82874, 258920, 69905, 226102, 135879, 53634, 69472, 23209,
       85882, 74217, 32634, 35406, 60189, 85203, 45761, 172478, 210486, 130059, 179891, 219201, 83422, 205601, 107295,
       114416, 85680, 66483, 105875, 218769, 226662, 85494, 175177, 158785, 110196, 11087, 170956, 37638, 114901, 64493,
       83508, 33339, 36657, 77411, 152195, 71254, 81581, 204974, 98129, 22102, 242209, 66803, 36338, 209646, 178937,
       37572, 230466, 189368, 78898, 75345, 162985, 127473, 174250, 137790, 125051, 142100, 4472, 29778, 49568, 175334,
       39956, 177130, 132034, 4726, 184639, 201112, 52273, 146012, 169968, 109402, 106555, 125171, 120029, 107985, 158544,
       30998, 17450, 237922, 34838, 55896, 193155, 28947, 59545, 225859, 45888, 203111, 148356, 105481, 111120, 199267,
       84784, 236530, 161609, 103014, 222294, 131730, 76419, 13938, 22730, 33781, 154666, 233729, 29883, 171229, 138847,
       1179, 194122, 158798, 102364, 233477, 19581, 111033, 228944, 261897, 100700, 88315, 240983, 9752, 6949, 155130,
       99905, 239367, 258955, 5998, 218004, 3395, 13840, 77151, 38439, 57733, 259019, 134657, 62409, 141755, 95228,
       106970, 79151, 122492, 89066, 248720, 143096, 20095, 257544, 79591, 29641, 134000, 132756, 37444, 4790, 209092,
       16210, 5226, 60149, 37702, 49950, 51448, 95498, 214287, 197289, 31640, 255194, 140723, 109492, 68068, 47107,
       61540, 139351, 218018, 42327, 219178, 7370, 54056, 122106, 137822, 92995, 41099, 194283, 67737, 13946, 6210,
       954, 7613, 223237, 120890, 217899, 60437, 8650, 59796, 125139, 123026, 256227, 231096, 3690, 12293, 237379,
       101053, 210604, 71451, 70080, 231565, 43131, 66286, 142067, 106168, 9539, 58690, 59459, 31292, 206043, 229706,
       101914, 178767, 26303, 116819, 54638, 11816, 69352, 168758, 157710, 46313, 111581, 20788, 7856, 229682, 6520,
       89414, 132059, 237850, 36496, 145268, 166992, 7210, 198613, 204966, 87274, 135747, 185878, 63664, 69409, 256617,
       1567, 236686, 18372, 14539, 9346, 109022, 91645, 208475, 76412, 8345, 138665, 178856, 113503, 133912, 93471,
       40806, 41375, 60889, 11621, 181302, 54934, 99582, 240929, 3241, 68737, 190440, 225363, 40191, 241781, 185523,
       53228, 31939, 113959, 2806, 148246, 213367, 86861, 58382, 186386, 47942, 180606, 178825, 93590, 87120, 204759,
       82335, 169985, 67178, 85361, 49454, 242071, 103926, 8760, 1712, 82727, 39753, 224821, 54883, 64224, 170159,
       51108, 153451, 176750, 15673, 226989, 245023, 102163, 54276, 185964, 99760, 1488, 95675, 32282, 214845, 137418,
       113073, 116303, 29902, 77201, 218891, 153523, 62742, 115816, 231049, 2293, 72154, 68066, 50166, 171104, 250601,
       83973, 261864, 158059, 11763, 112350, 17455, 60236, 106511, 225968, 130211, 166990, 39221, 93918, 39913, 17519,
       71679, 120839, 165436, 69865, 179908, 12300, 5736, 98792, 11943, 125477, 30917, 64434, 121658, 26814, 109173,
       89444, 39383, 235688, 12977, 171690, 115901, 27241, 53612, 81952, 24105, 102416, 17149, 68102, 50121, 188656,
       27237, 70631, 195279, 91199, 254594, 253266, 71464, 97416, 84589, 2314, 129127, 63299, 97525, 18395, 94882,
       24750, 41987, 207000, 108119, 89759, 231847, 46536, 135144, 78054, 44383, 146458, 111389, 1548, 241653, 143162,
       129463, 160759, 190214, 80216, 165870, 6809, 55408, 23158, 107951, 12664, 94562, 10569, 91638, 192692, 189430,
       37058, 12625, 153274, 129535, 247313, 130050, 124590, 37606, 200297, 96376, 211362, 137140, 127280, 89141, 8271,
       13845, 168196, 186801, 36689, 17337, 57694, 33193, 27354, 83042, 9438, 221031, 221715, 127431, 179476, 186107,
       7860, 242086, 12330, 112287, 243276, 3627, 100684, 119076, 222917, 49265, 170626, 173413, 2465, 31099, 92273,
       799, 644, 76867, 26737, 230866, 242922, 64733, 102524, 11467, 60019, 46310, 141135, 76715, 122839, 131994,
       101182, 65702, 179747, 49460, 163598, 145247, 21019, 49885, 111611, 104864, 3047, 216646, 43606, 113504, 3163,
       37602, 48262, 182150, 100179, 237895, 246753, 122439, 137475, 201164, 119925, 211066, 193848, 18014, 223777, 30381,
       65949, 247854, 244089, 12172, 181883, 16244, 125957, 10717, 252134, 28210, 91608, 59235, 25877, 128247, 15077,
       116508, 6011, 148435, 126858, 28301, 82386, 91440, 14546, 121046, 15860, 97459, 30511, 63682, 17454, 210359,
       107034, 16485, 244511, 75035, 191213, 226696, 17379, 123941, 107098, 22529, 175925, 156036, 113264, 203878, 149152,
       69078, 200944, 159325, 92515, 114717, 36030, 48898, 13484, 71629, 69793, 249121, 215840, 128070, 226182, 71372,
       43214, 219273, 94439, 88445, 231178, 239149, 22610, 169972, 66625, 15956, 180942, 129864, 102713, 72525, 139113,
       110638, 249377, 115295, 87596, 249176, 125944, 20735, 11748, 245051, 31534, 90657, 253493, 119429, 163161, 111457,
       37841, 4478, 142064, 107329, 179720, 109677, 37478, 97604, 161645, 123137, 62360, 126425, 119859, 45138, 245087,
       5670, 154846, 224005, 100979, 184047, 212847, 22211, 181361, 9168, 28216, 21640, 51705, 60272, 218017, 127642,
       75539, 45226, 31706, 42703, 57872, 50864, 75416, 169997, 194493, 22368, 139997, 154781, 2927, 220472, 75299,
       74871, 137109, 139200, 67818, 171167, 240119, 90394, 85034, 26962, 85173, 125122, 253948, 117635, 87773, 178802,
       60223, 123465, 14860, 1097, 992, 190601, 82660, 238100, 195432, 88490, 251084, 240848, 68353, 102563, 227660,
       90348, 148885, 72446, 42412, 203834, 239595, 19504, 157788, 165544, 87104, 99049, 9941, 32137, 19831, 60219,
       59810, 62616, 42284, 64437, 255471, 151517, 62547, 130935, 110373, 78439, 242787, 104051, 3860, 145892, 172946,
       129719, 174057, 49103, 93888, 64602, 206410, 55756, 112023, 144011, 25078, 2550, 187252, 10509, 526, 52559,
       88105, 89866, 49655, 41544, 1668, 64123, 30078, 52554, 146139, 49801, 99988, 249972, 77715, 161209, 109998,
       88041, 195601, 179052, 84563, 191713, 232278, 113149, 248134, 231492, 28672, 255329, 163828, 83459, 155478, 73769,
       13253, 69078, 261547, 71818, 234795, 180083, 76540, 156167, 89219, 28342, 171768, 204790, 51340, 507, 10987,
       108421, 216641, 254113, 19452, 71170, 103356, 56951, 156325, 93002, 122255, 49574, 1730, 66074, 148208, 191710,
       95044, 190284, 107072, 108378, 258352, 134498, 26709, 30109, 208111, 28602, 44432, 78588, 99430, 26039, 194148,
       98737, 110306, 155350, 7888, 91279, 77271, 42270, 128294, 109908, 52236, 118169, 31721, 108663, 257887, 201851,
       55294, 86387, 235973, 121363, 92149, 164627, 130627, 98190, 17418, 102331, 89126, 81178, 87344, 166769, 117598,
       51366, 195386, 125359, 8786, 260642, 179180, 75122, 116150, 87014, 47409, 101024, 239516, 45992, 239231, 113757,
       90139, 111980, 91489, 60770, 36178, 127857, 98578, 116502, 138996, 52189, 94540, 160702, 19773, 253142, 164894,
       60469, 194760, 162765, 124651, 29432, 239425, 105057, 114343, 249870, 26967, 253325, 191831, 51288, 141387, 206408,
       121607, 148243, 177267, 16213, 126622, 55756, 33285, 200828, 254154, 34370, 12226, 84692, 74833, 82281, 114197,
       53835, 167164, 78944, 10468, 212069, 206749, 82468, 18773, 69819, 12986, 87518, 254938, 79484, 4709, 65442,
       66454, 157918, 248961, 64706, 36359, 707, 8846, 227505, 79662, 83783, 236562, 103372, 56534, 2341, 248384,
       53884, 131507, 57463, 78178, 20298, 44348, 79462, 38197, 228314, 1970, 116429, 49988, 16413, 159730, 62704,
       31000, 240187, 128305, 88863, 221521, 52996, 75594, 160694, 210440, 99303, 253136, 187426, 97072, 248063, 205926,
       111828, 100933, 257662, 49389, 230030, 129593, 45228, 55330, 80962, 108922, 223060, 182207, 31142, 238091, 134205,
       60446, 205877, 255503, 25470, 170881, 177081, 119778, 244777, 241784, 53451, 145891, 178815, 27851, 21685, 219966,
       90703, 151815, 26323, 32066, 17632, 114189, 123666, 237050, 50901, 48184, 77952, 124927, 87115, 206416, 141645,
       45251, 247363, 117151, 105807, 76822, 99454, 117561, 119933, 223346, 103274, 9228, 219111, 111214, 121472, 257509,
       13353, 189760, 171022, 121119, 1401, 253383, 81828, 90475, 27875, 113930, 21070, 28638, 89710, 129906, 223186,
       26456, 151417, 92451, 79895, 158933, 111435, 11920, 132522, 115483, 91189, 212078, 232807, 53608, 156647, 194494,
       19887, 254401, 123112, 128349, 160019, 100538, 118106, 245799, 94091, 117118, 147220, 237758, 103392, 66897, 164893,
       90699, 91759, 137765, 85862, 151425, 22795, 13905, 244185, 252057, 118039, 4612, 156449, 115491, 68461, 168252,
       98022, 141417, 56513, 121545, 6898, 145185, 72493, 197693, 184929, 58673, 98591, 88050, 126870, 210212, 109737,
       60834, 158085, 41035, 84059, 177508, 18710, 48898, 449, 15822, 83404, 144466, 192593, 94384, 213792, 198759,
       81874, 222563, 10538, 67444, 208098, 14973, 39336, 32103, 213594, 84390, 36821, 107137, 119069, 155231, 29282,
       906, 12360, 9101, 17554, 90566, 95645, 15698, 237877, 147859, 121006, 95803, 91399, 86867, 174348, 197154,
       124752, 202032, 23200, 76390, 131424, 256046, 60520, 66662, 76181, 103853, 254315, 178465, 21095, 6522, 210080,
       49982, 196498, 107247, 61115, 130352, 129454, 39119, 141213, 44488, 48665, 38742, 41412, 10237, 105659, 237698,
       25950, 27534, 168909, 43974, 59277, 234033, 104318, 249263, 127053, 23920, 76885, 66286, 45434, 222061, 231639,
       8509, 60821, 58157, 73020, 204651, 240710, 80117, 229745, 191342, 113444, 255301, 198361, 107363, 45129, 149570,
       37405, 15538, 244605, 17950, 208129, 25158, 20458, 35352, 103375, 127004, 10994, 234705, 88241, 14127, 229803,
       5579, 219755, 10210, 17927, 243929, 136156, 63674, 206080, 6870, 27240, 140780, 221740, 105337, 49933, 181688,
       75132, 187179, 194635, 80298, 243463, 118097, 60663, 123268, 261392, 33562, 173041, 113283, 77254, 81366, 207977,
       93974, 182947, 203326, 48620, 237615, 127163, 66183, 254686, 161705, 110059, 15041, 58327, 19488, 4164, 82058,
       71463, 171726, 26955, 45667, 37856, 144373, 92116, 187314, 195522, 2465, 130073, 183066, 87880, 72443, 253543,
       13487, 3091, 119604, 8489, 62631, 142957, 94977, 216348, 77192, 83930, 242919, 205997, 117301, 11097, 155788,
       68112, 56194, 247666, 69471, 94765, 200006, 92670, 63371, 241151, 42388, 96240, 89919, 4838, 49638, 214451,
       30152, 148496, 93678, 31196, 234336, 218674, 43995, 124996, 121222, 123661, 143483, 59909, 105492, 93141, 113944,
       122677, 172221, 38287, 130889, 198232, 15313, 56856, 73825, 252301, 29762, 250023, 128261, 73400, 226865, 189174,
       115492, 13082, 78216, 61044, 106558, 26908, 66243, 182815, 197211, 17621, 53082, 28302, 55109, 247024, 4414,
       50724, 48158, 208841, 46096, 135121, 128573, 116300, 2952, 228038, 7772, 198562, 6078, 127421, 72235, 141842,
       1080, 243238, 197018, 123940, 235561, 173639, 71833, 178858, 201351, 92070, 236735, 113717, 24527, 229867, 152752,
       85748, 213605, 245692, 115599, 250486, 69248, 18281, 246648, 56708, 16656, 220485, 24605, 39842, 260180, 7224,
       21197, 192984, 206040, 14502, 150103, 260277, 88908, 165854, 128084, 28026, 178766, 38937, 87426, 256087, 2644,
       112974, 206479, 113220, 85462, 50714, 104981, 15645, 178412, 12567, 75179, 251602, 5861, 51593, 183211, 170126,
       45006, 82684, 251659, 41750, 145924, 25122, 121822, 141673, 60670, 97321, 245723, 192891, 17543, 217198, 223457,
       62390, 259585, 89596, 41710, 35368, 100939, 128180, 86639, 32122, 128192, 55978, 260742, 41882, 5929, 167639,
       46152, 44658, 183244, 78566, 109827, 71792, 62823, 191098, 62949, 27931, 146149, 93497, 86561, 142488, 202536,
       43794, 238448, 211770, 85683, 243497, 141135, 50289, 237107, 214735, 91777, 238867, 153759, 87529, 212926, 15001,
       66691, 27667, 195724, 92371, 178274, 76257, 60419, 181695, 251721, 15222, 125622, 126513, 23869, 8083, 222359,
       32242, 212882, 66789, 8287, 142103, 32502, 93242, 41772, 204029, 48154, 149896, 234509, 12258, 74841, 28459,
       107473, 144388, 222271, 89607, 244940, 86686, 59273, 245159, 98617, 32430, 139859, 105140, 19889, 167193, 36839,
       60080, 5783, 91067, 116030, 243801, 59949, 24693, 92225, 99528, 74535, 79288, 182485, 126050, 27988, 1681,
       83508, 37666, 217163, 57667, 14971, 79523, 93896, 114900, 22869, 108079, 20185, 134387, 77400, 39897, 113206,
       114272, 212587, 198044, 67448, 149706, 125608, 108793, 147161, 172772, 124783, 17269, 168239, 65698, 257873, 156574,
       79298, 205747, 184267, 79884, 34023, 142641, 102424, 60408, 228336, 107867, 204106, 78001, 3569, 244, 204417,
       96122, 237183, 213976, 102736, 60750, 90409, 91806, 180221, 7842, 93545, 135648, 188440, 5426, 198065, 67802,
       57938, 233701, 27580, 107240, 116142, 120820, 122422, 48240, 194870, 30076, 214770, 183680, 75916, 62710, 155033,
       105425, 45392, 112413, 98619, 150618, 190108, 81119, 43361, 255966, 2449, 233682, 123040, 94881, 43210, 139797,
       101350, 115707, 177593, 94745, 86647, 24825, 100376, 36284, 160530, 56480, 229851, 84001, 130253, 21304, 166459,
       101028, 152734, 226017, 75848, 195468, 55879, 122446, 83390, 42916, 119039, 97714, 7749, 106766, 244944, 19636,
       73884, 162639, 171224, 69088, 48439, 101511, 43084, 106446, 34308, 32883, 20572, 79754, 67155, 258633, 162222,
       75731, 2902, 59124, 32050, 149008, 258636, 120927, 49861, 242470, 73043, 4535, 21200, 69010, 27789, 128258,
       57099, 260791, 83297, 7611, 136543, 136862, 115658, 28235, 161083, 41549, 17628, 196359, 84208, 147052, 38894,
       79617, 139314, 40243, 76609, 224703, 197982, 68906, 39253, 257738, 23781, 178742, 61324, 36779, 145670, 253455,
       68706, 99320, 124269, 103460, 181879, 164123, 56621, 172585, 107483, 26728, 140737, 262054, 11527, 13539, 62570,
       86902, 46727, 41892, 55488, 4359, 68163, 16432, 160861, 124937, 88403, 189502, 61346, 27207, 199074, 240583,
       66717, 196996, 216949, 40132, 175707, 17991, 122118, 125862, 4539, 29922, 45461, 160929, 55039, 146920, 16114,
       125762, 195224, 204880, 41775, 248193, 255391, 84488, 30162, 225323, 41514, 12339, 214810, 14506, 102462, 92416,
       82253, 228296, 155902, 120066, 22385, 63349, 59318, 145768, 200377, 82074, 55523, 24105, 79809, 139676, 49260,
       54406, 167117, 142800, 80595, 191951, 83558, 33989, 89118, 190532, 49550, 48295, 91177, 57975, 161779, 221297,
       113247, 90746, 232504, 45656, 180667, 115002, 83248, 179089, 21921, 27971, 70196, 115492, 33104, 214833, 254167,
       84990, 227951, 16066, 99917, 127611, 169236, 60570, 163200, 210214, 43922, 49140, 125879, 119311, 29721, 174368,
       17800, 157793, 108748, 94465, 119683, 189829, 90462, 15862, 145977, 90471, 213377, 27418, 122607, 112326, 123360,
       95445, 94143, 213698, 39526, 197265, 2536, 46322, 14113, 120584, 51263, 182840, 584, 4038, 40509, 124755,
       119735, 163593, 235109, 9640, 180065, 20921, 91723, 114332, 76418, 95703, 173860, 244363, 110587, 109868, 212131,
       72530, 78004, 259129, 95061, 225067, 86210, 39678, 130850, 169320, 97725, 49146, 85858, 45012, 49155, 202435,
       118336, 221523, 79820, 21414, 204552, 247407, 41386, 246998, 141646, 65374, 186005, 100962, 101692, 74508, 72266,
       98146, 156317, 139647, 27619, 21535, 134395, 18905, 68478, 237908, 39841, 236971, 96916, 63406, 163622, 4666,
       70648, 123007, 64200, 56247, 241781, 25479, 86912, 143594, 113278, 56041, 1534, 235813, 124037, 61863, 142988,
       34205, 185818, 221234, 82230, 240805, 157753, 80134, 138720, 86319, 36906, 147310, 240555, 53960, 188827, 169188,
       47903, 93912, 95262, 22609, 208875, 7849, 62560, 9990, 83566, 50680, 155930, 160403, 23372, 108270, 99627,
       58966, 177553, 141097, 55291, 244477, 128234, 17218, 94922, 239615, 17195, 3537, 116362, 84870, 22882, 222130,
       92612, 251457, 243949, 123362, 104857, 40461, 11403, 230369, 8445, 15448, 89529, 204162, 6791, 237432, 229857,
       69760, 64192, 214780, 81624, 168880, 194456, 52890, 164073, 194291, 104582, 167747, 123377, 90007, 17950, 142536,
       129216, 19832, 87319, 18074, 44892, 114475, 7643, 144377, 147968, 36019, 18689, 241453, 2496, 248302, 248004,
       122239, 64244, 131145, 39839, 144653, 11886, 72408, 33251, 191334, 41690, 6008, 136153, 32218, 164548, 35281,
       19970, 196372, 75868, 41991, 500, 139626, 80664, 49819, 139567, 127352, 87526, 17233, 73150, 62892, 73020,
       69823, 63625, 111001, 4621, 260652, 41653, 110113, 120109, 145819, 5877, 117624, 256375, 118781, 177374, 218420,
       70604, 204573, 130018, 22081, 66815, 153773, 59206, 50144, 61220, 130414, 158820, 129773, 39987, 214848, 209267,
       35318, 165356, 8126, 15467, 70431, 142127, 78268, 168280, 237561, 11695, 42261, 126238, 100402, 54772, 22634,
       120484, 121758, 29222, 122142, 55126, 16250, 14144, 209478, 137282, 73172, 156017, 180391, 12728, 100375, 102993,
       74975, 78563, 176508, 106821, 35458, 209908, 70489, 60857, 163871, 114301, 219963, 219921, 105077, 16000, 251608,
       36247, 195382, 9974, 82588, 200912, 241230, 971, 136902, 123313, 51910, 1573, 246361, 31189, 239891, 19337,
       122829, 187090, 260666, 53135, 38940, 18314, 85729, 139660, 107976, 95942, 76936, 217251, 101346, 134707, 250001,
       96439, 137879, 101516, 37901, 116096, 184898, 89924, 69506, 92390, 71959, 202076, 21808, 78298, 217558, 167172,
       106, 202773, 156988, 33850, 89200, 75366, 121986, 150338, 134476, 38020, 223449, 52143, 57411, 149561, 162687,
       24467, 191940, 93940, 18166, 239516, 143634, 27350, 172767, 248068, 72567, 173720, 2948, 120458, 242062, 120585,
       42755, 151757, 23400, 42389, 190607, 261235, 73943, 9176, 53154, 46758, 257292, 163948, 119330, 13694, 198800,
       49525, 78288, 12852, 64283, 64729, 47573, 69912, 104917, 135836, 102507, 49818, 189167, 73912, 73214, 119711,
       31346, 140846, 114005, 16251, 65836, 173313, 122915, 258312, 105540, 105062, 121853, 70862, 3010, 25177, 24444,
       107679, 117187, 22510, 77410, 218639, 74931, 68012, 132428, 121675, 1602, 236703, 184790, 102349, 108422, 90100,
       25960, 203829, 48116, 95417, 249974, 43984, 2079, 231451, 222347, 104379, 174474, 244341, 3019, 217368, 214174,
       30918, 250274, 209578, 35163, 199719, 202254, 20644, 254860, 14152, 63053, 68129, 14390, 37183, 143718, 152533,
       130192, 63322, 18055, 76017, 175553, 168070, 74249, 100004, 36013, 28949, 216047, 234550, 53567, 194540, 2392,
       16250, 11449, 157019, 99946, 61381, 70765, 43405, 184735, 256266, 98561, 174513, 17245, 48718, 245918, 2339,
       129598, 101967, 212821, 22429, 66393, 203563, 199, 193939, 34566, 77964, 255160, 95759, 124905, 126311, 253355,
       84810, 175396, 137090, 11235, 249973, 160116, 70841, 221430, 151016, 119208, 71222, 211350, 852, 200102, 42385,
       21877, 135675, 139119, 106766, 55648, 83061, 117166, 50403, 78172, 92688, 250845, 48819, 129965, 202838, 208538,
       11824, 205081, 57785, 71522, 239149, 185079, 89783, 164701, 165619, 92097, 12789, 141133, 104003, 161350, 67957,
       120275, 21229, 72712, 47401, 17710, 112554, 5631, 78072, 71298, 47505, 258635, 42666, 88029, 233378, 18774,
       27978, 30481, 220450, 106164, 203084, 187178, 28804, 253493, 246904, 1319, 7936, 229288, 66595, 42792, 34882,
       95218, 202135, 218768, 45830, 6499, 214843, 98159, 70840, 256421, 57462, 139691, 208430, 22506, 256460, 162706,
       11869, 175581, 251240, 93138, 21201, 229462, 50556, 107122, 184437, 119639, 21839, 8991, 70812, 81536, 154515,
       45669, 192392, 260282, 45742, 246096, 45266, 17227, 215946, 63353, 77829, 34587, 20864, 76305, 212539, 38456,
       104856, 202686, 259079, 26371, 75566, 211039, 38114, 99619, 155632, 12745, 45897, 146763, 38711, 24414, 259148,
       56112, 52564, 28432, 126357, 34399, 235661, 85598, 174883, 214318, 102612, 223274, 89433, 42665, 60732, 97977,
       18941, 152934, 238539, 33648, 208725, 259567, 33615, 192202, 152500, 76430, 24198, 139614, 44757, 79763, 99473,
       112380, 257935, 134162, 129570, 132966, 22653, 44996, 211963, 976, 92413, 173065, 145795, 86178, 21303, 66708,
       25488, 153928, 228485, 120325, 58337, 160512, 26141, 88811, 60423, 96594, 116696, 157962, 45561, 233578, 193842,
       48114, 30186, 37674, 59696, 162073, 57166, 113312, 207015, 6103, 18383, 26863, 243607, 7152, 142529, 66678,
       52696, 77127, 35126, 7285, 170423, 178648, 90125, 58443, 120434, 99657, 86044, 148116, 112028, 226231, 159570,
       97496, 233517, 231216, 120108, 2588, 113409, 98081, 85133, 65686, 122693, 80286, 230704, 25311, 109581, 18457,
       65518, 15873, 37757, 130276, 123617, 212337, 89335, 213789, 132292, 115165, 65173, 125279, 3983, 203252, 28269,
       114263, 13443, 12842, 91450, 175395, 206645, 22381, 67172, 191898, 3366, 14239, 197863, 34069, 25283, 75221,
       120032, 64411, 98599, 87573, 136456, 205737, 120516, 171556, 166286, 58477, 229471, 47508, 122765, 153780, 173723,
       60681, 18069, 154130, 26772, 19723, 115845, 19843, 116428, 731, 130260, 236442, 239037, 43760, 12259, 28943,
       20978, 123242, 240961, 1102, 28797, 128884, 37430, 45671, 215219, 116538, 60600, 248606, 69993, 175552, 142999,
       82894, 138169, 39335, 120899, 169546, 170241, 67218, 250018, 216025, 109875, 4182, 173856, 42445, 124629, 145569,
       128070, 182286, 28767, 10330, 76553, 172100, 95004, 224282, 9792, 86581, 195123, 211020, 25122, 201225, 166370,
       50966, 146962, 87522, 41003, 36174, 91871, 12385, 96793, 143239, 76649, 88013, 86739, 130242, 77069, 207107,
       73346, 88296, 112705, 71468, 80350, 245084, 5283, 261685, 90806, 18247, 228882, 81507, 67268, 171035, 4448,
       129129, 85135, 33184, 114898, 191129, 218740, 44591, 233296, 206882, 71172, 171339, 259370, 72443, 205960, 16862,
       89831, 153678, 63118, 90148, 253679, 48703, 103519, 178529, 250016, 3273, 568, 71386, 123690, 13093, 96207,
       9183, 45217, 188035, 62411, 67667, 163937, 120531, 24880, 86894, 63919, 191046, 159586, 8341, 1870, 214350,
       30046, 248480, 55933, 75847, 2348, 188341, 11516, 51899, 156700, 55532, 82254, 13070, 43134, 239229, 1901,
       106850, 234407, 167454, 14435, 55947, 43711, 89495, 198825, 139404, 53292, 116050, 153209, 77037, 172278, 168605,
       26939, 120693, 131430, 79915, 21330, 108790, 88339, 159563, 229862, 9205, 102666, 243770, 108048, 118447, 81343,
       112886, 78403, 53454, 8330, 41205, 127436, 79060, 259637, 229075, 77858, 72071, 144112, 1632, 248764, 73531,
       44872, 7646, 196480, 126999, 10536, 14152, 72804, 10748, 68889, 122317, 245736, 33486, 88558, 24566, 128330,
       3721, 52954, 74374, 10186, 6368, 179128, 94657, 115353, 78696, 72688, 81112, 104694, 16666, 6024, 185445,
       80486, 110985, 205414, 106205, 258192, 5374, 98694, 239359, 15044, 32265, 1562, 190075, 33842, 34254, 61906,
       126856, 114501, 253756, 116313, 241756, 124291, 41725, 28436, 161615, 108010, 123226, 757, 21199, 102909, 166527,
       25800, 93541, 170323, 23749, 191147, 115371, 11497, 193310, 236604, 112024, 97004, 41755, 75865, 99027, 236668,
       33941, 234082, 233659, 111234, 239193, 54162, 105204, 135278, 173107, 13231, 240486, 189292, 84428, 166722, 15992,
       94612, 45565, 172135, 93824, 241359, 131043, 94783, 199492, 154233, 22211, 44795, 84292, 41299, 3075, 255777,
       110648, 43376, 26684, 117754, 913, 206624, 36593, 221705, 163099, 3017, 56105, 59118, 112691, 97858, 21379,
       49426, 47544, 99123, 43183, 117232, 150560, 45481, 246943, 230944, 54486, 42384, 10844, 49580, 42633, 107566,
       74243, 60505, 204507, 10346, 225491, 234585, 127341, 187786, 114416, 122742, 133690, 237610, 122474, 143651, 7546,
       115248, 177404, 76337, 86550, 75780, 124031, 28981, 37102, 251828, 6485, 235831, 232166, 13018, 55208, 87210,
       42466, 90445, 50417, 66044, 250588, 29219, 130187, 174731, 31982, 57074, 117796, 29041, 68766, 108101, 20384,
       91115, 170578, 407, 23689, 42722, 208699, 122267, 131268, 74720, 69341, 163540, 98134, 36209, 123661, 98712,
       122566, 158612, 44104, 81979, 16639, 206908, 63398, 47305, 2911, 76042, 51230, 236235, 98081, 122797, 203804,
       20255, 158654, 210474, 113355, 14211, 169758, 125764, 124948, 42154, 74317, 204040, 230601, 89426, 158448, 20783,
       112700, 24641, 242109, 49127, 46945, 4152, 130132, 117707, 154940, 89194, 177072, 118161, 55574, 93687, 249775,
       88780, 11287, 201021, 68377, 169140, 254649, 14633, 22037, 13260, 104315, 172288, 11106, 73973, 219166, 204193,
       104313, 18077, 231163, 20304, 161965, 27615, 70563, 143984, 56362, 100482, 256011, 208168, 129539, 14754, 83677,
       115919, 188693, 254089, 113292, 8996, 73909, 32435, 24963, 57507, 109836, 83287, 35535, 22188, 9334, 256116,
       25966, 96418, 151961, 14433, 58152, 252130, 112406, 233956, 165204, 14189, 34959, 59479, 18102, 143621, 171934,
       32228, 241312, 231716, 75060, 1910, 150419, 115366, 256179, 162427, 54818, 200, 186805, 71602, 207600, 90251,
       21822, 25855, 151132, 34858, 14476, 184012, 17553, 240527, 195595, 53728, 231429, 195555, 77376, 124637, 126783,
       37227, 2055, 92223, 110886, 96673, 252232, 128612, 228889, 61789, 15748, 245577, 45792, 2340, 249891, 242316,
       103517, 167459, 45334, 24987, 240403, 25651, 46287, 165201, 99034, 51672, 176748, 119208, 120140, 135030, 237276,
       86355, 63600, 148179, 5322, 201094, 17081, 1941, 54492, 27644, 26157, 207009, 193969, 41703, 113412, 111445,
       63507, 133164, 72294, 109817, 75353, 86810, 41263, 207858, 250397, 49353, 127507, 259083, 43166, 257205, 207233,
       1175, 27400, 123690, 125200, 46172, 212209, 18218, 122821, 41440, 37705, 39768, 12035, 16948, 11118, 39900,
       64296, 123879, 198694, 122180, 229904, 246228, 13199, 11655, 21379, 57789, 63325, 198394, 2932, 187638, 192882,
       101043, 45003, 48390, 84046, 207903, 65969, 91710, 236781, 109287, 61910, 18742, 18508, 118965, 72469, 186991,
       53681, 134794, 169837, 67382, 41660, 151435, 91132, 248759, 81009, 68230, 242312, 188312, 24816, 157822, 36908,
       41559, 20984, 53277, 12097, 57810, 16531, 56703, 135346, 223307, 79874, 63025, 255363, 15535, 250833, 225783,
       82652, 82623, 247429, 117030, 140797, 251346, 44266, 32802, 12254, 29102, 84407, 30309, 117048, 23802, 169160,
       90694, 169334, 111100, 13814, 82875, 197413, 53492, 13049, 182160, 88354, 71308, 40929, 75285, 168626, 250255,
       81074, 54533, 37148, 74335, 141957, 8982, 104603, 130881, 127114, 41999, 545, 156926, 92859, 151221, 105148,
       129902, 200458, 1811, 51112, 180199, 169208, 103684, 74628, 144194, 32258, 7845, 248226, 36948, 200768, 230505,
       122534, 125230, 168142, 3399, 207678, 105100, 28498, 166971, 122422, 63297, 100061, 81898, 52670, 254665, 146508,
       82466, 140250, 78788, 25260, 121788, 33356, 9246, 193188, 196317, 48409, 70023, 35630, 68728, 76099, 252535,
       73662, 184756, 150186, 78838, 251426, 253128, 71914, 59010, 218039, 32211, 53041, 259611, 100211, 16513, 57247,
       11505, 140107, 62992, 25998, 167693, 181087, 96911, 197760, 248907, 36664, 69166, 143794, 64680, 144425, 67027,
       42886, 121186, 104246, 66451, 10844, 161877, 45436, 227805, 246733, 130312, 217488, 143413, 46855, 79322, 201657,
       82188, 162853, 154645, 116436, 241755, 123582, 83615, 108942, 43091, 74168, 11047, 52634, 74610, 11296, 205156,
       65072, 25769, 83573, 105851, 46759, 100007, 6609, 48443, 247625, 116015, 195898, 37651, 76846, 129470, 218659,
       111263, 133917, 248745, 1362, 50412, 93180, 113937, 208881, 156516, 15746, 174302, 255337, 94531, 127541, 244682,
       54594, 76548, 78970, 89269, 136431, 207842, 82338, 22360, 14886, 21416, 186703, 121904, 67451, 119362, 259381,
       36337, 39998, 157616, 73457, 151484, 11964, 96731, 148456, 110302, 10650, 184265, 60405, 67602, 3244, 149851,
       80953, 255817, 174571, 38714, 105612, 5937, 124912, 19004, 173957, 68197, 34588, 143083, 23922, 230686, 208404,
       14128, 6042, 148082, 70996, 104969, 223030, 49183, 64249, 40147, 25237, 139774, 220047, 4023, 186662, 66249,
       74265, 106349, 102083, 78459, 191428, 164485, 18586, 91892, 130313, 78871, 2532, 46719, 124776, 255041, 56970,
       128227, 42517, 212445, 116456, 143177, 239787, 105785, 105839, 244524, 27442, 68444, 37803, 20504, 71366, 28965,
       58320, 45121, 260492, 81216, 97755, 212625, 111500, 41017, 199862, 30403, 225372, 132677, 62868, 107378, 167541,
       84861, 75338, 144662, 58404, 230084, 50146, 59532, 19304, 221272, 29506, 145891, 20603, 129323, 162038, 177916,
       62284, 139996, 29001, 69827, 144773, 207629, 28647, 898, 133942, 67388, 243255, 69048, 33469, 46487, 163337,
       26520, 161779, 235349, 36139, 122388, 166532, 361, 186816, 164914, 74730, 221918, 157843, 50787, 204284, 156261,
       117792, 253525, 182970, 5335, 149595, 7073, 5662, 91706, 215603, 116113, 56010, 75, 16599, 148515, 222858,
       283, 33860, 143744, 23450, 156747, 153921, 107987, 25695, 257487, 105213, 89195, 248044, 44581, 212111, 28938,
       87560, 38898, 205408, 66486, 61247, 79590, 118585, 111303, 125952, 7395, 140973, 40871, 106585, 3869, 185823,
       22360, 185807, 119655, 51330, 140055, 51541, 25160, 54461, 43283, 92093, 19895, 63283, 88909, 149168, 127631,
       71814, 9030, 218428, 91509, 163986, 204983, 83829, 9154, 252684, 101769, 213155, 58599, 31379, 133325, 236523,
       56218, 113840, 25660, 19873, 260166, 67940, 56307, 180263, 47834, 91972, 37025, 206207, 90622, 5826, 130585,
       92986, 804, 113947, 40470, 203820, 197666, 86797, 186115, 23528, 48164, 142984, 33499, 123796, 120970, 216664,
       45005, 187776, 5086, 79038, 211280, 235553, 98323, 25965, 136229, 118804, 166340, 41055, 57400, 46638, 141558,
       47249, 132147, 156305, 56364, 171178, 195673, 42427, 138461, 242908, 85711, 50007, 36890, 122253, 13550, 205140,
       16524, 99342, 200559, 73521, 46366, 89376, 117656, 160885, 196519, 13122, 55993, 55631, 64731, 243038, 244911,
       113407, 97934, 4012, 118024, 18951, 82338, 67417, 43638, 60184, 3270, 129342, 26040, 13846, 88708, 49918,
       76902, 35974, 160773, 16234, 103616, 211992, 19584, 127626, 52286, 101202, 244381, 66298, 98394, 185991, 154540,
       110463, 238845, 140672, 13858, 240074, 171588, 25971, 64449, 116687, 109177, 241312, 151629, 94514, 103559, 68917,
       105638, 73816, 67587, 129727, 247752, 182396, 113302, 204336, 141543, 68218, 41737, 93459, 40733, 1970, 191900,
       74668, 170277, 21504, 83700, 213991, 99477, 43950, 8645, 77184, 101048, 67994, 45760, 12157, 111440, 95606,
       102156, 151971, 82115, 4194, 28794, 19742, 65269, 106826, 139986, 112910, 52465, 246472, 11337, 28457, 116310,
       67861, 20416, 227079, 20891, 197836, 212303, 117285, 76019, 172862, 109097, 50572, 170552, 122410, 105096, 243280,
       114685, 179691, 155723, 96541, 135117, 20938, 24233, 208835, 128696, 39649, 163274, 5003, 65123, 209534, 66678,
       77187, 230410, 158116, 102522, 89650, 198131, 29748, 13732, 158852, 16813, 150629, 109700, 63256, 178331, 87342,
       20688, 154509, 60173, 90929, 123248, 77866, 75449, 24124, 23690, 97138, 126136, 14085, 8314, 198376, 187577,
       126444, 219845, 29022, 0, 190238, 191309, 42656, 101769, 187467, 89081, 24021, 223803, 5916, 225943, 76372,
       10924, 208752, 138859, 10050, 206920, 221214, 76219, 168532, 152051, 117430, 189501, 260085, 72802, 61746, 27779,
       79111, 79766, 196471, 45351, 33666, 105515, 2456, 115644, 30741, 2833, 22094, 217569, 116432, 147829, 254532,
       13444, 98222, 45816, 131044, 102902, 154101, 21551, 52569, 81480, 88425, 179788, 89514, 124381, 128883, 4672,
       47485, 256953, 81719, 96263, 164342, 41124, 45987, 126345, 92615, 39969, 61391, 258133, 26450, 226678, 232351,
       107601, 152074, 53326, 33736, 62180, 240673, 37114, 27978, 54733, 130936, 252195, 130653, 42901, 61183, 4546,
       55413, 235352, 244879, 129768, 143906, 250032, 48404, 245071, 197865, 47992, 72323, 142195, 108490, 49942, 135532,
       40885, 88410, 71023, 30642, 212907, 59570, 55471, 3818, 125460, 91834, 102501, 195047, 5667, 248976, 138529,
       49009, 241570, 218083, 45383, 3090, 29593, 32088, 217687, 159805, 85758, 196527, 44309, 38009, 151996, 86307,
       79525, 136027, 32437, 66104, 114945, 189918, 28467, 133889, 198598, 34939, 90761, 198895, 22360, 233357, 47288,
       7422, 132238, 69251, 81158, 70840, 201532, 88183, 199147, 221502, 21757, 249341, 126765, 80660, 186291, 124017,
       128723, 212611, 153006, 9752, 8228, 24816, 64273, 233570, 91447, 96080, 205714, 143892, 6030, 135679, 249291,
       102009, 226336, 132984, 128386, 130251, 7229, 11598, 73727, 191021, 107771, 83406, 40519, 49621, 115396, 101949,
       18889, 156994, 58293, 64643, 215040, 225654, 9374, 27193, 223528, 68432, 229578, 49500, 2537, 34843, 121631,
       95500, 146507, 211367, 63959, 42640, 353, 60154, 36500, 113098, 25715, 55435, 1338, 47351, 126971, 27833,
       23837, 259587, 38040, 96389, 13436, 216326, 26086, 168833, 34518, 80839, 24139, 23715, 36648, 187270, 109640,
       86111, 254380, 94277, 70838, 134316, 59116, 55500, 248598, 128813, 88211, 148173, 112657, 54489, 137198, 68607,
       107658, 180255, 168987, 95629, 243562, 172992, 70862, 166275, 2112, 114958, 25634, 134834, 108640, 151168, 227099,
       69709, 66356, 250573, 8971, 151023, 118595, 74186, 71794, 211919, 46564, 63998, 182116, 70793, 179211, 237726,
       84820, 179232, 173190, 84520, 73841, 121101, 88280, 37599, 219146, 89033, 25486, 36124, 14323, 192443, 125793,
       25128, 31084, 113290, 82646, 70922, 97276, 53499, 254629, 220204, 99988, 128674, 79789, 16372, 28690, 74862,
       25103, 79147, 195469, 73199, 20345, 234850, 65634, 11634, 88925, 34917, 54464, 162235, 53522, 95843, 46599,
       4585, 17321, 210989, 4854, 172724, 87143, 12442, 71333, 31716, 75601, 89240, 159421, 113209, 9934, 66839,
       34107, 258728, 57510, 4448, 147157, 144491, 92881, 44962, 259914, 112112, 191016, 182738, 18110, 152911, 57153,
       50560, 189268, 149675, 20805, 250392, 11104, 13940, 126129, 60425, 84956, 195736, 91344, 126816, 246678, 256182,
       88888, 137594, 131184, 129081, 164491, 10460, 56937, 15106, 18440, 117685, 154392, 167642, 26880, 209582, 245985,
       15453, 251970, 245236, 92080, 185627, 163932, 48681, 61012, 35585, 41639, 248897, 38674, 87986, 23047, 136144,
       43710, 110185, 26947, 75046, 90374, 241034, 39250, 47104, 26229, 102728, 176842, 228925, 40945, 95568, 165868,
       70122, 197265, 79197, 3037, 192844, 58771, 103773, 193262, 22561, 81308, 239290, 175740, 25196, 235102, 133060,
       28229, 109877, 241301, 34405, 123683, 72989, 75566, 250051, 46971, 71868, 240755, 256222, 35895, 226875, 100302,
       90972, 34795, 111220, 116528, 105827, 226670, 5703, 173195, 35162, 54682, 209115, 156392, 77793, 227797, 90181,
       76865, 61603, 82871, 2560, 140771, 127844, 27599, 82675, 193234, 8104, 72431, 102031, 74575, 102233, 90669,
       84592, 142437, 177157, 20937, 190013, 149157, 43648, 113622, 59884, 43228, 9503, 49046, 107453, 34394, 236281,
       25514, 104194, 128895, 71868, 164760, 60145, 102620, 242088, 143230, 108734, 123967, 194196, 87368, 39612, 158085,
       39259, 183905, 176532, 107878, 94543, 209200, 97277, 48628, 204039, 92336, 46742, 184882, 8825, 205888, 155652,
       5670, 213499, 186119, 91142, 241251, 55759, 123836, 37797, 221360, 101413, 142265, 80373, 108983, 43372, 28240,
       71431, 240521, 51038, 39922, 187453, 100708, 88832, 86647, 65632, 93319, 117071, 148064, 88520, 136332, 39119,
       124087, 12971, 128955, 48126, 233373, 48583, 5197, 260294, 220067, 119071, 162058, 165593, 21036, 246548, 31659,
       91398, 238388, 146908, 114452, 171004, 95800, 40650, 223692, 227703, 108844, 48876, 150727, 43523, 137029, 171738,
       104104, 255634, 237833, 9152, 193934, 13240, 85884, 2705, 208889, 88753, 220855, 182750, 64412, 43620, 225152,
       90058, 97965, 95905, 121003, 138953, 220170, 96187, 214858, 720, 125998, 260338, 28903, 58800, 134532, 162605,
       69244, 32187, 153944, 34568, 198842, 158537, 129184, 204944, 184101, 7226, 231250, 159128, 47005, 25002, 193069,
       39019, 199958, 90420, 50660, 226299, 64869, 120287, 30255, 27079, 48239, 120646, 133458, 120189, 252660, 88190,
       55487, 228399, 197811, 112036, 66091, 142535, 68386, 217293, 251975, 40809, 167744, 86447, 58897, 46360, 65537,
       55624, 124986, 5404, 34067, 119523, 111054, 37963, 138311, 199678, 24438, 232881, 245233, 44040, 69477, 40800,
       81842, 30787, 26844, 50666, 249636, 229673, 93365, 164600, 230970, 129365, 53125, 106320, 49427, 102941, 98901,
       60639, 12338, 234980, 21510, 64616, 70268, 51408, 115851, 80649, 95267, 100398, 141552, 28495, 178759, 25810,
       23862, 49352, 164841, 49332, 54378, 229451, 107302, 6656, 94111, 81743, 260877, 211999, 125511, 221296, 122704,
       118559, 242191, 102273, 19809, 224044, 136191, 5577, 125114, 88177, 52310, 38010, 256444, 68430, 379, 133760,
       67576, 228505, 37704, 17577, 185545, 225648, 16360, 18472, 156763, 6142, 34860, 78691, 111523, 239135, 20810,
       124222, 188655, 217132, 15163, 17555, 206123, 27934, 98327, 187681, 11778, 133176, 127208, 115015, 252857, 196883,
       125659, 228359, 110590, 34314, 52665, 201280, 39791, 89065, 87789, 47535, 220430, 113700, 65858, 243759, 189696,
       89451, 137728, 159625, 66111, 126491, 239025, 124649, 178077, 248992, 13093, 61707, 124087, 104674, 215405, 3612,
       43841, 96384, 228288, 49485, 243944, 25440, 92907, 181625, 109662, 121815, 82980, 128883, 93873, 227658, 15415,
       101693, 156588, 21499, 98406, 35868, 183932, 42071, 80699, 85497, 99212, 101118, 240895, 102828, 184833, 109274,
       69913, 221990, 251377, 70353, 187095, 257838, 99578, 32793, 250032, 107089, 227848, 160457, 44196, 230943, 14666,
       105062, 95153, 147031, 106720, 766, 61943, 30687, 82839, 53137, 93972, 44063, 216259, 24449, 98095, 12416,
       12196, 34953, 169500, 75306, 131511, 54655, 119098, 225705, 184947, 4647, 179603, 34074, 108331, 58364, 127156,
       66384, 50994, 182633, 112839, 75564, 69054, 110556, 54747, 241085, 114725, 155210, 118059, 100777, 222037, 33227,
       110492, 181900, 120335, 23071, 255841, 158950, 39826, 167753, 166710, 31783, 38634, 208893, 97311, 147489, 24693,
       20138, 81511, 130596, 23884, 251904, 199115, 115207, 174030, 185633, 92521, 102443, 30205, 114737, 210885, 232112,
       18265, 150054, 11114, 52295, 41834, 179606, 37113, 49850, 108880, 1268, 240965, 85735, 37292, 260432, 95101,
       49752, 192938, 218774, 12087, 108080, 13487, 74250, 172275, 172176, 50223, 54320, 86415, 6089, 215743, 261839,
       92271, 240589, 121978, 95588, 43615, 219894, 109375, 220455, 261415, 63640, 203818, 123548, 126964, 12028, 72166,
       119808, 56505, 184796, 72266, 199283, 55612, 58320, 193857, 231092, 397, 190980, 220460, 93191, 124587, 167443,
       74049, 187892, 254432, 122885, 206107, 92238, 77887, 50625, 39258, 130135, 166183, 59937, 111911, 209610, 204190,
       124989, 259166, 227186, 42947, 108726, 75435, 19573, 201197, 33631, 104447, 162974, 198084, 103048, 111851, 183225,
       27715, 9276, 43578, 100236, 160250, 105448, 76280, 107999, 117730, 14355, 178203, 141236, 65769, 204393, 227062,
       122046, 31469, 83770, 66382, 105747, 261497, 103376, 92788, 42799, 3789, 75961, 62915, 95431, 22792, 147458,
       124103, 228032, 189978, 65474, 27740, 122646, 44264, 82239, 219987, 84757, 203155, 117675, 120096, 49803, 91433,
       23169, 144607, 190960, 52913, 1965, 14877, 20485, 73323, 261428, 65097, 121510, 114146, 70834, 50880, 9934,
       123758, 172015, 250640, 54069, 48820, 76275, 74312, 35979, 60639, 116033, 35679, 126589, 42127, 51428, 57621,
       88364, 1738, 232004, 99242, 188179, 198811, 43322, 261299, 21639, 21540, 138377, 241144, 65917, 94234, 139682,
       46766, 187792, 165147, 34925, 200241, 73798, 127588, 72885, 74734, 65818, 52551, 74997, 112260, 64038, 127938,
       25600, 168724, 258229, 123134, 168317, 168994, 104127, 187955, 27918, 105996, 235482, 239265, 51087, 68608, 201400,
       63653, 107991, 254680, 77772, 36229, 104767, 103516, 38892, 18155, 111287, 148532, 99741, 10229, 145434, 47734,
       118497, 69535, 259339, 122879, 147124, 241754, 77710, 245855, 100080, 24477, 203523, 131628, 107271, 70504, 47812,
       71904, 124731, 222678, 107111, 150360, 249620, 106798, 139137, 191140, 11367, 205747, 209586, 79563, 134390, 153530,
       63326, 180772, 226481, 124009, 202158, 14222, 38881, 96315, 184059, 27000, 221752, 131177, 117582, 253858, 49766,
       19492, 117190, 171934, 89983, 125434, 82177, 39324, 51652, 215138, 74428, 177960, 71468, 80769, 29753, 184308,
       54705, 111810, 240061, 127790, 159878, 238263, 17279, 166987, 163696, 51301, 120952, 203557, 56412, 203498, 55399,
       82712, 153537, 113623, 53380, 92019, 99253, 12718, 184571, 5715, 124181, 142795, 127901, 54536, 83201, 131846,
       44914, 243996, 200806, 58552, 199821, 213912, 28389, 164953, 154211, 13136, 67280, 3943, 19474, 125413, 77561,
       21843, 204861, 159019, 25909, 118723, 105164, 55045, 6537, 16180, 81775, 190052, 90062, 82429, 153801, 108971,
       12, 206736, 162657, 120711, 200098, 165862, 107852, 59151, 245638, 126345, 75157, 258263, 47184, 34124, 257447,
       87136, 149630, 74271, 22022, 213816, 218845, 107090, 40093, 80155, 21150, 207141, 197138, 42727, 156703, 121478,
       64334, 185136, 61162, 77926, 119249, 71020, 73352, 57608, 153272, 13381, 243386, 202315, 55269, 240398, 122143,
       120967, 147607, 135122, 114343, 22982, 8118, 77435, 46651, 40545, 75015, 190514, 42577, 14637, 128330, 7759,
       26248, 106675, 26476, 33113, 261185, 61762, 63988, 207232, 118782, 95860, 78626, 110971, 60388, 50806, 17321,
       16523, 19103, 243922, 57586, 88082, 101094, 21316, 174544, 196178, 98454, 101103, 257843, 21823, 157489, 143714,
       63246, 182210, 108732, 90887, 28240, 64871, 29910, 98733, 63308, 9965, 109646, 133540, 73832, 206812, 199188,
       7104, 118360, 225357, 77040, 3033, 78815, 98762, 146884, 34733, 43164, 27698, 67874, 64008, 244776, 47182,
       121734, 176071, 155164, 61749, 47459, 240551, 130620, 87539, 11705, 20578, 162545, 103482, 92921, 100785, 139209,
       85540, 6528, 38945, 114334, 193073, 238978, 12116, 187873, 233974, 36727, 62484, 259909, 17324, 260958, 212317,
       122302, 168785, 188794, 55919, 247797, 93789, 119284, 39454, 62305, 38588, 134627, 230267, 16563, 83828, 222105,
       38867, 192268, 41869, 78272, 219578, 154608, 110786, 85529, 216292, 50513, 243516, 176434, 119905, 209868, 191517,
       32011, 258087, 160273, 90903, 200531, 83972, 96431, 110172, 108937, 35908, 227478, 192271, 3534, 261066, 58438,
       47872, 101947, 22985, 5923, 248884, 178369, 118063, 156984, 211566, 124980, 121441, 181571, 96387, 187784, 258581,
       95248, 515, 115843, 31574, 74439, 198228, 9689, 150253, 62742, 105133, 120279, 246679, 73290, 123913, 136114,
       89342, 74374, 71617, 102189, 29904, 102482, 53665, 96600, 24459, 18946, 2789, 168183, 104207, 16611, 10799,
       59475, 254244, 72445, 108386, 160638, 96856, 57370, 26886, 149651, 28444, 203080, 40910, 22413, 254159, 220055,
       97507, 81913, 166722, 75351, 227305, 212534, 53032, 29194, 236080, 64502, 190701, 63704, 72042, 60626, 156744,
       31380, 207582, 34562, 49566, 240874, 51289, 38326, 250492, 255343, 50911, 128566, 18843, 65609, 180997, 100182,
       22722, 83718, 7433, 51578, 211364, 126595, 50527, 138326, 90099, 37487, 24190, 248916, 130874, 238625, 163002,
       9650, 132345, 191737, 84272, 233761, 69575, 22864, 4465, 228176, 110038, 23153, 130679, 119825, 148994, 55435,
       52622, 136874, 250683, 107934, 253577, 204972, 32756, 34431, 94116, 18359, 15569, 112648, 41402, 208701, 191658,
       44783, 234972, 115548, 52082, 117469, 100489, 48884, 124371, 177406, 53889, 137815, 104288, 93065, 129321, 161141,
       32188, 178041, 169172, 2434, 194114, 136134, 64183, 107277, 93972, 58758, 112711, 142691, 7872, 219768, 25388,
       17537, 161820, 225522, 66836, 92145, 196460, 30769, 65959, 252156, 115028, 147746, 236775, 22713, 207823, 232898,
       2637, 134637, 154823, 58663, 20547, 71492, 129258, 97316, 176345, 83082, 246354, 145156, 46403, 100565, 14599,
       2210, 242220, 216016, 63563, 42439, 134408, 27061, 239031, 95261, 84902, 111014, 196575, 76416, 23406, 243605,
       34762, 26205, 234145, 9028, 156693, 216541, 98961, 229723, 126636, 76737, 248986, 18743, 110379, 45029, 246824,
       34052, 133077, 73369, 85571, 245512, 64809, 15555, 181027, 143891, 38248, 28377, 55816, 86053, 234480, 122028,
       108210, 155406, 75252, 42064, 91059, 136453, 104707, 87389, 164541, 88834, 97117, 67712, 45701, 130980, 137183,
       114871, 26063, 108873, 66745, 176198, 93955, 84967, 1972, 149608, 64963, 102562, 205608, 59338, 238724, 113793,
       111146, 35482, 57931, 38627, 130308, 162966, 4801, 17153, 10715, 115314, 228236, 239146, 108137, 141446, 45027,
       48045, 213522, 68632, 24307, 118397, 251327, 88543, 143041, 243103, 10323, 91530, 143609, 55542, 100484, 133499,
       11254, 38327, 205668, 78369, 56875, 260077, 3566, 67445, 30150, 82475, 139557, 235996, 88238, 105094, 27031,
       63851, 151, 140773, 22938, 146975, 38893, 13289, 237587, 87003, 41063, 224042, 179255, 60975, 149398, 26851,
       84175, 138544, 142214, 163, 224582, 121185, 93200, 149427, 223284, 93416, 151615, 151067, 58266, 120421, 201040,
       45010, 254189, 205628, 110403, 17875, 52201, 102837, 118081, 105092, 128879, 252568, 256745, 48749, 187306, 116898,
       118860, 95206, 121065, 11455, 246412, 39749, 53931, 178319, 180732, 60997, 135395, 115995, 57786, 72973, 241625,
       81932, 228000, 210810, 22309, 126314, 173590, 113567, 162280, 235779, 72320, 213237, 235486, 118516, 145195, 152908,
       344, 245064, 14661, 82573, 210246, 1369, 54061, 176921, 199405, 66204, 90235, 166104, 97491, 247683, 91446,
       29773, 61330, 178896, 26856, 151721, 188046, 92144, 167952, 28014, 68336, 118687, 93267, 30623, 142569, 245151,
       63441, 76148, 125223, 60235, 62747, 83462, 90629, 1046, 438, 348, 208712, 33706, 76907, 220608, 169424,
       79387, 117058, 213886, 97715, 132304, 122870, 116553, 56529, 218298, 57696, 146037, 5408, 44894, 212557, 509,
       13411, 88217, 731, 44149, 196047, 129949, 8976, 110608, 138968, 105227, 65524, 20034, 105775, 238501, 91873,
       54688, 45669, 242699, 34031, 182401, 141800, 15469, 33378, 186562, 111573, 93801, 164737, 115015, 16024, 125266,
       34903, 29455, 110511, 81495, 104492, 235023, 33902, 66362, 32015, 29507, 209000, 84844, 2779, 204894, 259713,
       75649, 115128, 231831, 19653, 36162, 91729, 1621, 135182, 160030, 13743, 13582, 50650, 41126, 93186, 234920,
       87708, 146185, 192586, 26558, 54747, 214206, 116338, 70834, 129548, 37812, 197374, 251233, 43414, 129029, 52444,
       28570, 184793, 90281, 33266, 202674, 49917, 9717, 9891, 243181, 38636, 44379, 71361, 112671, 204384, 115924,
       90233, 47576, 121546, 114723, 40374, 170884, 13744, 21163, 157560, 59718, 152839, 221833, 30048, 234543, 48713,
       94531, 44534, 113209, 127171, 3188, 83634, 106870, 209096, 9612, 4623, 256867, 174917, 41505, 57539, 174760,
       3745, 261406, 135900, 5264, 200458, 205723, 10422, 60279, 89444, 36218, 189591, 120960, 39872, 121938, 227458,
       52488, 63671, 77905, 53075, 33662, 243749, 101110, 31981, 170161, 18534, 1557, 198593, 20675, 99089, 10879,
       82128, 73447, 186435, 74939, 101547, 76395, 20185, 184747, 211361, 111708, 775, 14191, 43130, 124656, 11759,
       48099, 37829, 153934, 55110, 142531, 174219, 42297, 47081, 119010, 73066, 196244, 1890, 50940, 218725, 9069,
       34004, 164731, 14120, 118551, 86470, 255228, 40416, 38852, 208371, 91552, 89244, 14201, 45511, 185399, 217205,
       57045, 40401, 166285, 30925, 154533, 181886, 98609, 91192, 168578, 96626, 184699, 11791, 2915, 8959, 74664,
       7889, 197460, 17101, 120897, 190493, 220074, 116500, 81925, 143355, 66333, 225583, 69699, 64665, 89135, 226328,
       106486, 16091, 174462, 18146, 245799, 255751, 85681, 170716, 219844, 62388, 11286, 52278, 97429, 231912, 26461,
       3945, 165953, 164232, 77689, 189596, 142476, 72971, 125992, 233349, 110211, 176227, 223934, 88714, 75285, 250755,
       115364, 99220, 94167, 116296, 180568, 142773, 53498, 228570, 39432, 18013, 201006, 142873, 82612, 141383, 177456,
       114523, 170029, 98880, 9824, 74640, 88770, 73128, 31260, 159194, 15073, 57136, 124621, 3538, 109741, 181777,
       89081, 43283, 13138, 89371, 102846, 65509, 78729, 118298, 185957, 112620, 13461, 232029, 10600, 166911, 115139,
       13796, 176428, 135419, 113316, 101954, 219702, 65965, 127461, 261416, 35789, 151456, 86337, 96751, 186494, 23071,
       117231, 74640, 13763, 90387, 178763, 169556, 103800, 49626, 252281, 37027, 125374, 206797, 37850, 95396, 123576,
       113262, 116718, 137915, 80591, 79507, 261195, 30692, 47235, 10627, 68702, 245753, 203819, 89897, 27188, 193885,
       28645, 174372, 90138, 85839, 234025, 142715, 5524, 2557, 77897, 39805, 122790, 255923, 88338, 218446, 82905,
       19575, 126015, 193545, 29124, 18702, 130935, 115224, 135201, 204083, 88384, 161256, 129022, 65394, 71615, 83705,
       27642, 57329, 10300, 44749, 64620, 124549, 75278, 169625, 240316, 20357, 34683, 214916, 63143, 41953, 166372,
       53605, 24061, 208080, 62480, 95214, 207212, 13836, 17817, 26816, 13958, 206095, 215300, 126367, 249246, 22757,
       128367, 180248, 221286, 55858, 66595, 141111, 103415, 55600, 258013, 85955, 234333, 14238, 15324, 137879, 130374,
       38886, 69461, 102168, 41110, 240499, 204571, 78089, 90892, 27785, 76018, 185502, 172489, 121046, 34472, 52463,
       103551, 167705, 116359, 112308, 193224, 259520, 116815, 30629, 196515, 105024, 245373, 97185, 43631, 108173, 139494,
       28182, 47232, 204395, 74942, 180493, 202111, 90383, 25788, 51973, 50668, 62083, 6166, 111193, 116268, 63676,
       125903, 100782, 70018, 74631, 219313, 245575, 59846, 113974, 171662, 110478, 235979, 236647, 3181, 15220, 226809,
       16909, 246830, 61881, 110842, 10664, 91939, 95948, 118168, 199780, 54543, 227883, 163582, 116503, 154847, 84231,
       46066, 89306, 199436, 83079, 99286, 20608, 83143, 127846, 53040, 24160, 196563, 27113, 37336, 22744, 70149,
       120062, 225279, 29965, 24040, 144629, 38478, 22750, 202594, 2337, 62864, 41778, 194062, 12084, 129354, 228162,
       117260, 116350, 174062, 13126, 196046, 51682, 80813, 110521, 21998, 44535, 232649, 171564, 105417, 171873, 68459,
       77307, 176703, 54418, 50896, 16390, 46450, 128958, 52384, 79431, 8681, 7371, 138847, 75731, 158947, 162520,
       129704, 182905, 240359, 90564, 142829, 125126, 96963, 22323, 214299, 4206, 65667, 178467, 2800, 29494, 189934,
       4733, 6448, 38621, 129987, 61684, 17658, 128387, 160977, 89552, 43844, 197635, 5445, 38139, 149060, 193810,
       19131, 27444, 134905, 43141, 20261, 174679, 48516, 76466, 140923, 98078, 242577, 28962, 113546, 217204, 54329,
       97876, 17200, 134020, 84734, 205639, 18408, 100388, 14427, 42432, 96796, 89545, 21906, 62357, 121597, 60947,
       44020, 187439, 25723, 37064, 166231, 112670, 89044, 125511, 191783, 125737, 238603, 73728, 76160, 1080, 31464,
       119606, 176614, 213167, 1865, 18903, 202294, 104132, 224554, 237217, 111883, 106845, 193391, 82705, 163663, 148263,
       122429, 63781, 215389, 77321, 19871, 74790, 31527, 171150, 175171, 28274, 128109, 81207, 72854, 149723, 1984,
       118814, 173470, 169372, 9485, 107842, 98058, 79218, 176479, 175220, 100899, 178470, 115375, 15125, 256919, 102644,
       15305, 62102, 46411, 47989, 33758, 201070, 35898, 40155, 23350, 25993, 113622, 67413, 26043, 63628, 139406,
       17127, 13478, 240404, 80065, 224710, 141226, 90193, 261911, 123552, 92135, 67404, 249839, 69776, 183595, 75241,
       124899, 86658, 245295, 115413, 50390, 116128, 125518, 164923, 16322, 50960, 52667, 29177, 115052, 208231, 233555,
       99991, 134375, 49066, 44560, 243360, 120094, 13971, 102649, 261506, 89472, 139582, 233691, 17885, 20716, 139813,
       38505, 205147, 106502, 65583, 205983, 58633, 89113, 147756, 176711, 121402, 134082, 132380, 77757, 41722, 113275,
       88003, 120009, 152328, 40634, 35485, 168811, 90084, 214386, 194714, 57382, 7000, 99744, 112319, 179307, 70052,
       51439, 71764, 10959, 61377, 91861, 45541, 56700, 37348, 166840, 106315, 129011, 29456, 125003, 68459, 26412,
       42896, 199051, 218134, 62262, 224659, 179628, 92527, 43942, 177883, 117359, 120576, 164842, 64710, 88535, 190986,
       14272, 233284, 168822, 48322, 129912, 229114, 72137, 8663, 115729, 54725, 205823, 51163, 24452, 60875, 128497,
       4848, 75270, 93666, 90100, 7518, 105137, 130120, 12863, 74952, 120482, 66038, 214361, 89557, 179523, 168454,
       110300, 260849, 130455, 33518, 191472, 1175, 81583, 190422, 233056, 7943, 135193, 27884, 92692, 3072, 133897,
       127123, 28107, 61359, 112826, 111319, 231881, 70050, 61430, 83496, 103381, 198711, 237488, 123718, 184763, 179698,
       28313, 224388, 230815, 103973, 256852, 23971, 35369, 99739, 55180, 114943, 66188, 88878, 12891, 136778, 216889,
       23359, 116548, 190418, 94452, 168060, 147990, 22908, 114553, 92627, 20716, 129357, 85325, 72806, 40515, 135050,
       109443, 117236, 79350, 35188, 147420, 201024, 110249, 174033, 25021, 105900, 17718, 224564, 75904, 131888, 120194,
       84746, 71631, 49343, 5300, 185391, 72517, 48121, 50304, 237292, 34523, 183608, 179300, 19661, 80224, 206009,
       51073, 112090, 126951, 46518, 740, 53240, 95537, 76031, 39292, 78393, 179185, 167639, 119681, 223403, 220249,
       19058, 226158, 136801, 7831, 96782, 201653, 70072, 29339, 181017, 134, 164917, 244907, 103247, 235225, 166432,
       66318, 230284, 135820, 63971, 191675, 203536, 47513, 19116, 108718, 49148, 149592, 240329, 56509, 145090, 85466,
       2101, 102615, 236994, 10950, 134590, 130388, 66197, 171462, 226108, 19676, 216412, 42985, 102073, 254961, 153121,
       35977, 84076, 181000, 12831, 236261, 169045, 30829, 114139, 157077, 46805, 151839, 217246, 4629, 4855, 95751,
       18569, 182015, 16638, 42447, 63387, 45484, 40695, 77768, 124825, 104908, 74735, 6260, 110527, 47621, 33094,
       25351, 199918, 20302, 16245, 12704, 158788, 83120, 247764, 22239, 105463, 162186, 111385, 126317, 29831, 214902,
       890, 210405, 200451, 54221, 161921, 239293, 96205, 66424, 203969, 108600, 242331, 182540, 8163, 247428, 197634,
       89209, 132722, 65394, 37871, 203310, 56125, 9777, 150117, 192551, 64107, 171336, 53398, 20729, 124518, 136044,
       96601, 12951, 222435, 97158, 174747, 227028, 110371, 132669, 25516, 49488, 178965, 164242, 1744, 142014, 151007,
       34044, 28551, 82338, 61317, 3953, 46647, 90965, 117025, 46252, 50074, 215914, 40349, 70260, 245201, 118726,
       68716, 72596, 222172, 21624, 148503, 75951, 81664, 90197, 16366, 57573, 157946, 217400, 105895, 136331, 103261,
       90519, 207689, 83203, 14610, 128233, 220687, 64062, 142166, 4236, 92077, 89274, 224468, 11404, 209957, 180472,
       103874, 44840, 16315, 29098, 150927, 182554, 65940, 86589, 103486, 123281, 65292, 164892, 74885, 241389, 45915,
       55581, 174350, 87379, 890, 163767, 174089, 17486, 207189, 64060, 75846, 165870, 256185, 64726, 166652, 112567,
       47687, 214357, 228129, 121007, 197271, 84763, 43579, 39621, 231760, 70405, 111135, 155397, 74542, 105909, 163145,
       69136, 88295, 258619, 62598, 18989, 182623, 44179, 162006, 186065, 119113, 122397, 155841, 59087, 179601, 127201,
       69264, 222806, 229926, 86045, 231288, 199035, 8867, 213068, 252140, 102404, 261954, 182997, 67175, 93886, 63866,
       86137, 129849, 30666, 101189, 43368, 145159, 114569, 250438, 75133, 51409, 30013, 23745, 106355, 193696, 140667,
       33926, 70667, 165078, 86551, 134857, 251154, 13462, 13451, 219131, 2625, 113620, 20964, 12551, 226614, 139484,
       41862, 26549, 159369, 4075, 165995, 175495, 82639, 197139, 173491, 41490, 32960, 166187, 96518, 74435, 31439,
       6018, 49477, 92987, 28403, 133098, 133111, 53477, 216259, 151065, 50154, 237390, 138906, 17170, 67645, 55545,
       130303, 131184, 173782, 37282, 16970, 250135, 94507, 30775, 146250, 28839, 88934, 44510, 115061, 187142, 152117,
       50824, 67430, 199552, 118083, 23864, 195463, 44804, 258627, 175519, 1132, 252437, 35033, 67766, 236438, 200936,
       68785, 1144, 218723, 15706, 237504, 42102, 30797, 38140, 182779, 102694, 87582, 157471, 4817, 172869, 194202,
       64163, 63406, 185665, 69521, 171324, 197099, 90270, 227335, 188157, 4909, 122652, 28965, 76761, 218991, 2226,
       406, 17262, 73628, 34757, 120312, 238551, 65494, 161143, 74241, 119443, 122541, 153441, 16592, 99710, 906,
       22189, 16965, 25987, 87719, 247578, 260957, 49133, 228571, 241945, 81713, 23591, 21403, 130738, 81944, 210964,
       129351, 63542, 194019, 46361, 248064, 167009, 66050, 132114, 110907, 118579, 143778, 160005, 12080, 157246, 91275,
       59284, 98902, 172778, 49489, 214485, 219345, 38650, 229317, 226044, 130312, 87678, 4066, 96147, 202652, 241703,
       50953, 221717, 253673, 108661, 146114, 253819, 64181, 135044, 38014, 114402, 220562, 42721, 34914, 246186, 98278,
       29307, 191104, 11764, 32412, 94341, 145047, 70579, 190335, 237688, 38183, 7551, 48568, 19283, 71104, 13777,
       130367, 228205, 95782, 118021, 153088, 194167, 83232, 91804, 180400, 116856, 80627, 231104, 122612, 254785, 204922,
       88618, 227024, 247855, 67984, 103796, 158726, 115605, 193700, 158180, 74422, 75492, 16692, 16620, 197, 99479,
       48084, 144098, 118171, 58447, 196866, 114586, 122600, 180271, 249727, 86400, 198764, 108676, 114724, 99801, 12451,
       99299, 15574, 164714, 40614, 22575, 103789, 94202, 163876, 108544, 25598, 85717, 179260, 53496, 127882, 159168,
       105656, 18848, 118766, 80206, 204239, 41092, 108188, 122678, 54288, 33384, 133154, 246443, 98271, 20699, 239948,
       26519, 15388, 161001, 71474, 28438, 150548, 56824, 64582, 244120, 72938, 105809, 29703, 17764, 166973, 191535,
       47346, 225469, 224279, 87412, 109817, 46832, 73207, 196147, 25004, 71954, 147912, 40412, 66955, 137483, 85460,
       123716, 231454, 115102, 122495, 241027, 228080, 47204, 241663, 235895, 46123, 152819, 9858, 72731, 170524, 172331,
       12531, 80445, 94332, 39715, 182002, 32168, 30260, 71718, 153438, 29280, 34238, 40364, 83690, 51456, 74358,
       50377, 148641, 188297, 22434, 224638, 161928, 116335, 214136, 152691, 114576, 109268, 71588, 113044, 194068, 175110,
       51215, 189024, 156507, 7468, 210802, 48724, 13990, 233247, 190106, 36182, 45589, 243960, 28831, 238125, 257231,
       114555, 11325, 185654, 129283, 246263, 81659, 107043, 13177, 198471, 95662, 198018, 166197, 77152, 37556, 259926,
       100913, 110255, 45167, 124129, 144256, 186388, 78819, 117590, 261784, 20265, 122452, 196407, 21477, 62222, 202885,
       76528, 17126, 80036, 43708, 101828, 252968, 119307, 247455, 150960, 80169, 48229, 104051, 88669, 62869, 29157,
       762, 244348, 47969, 65385, 20294, 33385, 56513, 163148, 113933, 92520, 9439, 227227, 50153, 56226, 140631,
       128001, 168448, 95461, 87844, 228435, 178040, 86496, 213847, 6825, 120499, 231348, 215456, 130443, 127923, 82852,
       25928, 197494, 215912, 106238, 52467, 118156, 21275, 141791, 76196, 59905, 157149, 196593, 13131, 131417, 40886,
       81706, 126062, 88066, 61409, 160619, 66650, 82404, 217200, 185682, 88861, 176099, 167238, 81190, 58687, 203135,
       38538, 258253, 94879, 109701, 238723, 155774, 72310, 160831, 200684, 64205, 202630, 258790, 129376, 111922, 8665,
       37159, 248603, 181901, 69209, 259030, 150318, 89433, 169651, 6930, 16413, 160820, 124419, 46430, 238321, 59624,
       105078, 247302, 64483, 31032, 98389, 83814, 64656, 145413, 142390, 82658, 3876, 112245, 87970, 155182, 26298,
       95461, 27855, 116844, 113505, 99326, 57188, 51492, 228830, 8910, 92619, 172962, 155725, 95967, 156089, 17930,
       39357, 139141, 220770, 126898, 104556, 44869, 113406, 1969, 51182, 37992, 184569, 30899, 88482, 157703, 104038,
       94083, 148048, 106364, 56555, 110932, 129842, 113212, 146794, 12640, 90469, 194464, 126979, 86265, 170627, 136527,
       28945, 259332, 208309, 53456, 185449, 97531, 56875, 23198, 151746, 96162, 112001, 61637, 81054, 55007, 64969,
       11253, 240998, 10614, 40330, 153603, 56366, 62003, 74056, 244847, 96565, 15906, 191939, 97461, 24384, 15456,
       64296, 129116, 182067, 15326, 147117, 58680, 38391, 114002, 258872, 33383, 10466, 87018, 102370, 181836, 180718,
       23591, 43555, 14405, 60938, 40491, 60174, 87912, 119279, 66176, 126456, 118132, 113378, 130972, 120935, 52500,
       124901, 107793, 167411, 94141, 120763, 191415, 97837, 129201, 217853, 99511, 48736, 49697, 113063, 90801, 23977,
       124752, 111198, 17734, 58419, 156178, 190959, 54592, 239548, 249938, 60353, 261623, 23994, 86483, 145829, 252280,
       101639, 46918, 202919, 114103, 260677, 26107, 59796, 119533, 214503, 47627, 256077, 168379, 128889, 260548, 172284,
       30393, 255396, 153678, 29098, 161943, 185090, 93769, 232238, 93105, 23548, 10760, 212134, 52351, 88189, 26567,
       38323, 190204, 253913, 22113, 56882, 30024, 75983, 101513, 115145, 48956, 235435, 202034, 60585, 251003, 215350,
       25672, 40833, 203175, 100645, 219561, 71890, 41249, 246992, 161430, 44920, 198485, 84313, 33050, 84966, 56219,
       56938, 38012, 35290, 60761, 240041, 115509, 69424, 131611, 70120, 126821, 28798, 19581, 118579, 200452, 32309,
       79874, 81508, 26826, 5099, 40717, 248500, 80250, 49125, 164389, 11753, 11436, 62419, 93106, 62922, 188834,
       51128, 67447, 190302, 109798, 145370, 22497, 123539, 50655, 130650, 54671, 127579, 90562, 60365, 236896, 124480,
       77351, 215938, 28736, 25838, 152074, 213472, 121547, 97022, 240303, 56754, 43611, 249140, 21865, 124536, 140479,
       99972, 206273, 57098, 28724, 159564, 42849, 18812, 175411, 161911, 73776, 201504, 164424, 88014, 59271, 45201,
       74653, 190721, 106839, 86050, 42933, 167063, 15141, 252534, 30333, 62392, 166792, 38441, 46795, 38723, 99716,
       127581, 97325, 165880, 6504, 80819, 51735, 39098, 4661, 217585, 123451, 199623, 184026, 128908, 212788, 36743,
       108121, 131996, 222003, 9961, 63396, 217906, 73577, 242817, 116725, 52444, 241407, 46775, 105703, 92000, 56573,
       7212, 35810, 34134, 25838, 15659, 84519, 64119, 203350, 85454, 20663, 50981, 56094, 90795, 146586, 138379,
       107579, 157603, 103250, 92342, 217972, 25433, 57708, 227256, 94693, 115132, 7390, 31202, 18046, 208838, 209501,
       34123, 25917, 226902, 64164, 247890, 5822, 8039, 202593, 91959, 12541, 190516, 43034, 52093, 182876, 124905,
       123717, 16956, 246334, 119067, 157182, 237589, 61076, 67272, 134240, 18633, 1244, 43088, 23344, 242924, 18246,
       49485, 187818, 62981, 27534, 221485, 13107, 10875, 203714, 47886, 88313, 94979, 261235, 76211, 166684, 258734,
       38180, 222471, 150371, 102098, 84514, 176671, 101705, 45248, 134502, 64356, 159970, 179051, 12652, 187463, 100430,
       120385, 162846, 130170, 87642, 176197, 230078, 32381, 116645, 173308, 80013, 130649, 170912, 53086, 256246, 13993,
       83276, 143649, 139086, 62111, 54013, 138329, 63631, 211203, 49186, 96453, 140915, 166041, 80442, 68416, 121586,
       10479, 146576, 254038, 8568, 168984, 187960, 39978, 44768, 55222, 56393, 53282, 249235, 36073, 254614, 97430,
       85388, 38408, 140718, 25573, 48975, 160950, 92293, 47654, 86261, 101338, 108538, 86177, 16294, 204547, 20308,
       85302, 124762, 55890, 126017, 88141, 133870, 25273, 210600, 75402, 119184, 36878, 113445, 79435, 240335, 135829,
       77456, 85367, 112746, 6805, 159859, 238492, 98081, 56122, 15259, 62688, 53885, 118481, 94525, 201821, 41084,
       106060, 258366, 197899, 68655, 10027, 46854, 34556, 101562, 118988, 18556, 49700, 95158, 21037, 122155, 888,
       113630, 225171, 191434, 16197, 164665, 229596, 50422, 162933, 157384, 43814, 12173, 143351, 113437, 1350, 66589,
       62612, 63575, 249007, 130606, 58933, 213109, 96607, 62837, 227716, 111532, 66814, 14254, 12933, 44892, 223935,
       33174, 162215, 66211, 17753, 53410, 206826, 60767, 225225, 88958, 94147, 98998, 65829, 22159, 131075, 4092,
       17061, 118351, 41831, 80557, 261598, 204412, 30187, 145034, 32730, 62826, 25114, 178616, 6700, 26950, 181152,
       89209, 74056, 143352, 70951, 110303, 139828, 84859, 3725, 175826, 36098, 17051, 191587, 36517, 12893, 253902,
       105035, 243215, 115201, 94183, 104723, 69090, 75986, 50795, 161986, 82332, 5677, 114932, 12326, 146458, 181197,
       112220, 22339, 35218, 100913, 66749, 252672, 77396, 237586, 181583, 120402, 26482, 195515, 22103, 185555, 125386,
       90001, 145988, 154337, 126219, 248397, 73347, 40633, 129762, 93602, 2004, 103334, 105097, 96320, 143820, 56176,
       914, 242506, 9510, 114364, 191487, 46021, 7379, 135716, 18211, 85559, 46838, 67081, 49438, 73446, 245727,
       26652, 69773, 74718, 117736, 137621, 219125, 97811, 245446, 108070, 44622, 59214, 140566, 37244, 134791, 8457,
       96470, 158183, 2150, 109651, 785, 123667, 93827, 249575, 213736, 83884, 175034, 148675, 29874, 144069, 21043,
       111778, 189712, 148854, 98259, 182320, 17224, 67800, 46060, 227284, 67054, 217887, 198487, 74602, 169633, 152780,
       108563, 221128, 96807, 97289, 116283, 54577, 112229, 194994, 233385, 66490, 148752, 206461, 81874, 383, 179492,
       112010, 114261, 161186, 30450, 171685, 81253, 58198, 177891, 153417, 81350, 34080, 32944, 119950, 13171, 73075,
       2075, 172396, 88503, 27862, 101970, 233722, 30729, 235130, 241878, 42809, 203745, 122287, 36934, 88057, 67490,
       77350, 175872, 190782, 116080, 5053, 50351, 83489, 251549, 120792, 31657, 96766, 156004, 113213, 213271, 5881,
       82843, 132559, 184720, 28699, 210671, 22443, 47404, 93417, 131491, 103542, 70031, 132805, 96853, 49235, 223968,
       75573, 210851, 213747, 18974, 253262, 92911, 105288, 192617, 141801, 40310, 56178, 27681, 101134, 232013, 78445,
       84877, 214615, 133118, 34625, 85761, 228631, 27835, 172876, 13681, 17158, 163960, 238597, 31712, 98860, 75992,
       20686, 253134, 60201, 80878, 37001, 166481, 78483, 183755, 61197, 76830, 195104, 208267, 84133, 204754, 13338,
       106795, 114933, 82656, 119741, 47450, 59826, 30195, 205128, 181355, 77040, 203941, 154370, 10267, 179618, 208145,
       15747, 81180, 207570, 85765, 147437, 65601, 63777, 22906, 167346, 99396, 27075, 181037, 55794, 104539, 258297,
       16724, 151618, 249922, 114301, 214044, 127298, 10864, 93766, 72559, 24767, 255230, 83459, 36303, 239016, 114768,
       130453, 110029, 134290, 54638, 170485, 99178, 65759, 246548, 58139, 100885, 181546, 42407, 83416, 69101, 146595,
       110286, 181648, 137820, 63757, 211362, 136680, 127425, 71789, 124354, 104439, 207056, 129435, 52607, 200324, 108663,
       49974, 15827, 128225, 121830, 70653, 262083, 89707, 190373, 147339, 81452, 144007, 98638, 99330, 98909, 125936,
       73509, 160305, 220801, 20862, 80552, 27366, 41840, 54800, 9206, 73130, 248820, 212237, 2381, 76709, 202934,
       57324, 113141, 156465, 99064, 155973, 184097, 21526, 125682, 80753, 8461, 228252, 184558, 109580, 3023, 112086,
       80907, 84013, 210859, 23144, 146560, 7406, 105684, 1681, 171403, 86262, 90724, 149614, 43793, 178496, 216945,
       49308, 209127, 163141, 20432, 150293, 203180, 109478, 162855, 110282, 66716, 136274, 13289, 73009, 158443, 120879,
       115801, 13712, 114781, 2074, 249183, 139582, 8771, 193895, 22445, 21178, 125910, 123486, 3937, 30470, 224282,
       86265, 221186, 236663, 83083, 222731, 209107, 27630, 59512, 30534, 19583, 404, 209674, 19095, 48543, 226496,
       124943, 67771, 44853, 90899, 6704, 149235, 76733, 85827, 37978, 42268, 261950, 88551, 56759, 219686, 49298,
       11718, 159294, 148181, 130829, 200349, 24923, 98970, 147293, 210073, 81455, 28356, 153507, 77039, 215433, 84728,
       66101, 129334, 73931, 33741, 138359, 170339, 29673, 116119, 236562, 72028, 83421, 195536, 9201, 94677, 113169,
       9761, 9581, 46881, 73506, 251813, 211028, 120561, 158540, 62396, 119835, 115362, 12805, 1419, 75241, 176912,
       14076, 98207, 231459, 76425, 41805, 200694, 111211, 107428, 225379, 125101, 144359, 27576, 112798, 61219, 22023,
       88816, 28539, 132752, 26283, 58450, 49556, 9518, 168253, 213822, 6227, 259173, 112590, 80226, 33636, 224348,
       4743, 81973, 228287, 96893, 172903, 85991, 93384, 252834, 61694, 10434, 196614, 153978, 118832, 211453, 63348,
       68410, 82763, 199687, 118546, 149919, 171235, 118175, 218440, 154279, 25825, 170084, 195345, 49883, 18572, 158543,
       17645, 194716, 166262, 101577, 240581, 62189, 66076, 173258, 175913, 121740, 174724, 206573, 27291, 48403, 101133,
       90225, 190350, 207772, 129661, 65402, 68302, 87212, 223543, 36430, 9014, 88322, 157730, 77125, 250704, 232597,
       23572, 91458, 112462, 3998, 15739, 163844, 43903, 253890, 254280, 34878, 208240, 103348, 103385, 204275, 157683,
       48979, 14648, 172021, 96070, 97848, 147776, 2128, 125082, 193747, 1941, 119525, 116188, 3842, 45483, 260974,
       28751, 196524, 121012, 49019, 85710, 107271, 79671, 148139, 47700, 129225, 184770, 103025, 46453, 44765, 191006,
       7295, 84994, 6590, 25545, 250082, 188603, 117683, 61751, 28227, 91669, 7657, 130810, 103573, 53060, 37466,
       16274, 255604, 141864, 17693, 3823, 19436, 14712, 80924, 24951, 112350, 229822, 207744, 27520, 229220, 122382,
       84299, 48646, 44509, 67654, 251120, 109593, 71354, 71966, 43041, 25616, 27078, 47262, 83262, 255842, 97821,
       5649, 71631, 133491, 130216, 104384, 19278, 3507, 90018, 27249, 6574, 30960, 115596, 42552, 48921, 85042,
       109002, 209356, 114362, 33710, 79787, 189014, 61857, 122192, 149031, 2356, 85131, 201557, 10338, 228005, 6471,
       79687, 85436, 127267, 25474, 249903, 232597, 90997, 87578, 36978, 102942, 207642, 33110, 111455, 1099, 60392,
       17537, 90919, 122769, 59704, 109193, 32569, 124135, 225391, 231273, 101198, 140004, 163850, 15330, 60599, 171713,
       65863, 186676, 180335, 120898, 70155, 185103, 57676, 200885, 142580, 109762, 216, 139422, 64991, 59827, 119109,
       14000, 5284, 212692, 19379, 167999, 216179, 6117, 231806, 162135, 25600, 76985, 154715, 117127, 206385, 132105,
       85222, 198777, 260871, 96843, 119581, 251458, 81482, 107655, 226508, 50664, 125330, 216412, 28424, 110729, 15393,
       121322, 40568, 47957, 67479, 201622, 101767, 63058, 189695, 47363, 130561, 93087, 96816, 50322, 123584, 172316,
       111951, 239409, 47959, 113029, 42119, 179828, 30496, 144129, 241534, 12430, 217096, 13941, 127876, 125778, 145485,
       55823, 40311, 117892, 291, 5779, 95166, 65407, 69603, 86276, 81172, 245701, 149324, 101723, 115020, 208168,
       123593, 81086, 87018, 119953, 64140, 168851, 123225, 126407, 123315, 4210, 185449, 59951, 93293, 172823, 137544,
       29603, 171678, 87259, 24582, 237454, 157709, 104899, 93172, 32113, 54674, 5929, 132465, 120140, 158631, 254288,
       5562, 13689, 95107, 105143, 116833, 1087, 17935, 41931, 107294, 23144, 85711, 138010, 62567, 116406, 245825,
       51850, 200469, 105377, 63723, 151128, 91315, 123211, 40971, 253767, 86165, 74071, 257526, 38051, 113061, 227266,
       22663, 128644, 206814, 55056, 80051, 249515, 59197, 129165, 45670, 78812, 225678, 75583, 34865, 132738, 211575,
       100598, 254813, 70068, 12905, 99954, 84045, 73459, 194844, 205537, 81727, 141781, 166242, 27109, 217315, 167294,
       108266, 251588, 43339, 80665, 241045, 104338, 84636, 26769, 186092, 65240, 62072, 105604, 119222, 87355, 58920,
       90954, 124770, 66526, 50047, 249341, 109022, 31274, 144421, 85346, 9314, 51338, 242985, 21674, 46045, 217737,
       130112, 246387, 253868, 53315, 196763, 9496, 117792, 191955, 239874, 22356, 227212, 46060, 55752, 235963, 67136,
       125897, 20056, 236383, 11944, 232379, 171427, 77854, 185610, 131453, 120477, 183335, 37281, 124476, 235683, 38750,
       110887, 233842, 244413, 112189, 9940, 15028, 85482, 242263, 142990, 28891, 78020, 106254, 95771, 130595, 160666,
       128238, 211950, 30808, 68935, 41323, 31580, 34170, 32571, 29065, 75165, 262090, 6009, 90519, 178418, 172715,
       27299, 187883, 7581, 94265, 153660, 239171, 76995, 262060, 8905, 80261, 243083, 261002, 40106, 117945, 164277,
       20351, 34428, 171654, 81716, 216184, 67991, 76838, 191457, 255053, 44303, 244703, 10916, 38783, 98249, 163750,
       45514, 6836, 118774, 64209, 259245, 173498, 127771, 150030, 100287, 100081, 246975, 231017, 111639, 60579, 92994,
       66276, 131149, 109397, 68960, 19409, 247983, 26781, 63445, 27905, 94508, 241134, 167984, 55257, 225131, 26124,
       97313, 260749, 31455, 53615, 185319, 242296, 14223, 148049, 26518, 22682, 129227, 246550, 106374, 29693, 247320,
       33897, 99750, 234757, 34649, 121339, 217112, 121814, 35204, 12578, 86197, 161575, 47623, 14982, 136236, 249704,
       18820, 2235, 60782, 35699, 195072, 60986, 77856, 53161, 116210, 98674, 89126, 190205, 35978, 209147, 261713,
       114116, 207913, 199399, 14310, 121741, 112927, 27210, 114859, 99121, 127200, 203985, 207362, 17661, 73077, 149818,
       116406, 137711, 13757, 92266, 46714, 247220, 9579, 175936, 138240, 63400, 110487, 214175, 68023, 173480, 117814,
       122177, 106369, 233867, 55195, 5563, 182091, 58558, 52587, 182001, 14743, 123393, 28895, 83777, 164163, 189259,
       27642, 180466, 39784, 10162, 115139, 100965, 130668, 43824, 136487, 35340, 234513, 16558, 18488, 31577, 210765,
       91683, 157910, 24456, 107699, 137243, 34270, 8398, 200587, 25845, 13814, 29254, 104874, 11819, 69049, 241509,
       6155, 13056, 27535, 86436, 73286, 250760, 77111, 101293, 232808, 86875, 103307, 253789, 66278, 211399, 102131,
       107152, 96296, 95692, 71652, 237959, 243724, 120421, 261682, 30688, 63654, 242339, 167865, 103633, 55585, 163495,
       53393, 140582, 17200, 57045, 174676, 5384, 111279, 22374, 232795, 14111, 49791, 165483, 74044, 235924, 173266,
       95202, 97912, 4282, 98359, 34315, 179178, 77528, 62807, 242707, 58728, 185615, 187112, 34181, 72478, 60147,
       119200, 82711, 199972, 48468, 221736, 123851, 104725, 128720, 28221, 4150, 124576, 172630, 30430, 231553, 192915,
       45296, 128443, 120041, 88024, 145654, 19211, 41855, 85866, 242440, 5421, 166750, 15062, 22789, 42746, 81273,
       33969, 84165, 120736, 23074, 234694, 246539, 26702, 153497, 153413, 100788, 189825, 208183, 54006, 19340, 249424,
       53107, 171430, 244782, 126695, 6752, 123436, 58550, 27080, 70112, 121590, 1768, 199376, 39198, 209298, 65175,
       52510, 232033, 172427, 51941, 170930, 18608, 71575, 169006, 166232, 76578, 120823, 250242, 32522, 63912, 116591,
       104016, 176913, 78012, 65080, 170375, 161485, 923, 55744, 22867, 77508, 52295, 33700, 104603, 64781, 13978,
       32829, 46205, 59135, 4963, 217301, 106917, 105798, 136512, 102969, 127962, 142007, 145583, 10035, 90728, 103393,
       122950, 94479, 69679, 47090, 213837, 213526, 123396, 97616, 94113, 85044, 175079, 155728, 116686, 26875, 85859,
       103000, 185141, 183646, 3669, 188782, 55388, 8577, 178170, 9459, 68910, 104040, 68327, 16989, 111193, 101659,
       60428, 178204, 33991, 125125, 79296, 220419, 38634, 111986, 113619, 64082, 201123, 130473, 50365, 177794, 137188,
       82552, 178220, 178653, 25407, 168493, 39496, 34070, 199920, 151419, 112560, 110051, 187931, 106343, 120988, 84490,
       103440, 175872, 83500, 101045, 255598, 242138, 60219, 102535, 206980, 95537, 44915, 14700, 50751, 186092, 239877,
       13200, 54026, 121020, 51560, 105127, 173460, 20796, 74064, 89684, 51229, 186511, 59277, 38984, 30887, 239819,
       78533, 49008, 222889, 47387, 216357, 257908, 92483, 12676, 229051, 67128, 23534, 219356, 120519, 181385, 48582,
       11930, 232223, 123888, 90139, 109778, 258404, 88132, 105784, 200983, 124600, 137054, 203304, 48700, 12141, 199707,
       40034, 95830, 252446, 22595, 249959, 141464, 34771, 234955, 168569, 65783, 216889, 47161, 109800, 187000, 111975,
       37262, 3589, 32032, 20675, 150657, 252307, 35668, 110876, 155266, 13228, 183624, 66165, 121463, 215379, 43932,
       114376, 155413, 21567, 40434, 164188, 79937, 32373, 49023, 131778, 118672, 62062, 94484, 232, 66375, 206800,
       78718, 235339, 126581, 120062, 116642, 51709, 66657, 169655, 238379, 388, 232083, 155149, 28687, 240121, 237014,
       120906, 69361, 232721, 2231, 42777, 54539, 51744, 150338, 239035, 103513, 110302, 80974, 109850, 68871, 155676,
       62601, 7063, 157935, 30472, 28916, 92243, 78604, 130221, 197060, 34573, 239639, 140228, 33457, 261311, 115694,
       105853, 187744, 99634, 20219, 244203, 239234, 723, 186441, 77848, 44141, 210041, 38640, 64352, 245951, 34455,
       92416, 77889, 243854, 102382, 88878, 140582, 86968, 207104, 181740, 82117, 202364, 240707, 87261, 4333, 190335,
       35589, 137288, 15916, 50116, 226315, 27499, 80797, 148126, 217686, 8594, 125198, 99483, 38708, 231809, 201728,
       53270, 37729, 176057, 69919, 35961, 185730, 63764, 47913, 166700, 94126, 257303, 24033, 62052, 257215, 194422,
       118506, 32830, 233489, 49849, 22476, 238175, 68861, 136386, 42599, 420, 207666, 205780, 40694, 253416, 136935,
       113583, 118825, 75386, 43722, 137676, 18169, 33185, 167531, 172132, 71242, 124974, 223393, 10319, 81648, 41024,
       69678, 143606, 155691, 39802, 21890, 238935, 50214, 16248, 28488, 103725, 208102, 161345, 86764, 248472, 160167,
       58472, 4676, 27757, 75696, 57196, 222952, 100513, 186326, 3461, 97751, 96220, 12637, 24290, 127728, 117628,
       39442, 22089, 208348, 45644, 29102, 17801, 24581, 142353, 133047, 1594, 6841, 217862, 22802, 62352, 46955,
       105938, 52543, 246446, 71554, 232103, 153556, 44781, 209954, 159021, 79736, 242005, 119121, 96971, 141158, 166168,
       46455, 146374, 248280, 61089, 94799, 12788, 8416, 145420, 144931, 78261, 223022, 70678, 46714, 259739, 176119,
       56822, 212739, 237003, 55391, 28362, 212719, 82891, 39398, 180024, 75034, 46718, 215426, 55326, 74421, 40209,
       2222, 86134, 116721, 81390, 212815, 11377, 115287, 256554, 53947, 100866, 173956, 170274, 128662, 84974, 13560,
       18228, 231395, 218333, 29166, 38891, 111202, 70682, 226807, 105314, 30917, 127530, 86938, 4528, 133413, 133821,
       52728, 191085, 132886, 37702, 44720, 121570, 34571, 173424, 147231, 124934, 70116, 116056, 31254, 172471, 171311,
       16964, 258466, 77732, 16425, 221714, 48675, 105686, 133420, 232225, 93696, 148589, 159216, 16972, 3833, 249545,
       28803, 126037, 159547, 97955, 194721, 71753, 35994, 136445, 41928, 128652, 179011, 154773, 70853, 157226, 174786,
       25166, 227723, 225789, 112565, 194445, 74433, 41874, 78316, 780, 37854, 146182, 200829, 42918, 98920, 75680,
       100689, 39247, 251954, 22703, 96402, 49681, 50041, 111618, 101861, 4041, 82102, 8476, 108347, 158332, 41254,
       44658, 180915, 98680, 32528, 136562, 167350, 76007, 201081, 103118, 92404, 182501, 68348, 106547, 238389, 259503,
       45584, 227639, 177501, 106469, 235151, 59246, 60932, 231337, 4565, 13256, 240986, 209764, 110927, 56196, 260796,
       71779, 153658, 86832, 78966, 233762, 207911, 122878, 224316, 260895, 73289, 27114, 155059, 731, 221389, 69574,
       114113, 94243, 236688, 37322, 234251, 241025, 65767, 155671, 224225, 26854, 235083, 31142, 38926, 60367, 185573,
       90000, 114770, 71268, 56305, 10031, 138345, 82199, 69733, 87902, 107947, 186911, 198633, 44672, 58744, 98438,
       74493, 122028, 246903, 101920, 94, 111475, 93732, 164396, 116534, 70758, 94068, 4864, 50250, 221123, 51706,
       53412, 26131, 159417, 56771, 235538, 41917, 45723, 230993, 114386, 91629, 63338, 66457, 16438, 112183, 109258,
       126806, 38406, 233077, 102103, 49208, 54334, 39080, 216943, 119193, 5576, 208404, 87398, 93231, 243639, 70335,
       96253, 238221, 88556, 126303, 247151, 56805, 33253, 182148, 207154, 10842, 247207, 232346, 119948, 142334, 175221,
       33901, 169414, 112914, 94572, 149386, 87282, 7950, 204485, 67279, 99691, 97401, 172334, 16649, 141135, 155353,
       91171, 234307, 16275, 69775, 70246, 69912, 125237, 194048, 153228, 4838, 227885, 78830, 38279, 108320, 102901,
       9110, 176373, 222182, 115238, 50448, 157559, 77843, 212864, 65281, 70119, 140779, 117385, 17230, 117659, 137671,
       64098, 114302, 206801, 52258, 232126, 54082, 41386, 59994, 121654, 101212, 91953, 154900, 8031, 150232, 237059,
       84762, 102670, 127148, 107871, 89806, 208472, 118922, 152090, 121036, 97768, 204448, 38109, 37022, 8058, 32536,
       78709, 187135, 164243, 18534, 14179, 80666, 15343, 97013, 17142, 83705, 194919, 96418, 111556, 100270, 135089,
       8814, 90788, 203760, 13894, 31766, 34524, 74135, 73662, 79075, 28601, 121909, 109814, 80192, 58979, 115574,
       28120, 180424, 63803, 15267, 137713, 195114, 71509, 158351, 81195, 113009, 168068, 252295, 89800, 80513, 68260,
       107311, 246737, 10633, 34909, 22014, 62315, 116126, 260514, 52247, 49419, 73056, 243096, 111732, 5431, 256393,
       61757, 242994, 235465, 35108, 167131, 45785, 34112, 169214, 11043, 74405, 95666, 179713, 10356, 8948, 181458,
       121904, 85337, 156986, 35581, 69024, 174163, 43991, 4226, 259849, 30579, 78971, 103979, 394, 68001, 232692,
       90773, 247631, 117109, 77404, 248995, 261965, 106121, 191148, 66205, 5375, 95446, 11799, 121720, 197307, 850,
       43370, 3409, 226036, 119677, 234099, 106118, 14041, 245790, 214104, 97507, 41537, 227357, 75937, 168325, 94879,
       46948, 219929, 208341, 10373, 92306, 19716, 79264, 6243, 238934, 3465, 138504, 235973, 65704, 12399, 57319,
       79194, 216647, 254773, 96013, 92433, 38327, 129936, 55883, 26918, 34091, 843, 75589, 42256, 73050, 235630,
       44714, 158045, 214326, 95890, 2414, 5637, 122135, 108823, 141893, 127706, 147457, 92041, 123969, 101564, 109540,
       115262, 128342, 94552, 129889, 101277, 22181, 49275, 251214, 157525, 124298, 97531, 249550, 99748, 107088, 196273,
       22080, 97178, 233666, 5959, 55864, 81956, 28112, 220548, 146121, 102072, 122516, 80920, 82797, 202798, 210489,
       29406, 215839, 171909, 97245, 33785, 63420, 18523, 101860, 177342, 107720, 103592, 256163, 104092, 70108, 112693,
       127477, 125208, 121492, 19697, 116154, 188827, 118831, 151625, 30071, 44709, 2186, 28903, 54533, 209347, 207713,
       61400, 8200, 149607, 82169, 148913, 230312, 130385, 163695, 85432, 78637, 209776, 145818, 121466, 131560, 68994,
       33427, 14812, 24252, 52220, 160782, 191008, 66125, 199838, 75694, 42323, 107375, 151156, 128039, 242462, 42074,
       95116, 208345, 227843, 62767, 245522, 80434, 98475, 2568, 56867, 61268, 163378, 147843, 2257, 198733, 174349,
       71197, 117007, 153479, 81944, 72612, 46067, 128608, 214639, 238657, 5346, 209769, 136406, 67121, 150053, 54323,
       12865, 89200, 19400, 19529, 50019, 231337, 80014, 170594, 55715, 30352, 11319, 249863, 98195, 196376, 46126,
       67397, 13378, 194309, 28601, 157098, 215262, 64722, 68882, 175217, 115, 149345, 229390, 113081, 16515, 178340,
       1661, 204534, 148600, 918, 209880, 5033, 80151, 11754, 171183, 127601, 87761, 241275, 112188, 239510, 213210,
       33032, 163292, 94744, 25777, 134288, 184378, 82065, 203355, 152957, 107824, 203103, 83768, 47458, 98448, 198757,
       56669, 152271, 56765, 15137, 115746, 56384, 20031, 69386, 13604, 74494, 256970, 33965, 13455, 90789, 205408,
       26482, 154578, 66961, 30759, 153850, 7652, 58186, 20032, 93550, 5978, 118321, 193657, 65505, 257111, 76154,
       121723, 55520, 198796, 3206, 131331, 150667, 82704, 117506, 182519, 109555, 139063, 130368, 40954, 227424, 61491,
       17238, 104525, 105014, 5680, 165843, 46915, 84397, 173488, 149141, 72382, 121814, 127250, 30054, 40034, 63605,
       109001, 194968, 138263, 96404, 75651, 250765, 36232, 19321, 138935, 98744, 209225, 197767, 32111, 231093, 146926,
       88508, 172166, 39735, 15537, 245268, 32063, 90733, 55296, 35056, 31296, 167941, 52868, 75034, 184339, 116184,
       22605, 48222, 252778, 95153, 246350, 65645, 7979, 159272, 26332, 21681, 167811, 250353, 24135, 35832, 96060,
       5418, 258601, 36264, 97650, 73536, 39692, 128575, 106614, 78216, 102026, 40612, 14478, 112804, 197273, 174063,
       787, 114309, 111939, 15449, 118460, 194160, 73271, 239576, 147341, 128171, 60415, 192814, 86600, 253047, 44748,
       49038, 221438, 185832, 19156, 21435, 2057, 20032, 125864, 73266, 47546, 206499, 198931, 93560, 138985, 39463,
       4170, 162034, 175946, 111696, 162861, 182004, 123411, 7806, 82969, 116498, 249329, 2925, 119672, 68961, 215190,
       2010, 144187, 148161, 128161, 50970, 73194, 48019, 41880, 232706, 113938, 108723, 70738, 24485, 108082, 15803,
       58527, 5804, 118320, 5788, 187366, 79302, 5252, 220478, 93412, 123637, 22303, 60810, 106247, 217557, 227681,
       69445, 94186, 159983, 68872, 223799, 1220, 98140, 200632, 176533, 44783, 55191, 72189, 99859, 191293, 61418,
       63571, 4818, 224491, 83613, 28792, 113240, 126462, 32947, 74834, 61776, 71501, 43055, 54841, 35536, 220224,
       118718, 93251, 172282, 118303, 8029, 101065, 130078, 79716, 56652, 72202, 187444, 221582, 45123, 12767, 219826,
       31508, 106525, 13864, 4469, 20368, 42215, 95253, 202960, 110786, 30602, 49556, 186558, 79513, 166227, 179700,
       120139, 155848, 7050, 124546, 104319, 206939, 578, 11817, 191703, 41559, 172625, 30670, 109756, 213143, 140664,
       70312, 247976, 169551, 105841, 205708, 84361, 111846, 206917, 166308, 58015, 236952, 177, 47052, 160341, 28204,
       59694, 143929, 151989, 85563, 45298, 14506, 48124, 74576, 159276, 101579, 69461, 240867, 118488, 37605, 150673,
       37003, 24612, 138779, 126483, 32149, 172041, 81621, 221128, 165130, 115103, 88390, 15296, 13620, 140248, 22217,
       32964, 129733, 7900, 42076, 160636, 115364, 39691, 132382, 102556, 22526, 48632, 91077, 113796, 218783, 210485,
       54868, 86660, 98878, 126239, 105698, 176971, 76476, 233323, 227328, 18139, 173456, 76594, 71552, 215515, 197584,
       130225, 248932, 157516, 74078, 48069, 191953, 245, 4929, 149754, 122300, 170163, 211148, 30788, 20866, 175983,
       90246, 230698, 56659, 67512, 153634, 214410, 42655, 66421, 44087, 37046, 33461, 256077, 121734, 108186, 116332,
       119527, 249306, 212233, 67257, 159843, 197494, 33881, 126423, 254905, 13414, 45833, 125641, 20522, 204381, 169340,
       68452, 151570, 179218, 40347, 232939, 85592, 5513, 250489, 178236, 59659, 183376, 245379, 97804, 137086, 20146,
       116876, 68744, 107110, 76714, 91864, 166595, 94803, 90506, 225837, 47719, 116590, 113677, 65042, 243958, 27980,
       95633, 170743, 249268, 95375, 162313, 218810, 55643, 132788, 249695, 71259, 148319, 44581, 121091, 148652, 223114,
       82837, 49827, 13666, 84223, 141908, 132842, 102841, 196860, 153258, 15102, 129883, 110105, 68535, 128417, 206382,
       125754, 166864, 59485, 47403, 144421, 62661, 38656, 146764, 247859, 78801, 139058, 245633, 28982, 148168, 38414,
       72868, 221133, 28675, 20401, 162625, 136741, 75994, 180481, 15028, 78955, 11628, 99018, 54840, 154031, 237824,
       50167, 88991, 94518, 32172, 185458, 25990, 43374, 170061, 77872, 65319, 53113, 116171, 32461, 38659, 227100,
       102607, 177938, 238781, 92934, 174889, 169150, 35298, 120224, 27203, 12771, 5688, 3302, 23, 156780, 100926,
       78213, 34975, 21279, 27703, 227796, 164538, 1649, 54924, 186664, 47066, 6445, 90278, 126091, 16371, 169166,
       90432, 48151, 11502, 112428, 210781, 257566, 18971, 63723, 225163, 9606, 6554, 51738, 1511, 60073, 167504,
       125260, 148813, 61162, 39348, 45332, 27753, 60228, 60765, 166411, 51711, 102, 249635, 95742, 118341, 49735,
       40627, 187959, 43059, 70182, 230747, 2681, 130492, 251299, 181068, 58204, 78066, 249795, 72256, 69044, 44005,
       65867, 93895, 151621, 105275, 56654, 92574, 34975, 54298, 210049, 22339, 170826, 164486, 98840, 130663, 20834,
       54475, 237744, 159809, 119763, 234736, 124726, 84431, 64463, 46893, 73969, 152132, 52028, 9234, 248273, 261350,
       95736, 143977, 106738, 89920, 178988, 239163, 83895, 132982, 21205, 35115, 114576, 48354, 124091, 4291, 113169,
       42159, 257113, 150340, 19953, 56613, 150865, 129394, 112664, 40503, 97811, 260124, 206090, 54366, 248051, 54000,
       122672, 114931, 169953, 11942, 245496, 432, 11489, 244045, 114596, 89450, 57649, 13970, 23327, 39931, 29911,
       120211, 81404, 260992, 110147, 146196, 15129, 40156, 43200, 169657, 116501, 257353, 235398, 5621, 98280, 204597,
       71911, 15894, 220621, 122626, 21987, 124754, 112116, 198656, 175910, 46671, 63621, 164190, 23969, 50773, 237068,
       27595, 255853, 104186, 67437, 151151, 12805, 78220, 58535, 84517, 4301, 9989, 239301, 54205, 7856, 259315,
       108840, 131077, 178971, 58239, 22063, 112743, 22174, 41115, 85422, 125155, 117526, 33550, 34901, 70141, 175986,
       104651, 154568, 210325, 25400, 259252, 170518, 55466, 25156, 137976, 64280, 173836, 113406, 65619, 70650, 148880,
       67695, 68901, 222602, 29484, 84948, 163902, 67622, 20786, 147969, 63139, 14175, 201435, 27357, 73905, 146521,
       129524, 63986, 3515, 113451, 32773, 16851, 116336, 106818, 198350, 89859, 44227, 217898, 20958, 6188, 101927,
       74460, 252444, 139594, 107667, 192779, 215819, 5077, 70528, 167100, 64991, 38596, 141509, 51920, 162038, 53490,
       27803, 160580, 124886, 49577, 258079, 18699, 128908, 258407, 14060, 94796, 248846, 50519, 39260, 242260, 217073,
       79345, 25508, 164751, 32329, 190507, 13238, 80064, 139681, 199346, 117462, 94456, 214683, 72990, 250589, 61650,
       96120, 88411, 91677, 59420, 12907, 236728, 68697, 254315, 90727, 91104, 230876, 35291, 106483, 143870, 110029,
       86435, 160467, 112536, 128121, 217742, 230228, 107455, 206104, 242668, 101863, 247028, 91210, 110769, 40412, 45016,
       36858, 230615, 105166, 56629, 74596, 80053, 73985, 74354, 124747, 60605, 235806, 166045, 111077, 259824, 25030,
       3547, 242417, 122682, 27417, 10561, 35904, 115567, 10418, 46661, 7746, 97844, 24477, 29751, 212580, 155832,
       46039, 21837, 107382, 98401, 17507, 192753, 73424, 1103, 25431, 125121, 248408, 103436, 29868, 8906, 134067,
       114310, 148300, 211536, 37082, 9680, 147335, 32177, 248465, 101732, 65323, 8903, 208106, 9332, 240363, 61867,
       50371, 232995, 114501, 46619, 42072, 9412, 20984, 217870, 58384, 112826, 26728, 44294, 50579, 85820, 203200,
       128702, 63378, 91678, 117926, 136392, 143603, 25534, 59772, 133612, 66207, 97877, 106790, 78879, 176167, 14268,
       107342, 207366, 227676, 116082, 253357, 141046, 81791, 76039, 214885, 4605, 28907, 192593, 63081, 227224, 32213,
       115972, 254042, 116287, 93597, 39946, 191333, 114051, 64105, 223492, 88352, 258526, 7518, 5771, 198392, 72030,
       126878, 149013, 194423, 120326, 137926, 248343, 16591, 8770, 36582, 14770, 172129, 35611, 70658, 25484, 53523,
       99228, 43774, 170541, 50092, 54325, 119698, 17875, 231457, 106846, 66919, 159640, 82341, 44245, 122842, 99757,
       46107, 118949, 247265, 84539, 142680, 256785, 116078, 111354, 28190, 73215, 192766, 190896, 90125, 114373, 75017,
       86500, 149965, 109726, 72239, 218562, 203283, 40731, 181313, 251974, 49518, 62758, 122583, 41379, 243341, 239729,
       120258, 81396, 68531, 108346, 147424, 220941, 75936, 57371, 93347, 119569, 151054, 154596, 116183, 94431, 179652,
       121594, 199324, 244281, 29068, 89933, 237551, 94044, 146319, 213030, 79852, 71736, 195863, 96184, 170226, 110012,
       34521, 173011, 199913, 91070, 3830, 87276, 53717, 11311, 232426, 109326, 20951, 256803, 104250, 46223, 113539,
       27703, 16979, 51891, 24098, 73082, 208094, 94074, 139505, 199831, 72151, 221617, 3129, 73034, 24412, 36275,
       98633, 180479, 255411, 112062, 191832, 133742, 31321, 124880, 81858, 72815, 178120, 209872, 108652, 197049, 18145,
       114398, 230059, 98485, 37671, 84763, 214523, 13651, 171518, 185787, 30516, 159785, 59496, 123928, 134296, 159988,
       60618, 36927, 204954, 54863, 79659, 54275, 1714, 259983, 58493, 6686, 156374, 27290, 87647, 82016, 130570,
       77309, 213267, 197980, 75435, 169119, 178856, 14460, 62916, 54039, 46145, 94795, 209094, 106477, 106416, 207344,
       22925, 252691, 105466, 115695, 152924, 137800, 15922, 105849, 98995, 22170, 194248, 47892, 62619, 168534, 147921,
       123902, 91508, 38573, 43194, 124064, 225084, 86273, 248735, 200401, 77158, 83588, 143291, 19611, 88660, 23468,
       32527, 191915, 131257, 121916, 258006, 81661, 24225, 259111, 98672, 91096, 88151, 41475, 126444, 114091, 52321,
       15663, 233153, 125442, 52321, 152520, 14069, 29351, 61351, 62295, 29040, 134010, 114602, 15595, 186789, 85117,
       85137, 255010, 149788, 97824, 193077, 48987, 88708, 191725, 117426, 121196, 149740, 19863, 19094, 108217, 82381,
       41922, 202579, 189814, 45163, 222118, 27011, 30419, 122032, 19569, 18639, 22659, 227914, 63793, 51903, 163213,
       109371, 175879, 157516, 125113, 112961, 155326, 16952, 245195, 99429, 107892, 226544, 80560, 108079, 130272, 73002,
       50984, 36791, 110704, 14421, 210474, 96254, 129762, 86366, 102811, 85929, 233228, 223988, 128738, 92835, 210926,
       63393, 182387, 43250, 51798, 193170, 181152, 32399, 24826, 187261, 128918, 196454, 256016, 33194, 245582, 135738,
       3114, 165670, 145431, 67170, 68132, 200308, 49420, 199812, 197881, 34259, 243135, 210342, 83179, 93072, 131698,
       47745, 109023, 147566, 52723, 217168, 226319, 3020, 166040, 87012, 77210, 184745, 72844, 16000, 24647, 224581,
       28023, 217701, 118974, 93994, 17559, 73559, 41057, 91909, 93912, 21392, 75234, 254907, 75684, 36124, 113350,
       28167, 252172, 45828, 35517, 172087, 12853, 81440, 48768, 155555, 96975, 42836, 38413, 96948, 176752, 177543,
       63208, 159509, 150313, 59545, 158523, 176890, 103238, 60185, 305, 25301, 117306, 210996, 19949, 125620, 12349,
       87122, 238995, 71943, 53674, 234069, 130169, 93060, 240706, 229161, 33633, 27391, 96239, 42581, 159172, 150503,
       117529, 87250, 116211, 55267, 95494, 196436, 77457, 118799, 66642, 13983, 12726, 112539, 23439, 130353, 28629,
       4703, 229740, 253700, 55623, 34351, 38441, 129619, 189485, 86614, 114540, 79131, 242142, 82956, 167064, 34232,
       112865, 167613, 68459, 77878, 253198, 144760, 48335, 72006, 141891, 22747, 19368, 142163, 85596, 106084, 113482,
       25303, 161716, 103407, 54713, 46530, 95006, 108239, 130824, 70064, 16938, 89953, 131099, 16911, 25018, 172902,
       29412, 228960, 229242, 72340, 237313, 129315, 32993, 235862, 24523, 65955, 41951, 104623, 39581, 121843, 182545,
       66354, 46735, 129043, 36389, 185934, 112246, 128452, 47735, 81906, 64581, 136508, 122710, 97470, 218155, 10532,
       91822, 10110, 90447, 64298, 156860, 154953, 31308, 33592, 249297, 66940, 227048, 220607, 89256, 81963, 17373,
       60282, 141198, 249918, 10738, 22982, 197686, 2357, 25654, 164482, 42975, 122955, 233250, 19690, 39437, 47177,
       118776, 44017, 170600, 23046, 193916, 174294, 51679, 111120, 121210, 93333, 111060, 134339, 106878, 248465, 197159,
       62614, 214542, 40078, 23741, 190835, 112596, 35506, 204143, 54310, 54915, 8485, 104051, 47788, 37227, 161333,
       45701, 61768, 104489, 17282, 89523, 48529, 119709, 105217, 106414, 3900, 67611, 60880, 57671, 251371, 45637,
       128492, 183150, 244667, 86471, 88109, 26892, 46584, 101323, 17293, 19149, 79322, 2019, 126336, 186166, 18556,
       1833, 57782, 178676, 89310, 218013, 124449, 115361, 99262, 192549, 3297, 219081, 184023, 95050, 31401, 52318,
       130919, 173812, 207497, 83839, 57053, 63425, 54352, 209466, 161664, 114609, 118249, 228810, 72637, 100188, 14918,
       98230, 186297, 260758, 77041, 96473, 23761, 5018, 233327, 186339, 27937, 89101, 48808, 10323, 183283, 29708,
       13983, 204050, 145462, 2019, 59993, 30423, 55202, 245400, 181012, 23416, 59422, 23434, 112157, 223958, 152258,
       98308, 241204, 19941, 75127, 119292, 109297, 64097, 1514, 159111, 33537, 56218, 200896, 62252, 219816, 252335,
       84047, 53384, 158139, 102528, 78948, 32143, 10706, 60762, 9770, 92859, 231652, 69115, 97351, 23699, 161126,
       73265, 158418, 200067, 28091, 64387, 157859, 70672, 590, 156861, 65890, 140055, 128562, 62352, 71762, 227116,
       60376, 260833, 81286, 14526, 33718, 68697, 23972, 21961, 45208, 12757, 134085, 261923, 31782, 14110, 186892,
       34534, 112424, 175192, 32122, 152913, 55901, 27646, 234573, 16611, 96393, 62480, 240319, 107291, 1063, 75682,
       42874, 225243, 51105, 39993, 223894, 208529, 110629, 2135, 163694, 81778, 249990, 204037, 38461, 143682, 234940,
       93534, 154773, 121538, 45166, 122899, 27657, 76881, 4583, 20598, 130106, 138301, 145313, 39530, 151505, 179130,
       121965, 236968, 251582, 42028, 145029, 233249, 70816, 120302, 7312, 60290, 260904, 37794, 102650, 76062, 140255,
       8007, 142162, 103859, 82198, 45780, 140675, 99702, 36105, 3033, 61884, 254269, 75461, 13800, 239212, 189729,
       32087, 21686, 134451, 89086, 4428, 163615, 117366, 201586, 187901, 55261, 21846, 61269, 73454, 85527, 148747,
       29934, 231613, 26490, 54029, 163446, 29655, 44143, 187088, 813, 85921, 11697, 220564, 129066, 120846, 209896,
       106601, 81280, 5093, 25187, 103933, 172763, 75717, 128078, 213591, 8704, 187774, 51714, 32363, 185254, 241252,
       22572, 239923, 204470, 43980, 163763, 220684, 88973, 132264, 236671, 65456, 126047, 259490, 122278, 74056, 214028,
       27885, 109035, 76098, 47737, 162848, 135799, 43234, 114542, 157255, 30928, 58820, 91175, 130176, 230437, 241984,
       50754, 111854, 217434, 123274, 103046, 188905, 51180, 36481, 61029, 26750, 184684, 161223, 15624, 160478, 17628,
       112140, 99314, 209977, 4207, 26721, 77965, 126405, 33418, 223549, 54813, 41552, 196168, 32423, 223070, 55650,
       80929, 235783, 66425, 17421, 45001, 52293, 9456, 69368, 39133, 108499, 57540, 261828, 55662, 117380, 173571,
       67928, 185555, 220871, 23159, 235739, 161752, 8050, 261771, 104279, 48205, 40175, 239158, 66341, 157703, 189679,
       100326, 136962, 153243, 65673, 232724, 223765, 102564, 199182, 212749, 15130, 1388, 183609, 8383, 190960, 189321,
       20822, 58796, 224717, 101189, 45480, 214940, 99526, 244322, 139153, 18529, 94600, 168876, 4061, 195405, 227730,
       89821, 71812, 148494, 112103, 129471, 38061, 98842, 105871, 6624, 26581, 70251, 60605, 76515, 164056, 78655,
       99269, 115273, 153453, 33531, 256891, 68328, 69169, 110330, 106352, 41216, 250103, 166287, 29566, 162817, 159609,
       127086, 3208, 65995, 119613, 247126, 65884, 58414, 147018, 145047, 17927, 202904, 167918, 95408, 69746, 66560,
       33515, 67771, 159271, 22087, 253190, 248080, 50007, 202221, 74463, 69448, 124305, 79661, 12771, 183215, 31739,
       74939, 250010, 202935, 2011, 194557, 57066, 116899, 16124, 129079, 120683, 119196, 34657, 96085, 13743, 24799,
       61151, 147870, 92767, 33409, 200271, 140067, 97532, 68145, 81020, 122132, 137063, 28145, 20779, 86446, 205978,
       61056, 57614, 86560, 41321, 255107, 173574, 46758, 225384, 144104, 53183, 126855, 9468, 124753, 222940, 57152,
       33900, 23820, 49334, 64576, 1987, 127862, 124713, 95914, 191085, 62397, 191028, 48518, 113193, 187835, 249304,
       7702, 109183, 18669, 124915, 158075, 37315, 24580, 21627, 174601, 128442, 11763, 1027, 23013, 55281, 198525,
       58243, 244713, 231646, 40450, 188387, 1565, 56784, 133385, 163198, 32836, 204134, 144782, 126526, 21989, 23207,
       40071, 258241, 81893, 85626, 12916, 237216, 18015, 135621, 249764, 108054, 30517, 77482, 71107, 157593, 143813,
       128377, 252296, 117325, 55496, 45970, 217065, 25617, 195000, 204374, 45353, 105459, 39147, 96595, 145731, 153881,
       86390, 107458, 15990, 102019, 144549, 40917, 9629, 235441, 250907, 76070, 25197, 210615, 122181, 55793, 212892,
       14142, 241274, 207618, 12364, 186399, 33422, 93926, 201134, 67476, 41311, 155936, 259651, 86321, 77138, 158544,
       71484, 167482, 96849, 129245, 191113, 253546, 116530, 105560, 251918, 88876, 93224, 241809, 34298, 56778, 117565,
       34328, 216695, 244804, 115637, 120436, 88854, 76721, 216034, 238266, 103452, 194441, 246162, 58964, 157621, 192256,
       13510, 17747, 258146, 43605, 230543, 180908, 21122, 38585, 252224, 102476, 102475, 235099, 91817, 133040, 69400,
       11588, 120209, 158169, 81446, 59503, 40225, 114574, 180662, 136369, 91404, 244561, 33428, 66992, 120758, 239259,
       40876, 142733, 22335, 116273, 142910, 229267, 55417, 231083, 20583, 112118, 38626, 130989, 102629, 93007, 95310,
       106984, 131279, 250861, 129734, 194134, 12942, 98141, 72402, 54273, 4461, 213261, 24816, 26926, 166913, 222067,
       4613, 25884, 260855, 24892, 92127, 191197, 8052, 262024, 165883, 65747, 248728, 23575, 3697, 11735, 158492,
       61941, 232716, 253054, 117812, 229475, 26057, 98117, 93092, 165447, 123726, 50023, 156794, 29707, 12040, 59069,
       69610, 125862, 168185, 41756, 221796, 52096, 64725, 248580, 240518, 73017, 11307, 171103, 4742, 259127, 183773,
       30573, 91266, 188128, 92375, 256303, 186639, 101309, 58204, 131014, 74639, 33984, 44678, 35498, 26830, 203500,
       53095, 48587, 164029, 12587, 193201, 246732, 124935, 41610, 184536, 113859, 76940, 252013, 8598, 165364, 17620,
       21822, 69344, 192518, 76165, 55206, 90370, 30465, 19575, 245027, 122473, 201402, 168303, 99036, 201488, 14488,
       35820, 226801, 214879, 799, 189836, 47277, 104785, 44160, 187264, 55586, 75082, 118938, 84197, 191744, 227465,
       37614, 95503, 177801, 18726, 179267, 86550, 88514, 115594, 166682, 59024, 247573, 103956, 30824, 42744, 221594,
       18039, 46441, 53991, 76084, 162896, 256186, 95099, 73862, 118043, 37209, 165648, 166872, 96356, 157913, 187530,
       24002, 50549, 217827, 44356, 215341, 171406, 97633, 55337, 105909, 86526, 86876, 105988, 35458, 19090, 204703,
       16008, 125546, 190814, 5567, 20120, 204503, 109827, 57268, 157890, 9849, 1471, 160726, 15052, 257894, 168984,
       31157, 54455, 144925, 58414, 214820, 59012, 103518, 254851, 92439, 32437, 194322, 147788, 71238, 186942, 128723,
       11845, 80533, 77540, 60884, 101309, 143575, 23283, 130584, 104647, 27681, 78645, 2590, 48080, 245501, 242730,
       99791, 95830, 115436, 97515, 206920, 187285, 54391, 88597, 216482, 15554, 122033, 230620, 36790, 212866, 29587,
       66237, 260136, 87300, 113955, 141730, 5753, 126911, 18054, 155884, 83554, 154768, 164101, 45965, 47102, 178999,
       90892, 86791, 85159, 44070, 93418, 61046, 81982, 14807, 137372, 31950, 254826, 85921, 34994, 194785, 136909,
       9859, 253862, 8304, 55068, 194275, 176883, 81025, 97176, 65825, 103388, 244023, 87609, 106214, 1171, 134394,
       130081, 177965, 220184, 11502, 83492, 13618, 64636, 110759, 115258, 68337, 159474, 145231, 105451, 211094, 171696,
       34912, 37579, 189172, 9092, 201515, 26549, 41124, 260775, 125266, 128965, 101819, 168357, 117891, 145930, 171263,
       51805, 212248, 229130, 114854, 189640, 22205, 4293, 51312, 164418, 41183, 93543, 217248, 95264, 178923, 161118,
       29026, 49661, 247267, 26003, 130755, 178897, 112958, 219850, 236979, 80734, 83253, 86553, 129633, 48689, 54975,
       17651, 111099, 14365, 46678, 121265, 247327, 40791, 94127, 209114, 115360, 181577, 69237, 33462, 59106, 246078,
       46328, 220171, 98760, 18721, 136774, 77366, 101633, 93742, 30455, 31156, 64182, 10642, 8954, 229303, 33973,
       57030, 149896, 233638, 51309, 52225, 90818, 23279, 155615, 178615, 17510, 235764, 165230, 117513, 143411, 207615,
       8892, 134359, 160321, 13016, 232185, 42292, 32118, 219475, 184909, 124890, 141103, 98185, 11191, 126970, 65602,
       106956, 182287, 77144, 116923, 15686, 169325, 49527, 230845, 251525, 38521, 85662, 11138, 88785, 66479, 61536,
       92095, 189365, 71154, 102233, 43695, 171159, 108864, 12887, 160892, 35179, 33871, 195050, 90041, 113005, 180207,
       17682, 95182, 201063, 66942, 151280, 51743, 80332, 82292, 142345, 21198, 138517, 250644, 10027, 226800, 53588,
       25525, 205844, 154565, 55127, 107048, 191904, 116371, 24286, 32917, 69719, 22925, 46794, 98106, 120666, 75410,
       22825, 123630, 82019, 13890, 202997, 233212, 31407, 33108, 177012, 41140, 244702, 82989, 71840, 217005, 184388,
       115506, 85062, 70724, 55848, 212721, 1773, 67999, 240144, 38192, 604, 184913, 103082, 4366, 73061, 116122,
       10979, 208816, 211608, 91618, 144905, 219900, 63726, 19683, 205229, 25291, 212392, 191457, 77673, 50758, 106389,
       71383, 105896, 140398, 11639, 26761, 118626, 83940, 47958, 22700, 100552, 137223, 84068, 37559, 67981, 21436,
       90110, 141589, 10084, 26177, 166863, 106206, 99185, 251414, 173687, 119508, 16749, 198509, 57916, 106863, 64293,
       32063, 27534, 101613, 52320, 232970, 29889, 32778, 40500, 47476, 162, 117299, 18953, 85256, 170137, 88205,
       5574, 13635, 128633, 27576, 87844, 239577, 94692, 238084, 183077, 87257, 238295, 47049, 9611, 96248, 187783,
       86514, 182196, 9193, 121972, 81769, 171542, 9765, 49183, 61551, 54485, 22905, 164322, 95608, 94069, 19493,
       87519, 206955, 128014, 29689, 49760, 221699, 21373, 145279, 44272, 102792, 215826, 192482, 125336, 235785, 210610,
       100608, 183568, 97997, 126249, 36147, 52326, 79297, 251719, 48754, 121778, 221739, 99916, 90496, 206400, 128628,
       119129, 89647, 150568, 21179, 206886, 154736, 106897, 200267, 933, 25787, 226917, 200077, 3595, 49086, 139537,
       67841, 13044, 162735, 41713, 235243, 66878, 5705, 194681, 219951, 128490, 119414, 27352, 87355, 11552, 46834,
       118202, 85240, 200663, 130951, 197314, 153363, 51375, 226520, 256239, 33388, 233787, 247961, 24102, 24934, 177736,
       67526, 158490, 72652, 79440, 57584, 222338, 61921, 102985, 45162, 50757, 234904, 151650, 22055, 215334, 253841,
       57915, 111309, 135251, 11172, 259119, 184610, 113383, 141519, 53059, 6147, 163686, 223140, 49892, 10643, 237449,
       13125, 70981, 11913, 101578, 63969, 259725, 40991, 16066, 137972, 14824, 256602, 181963, 69663, 164501, 223659,
       120098, 68129, 5516, 119097, 236073, 21209, 32722, 68488, 162914, 94327, 61091, 260383, 3969, 107406, 184161,
       17282, 20623, 54643, 65466, 220862, 6888, 29983, 147687, 4276, 104629, 203875, 58974, 122037, 128905, 119255,
       567, 255972, 160993, 30528, 194934, 224221, 57613, 35697, 251168, 73803, 243396, 59690, 120049, 54752, 154425,
       116900, 249788, 221274, 83515, 41753, 165634, 33736, 94838, 257261, 102667, 26166, 69264, 26561, 255057, 63192,
       126507, 17528, 295, 765, 117816, 186473, 74680, 251524, 20714, 11586, 105892, 177897, 53424, 232159, 255321,
       83222, 2358, 35105, 90387, 14159, 132290, 102966, 42343, 231977, 77768, 170041, 126870, 32940, 243797, 591,
       116556, 52706, 36105, 106313, 123427, 129925, 20978, 98929, 157124, 108332, 124239, 159264, 127486, 121107, 197700,
       83521, 153112, 159405, 36936, 202952, 243599, 79507, 122330, 51708, 44896, 198333, 209805, 88597, 171914, 11177,
       71408, 5317, 209930, 121830, 50726, 240132, 80990, 133319, 191787, 28047, 1900, 107388, 95041, 157632, 21175,
       39436, 189498, 79651, 35702, 216789, 34371, 51350, 247953, 114776, 1572, 112385, 230267, 127027, 53636, 244421,
       69773, 184399, 113127, 101383, 102670, 188868, 33797, 54130, 134022, 97860, 191823, 193032, 74340, 45108, 84903,
       55593, 111449, 98364, 127227, 145965, 256756, 64729, 21836, 197102, 86174, 107805, 137783, 2010, 244245, 153098,
       39512, 88296, 252961, 116482, 152295, 28323, 99478, 73939, 254104, 70353, 111418, 252532, 117985, 192185, 217054,
       63729, 234646, 253311, 74253, 56077, 30344, 50089, 141030, 77057, 81269, 232703, 126724, 41812, 44213, 113426,
       50527, 60475, 69730, 126658, 82829, 243494, 14589, 118300, 368, 13796, 7500, 127790, 5677, 135607, 161884,
       41948, 229453, 19661, 52196, 184357, 179493, 12388, 92929, 239238, 71975, 182930, 147767, 76454, 130551, 256810,
       98438, 149627, 245904, 127922, 24374, 112369, 81179, 193398, 157204, 14634, 77210, 34978, 11603, 13005, 39397,
       101914, 163187, 232187, 85240, 155948, 72280, 21222, 116272, 34222, 33208, 104422, 86470, 98335, 133180, 125284,
       74207, 44730, 97651, 76677, 33604, 223055, 27526, 67256, 121605, 82451, 232724, 16020, 101007, 217909, 24279,
       116031, 204392, 164503, 96563, 3459, 241446, 75546, 185946, 93184, 88245, 116370, 215005, 63584, 138835, 77248,
       29740, 1709, 178354, 115632, 165762, 227803, 69811, 239540, 133162, 77898, 128366, 86668, 129775, 145632, 100672,
       129107, 255585, 216528, 76848, 249934, 231268, 4450, 221838, 160894, 51923, 222850, 91264, 122852, 237188, 165965,
       37788, 241611, 212153, 130976, 38038, 178460, 11051, 174818, 164615, 74463, 225950, 128143, 67560, 256517, 145619,
       33469, 161758, 215153, 124335, 218582, 258167, 81156, 2316, 132531, 30176, 126240, 19089, 50337, 253070, 111971,
       94532, 257802, 254347, 39019, 184425, 67895, 115291, 195065, 181489, 21715, 54828, 60475, 34669, 55348, 199368,
       18992, 39597, 38059, 13654, 243467, 67743, 39362, 247250, 25075, 130964, 93490, 249554, 12363, 247688, 20412,
       27918, 163391, 179141, 35601, 93608, 176626, 81150, 148374, 85804, 97693, 249330, 75647, 98557, 118130, 19344,
       1131, 245215, 254021, 85439, 90003, 107581, 82671, 247530, 26853, 67850, 9034, 185191, 49703, 163724, 193679,
       104522, 158819, 222190, 45073, 37648, 227990, 30148, 44179, 3157, 40644, 208331, 84533, 57625, 139406, 101745,
       28056, 243783, 134111, 79635, 151619, 141618, 115895, 17980, 232434, 78048, 39162, 205965, 58545, 185702, 52481,
       104447, 47953, 31105, 98046, 240747, 33509, 48111, 11037, 168891, 79187, 158258, 47447, 95661, 252546, 73124,
       32173, 94412, 132349, 48008, 65504, 95743, 13864, 73693, 181429, 129457, 60145, 224453, 11256, 40736, 51776,
       22099, 142090, 128029, 62892, 139803, 17613, 113412, 238489, 207098, 46646, 44174, 96065, 100741, 113835, 217520,
       88609, 36190, 261935, 83710, 256356, 64679, 110758, 26507, 174908, 1857, 86036, 62485, 121785, 248268, 201136,
       108688, 87532, 65803, 122928, 34659, 42040, 104017, 39613, 86649, 115158, 192140, 131514, 26617, 221756, 109628,
       41841, 260113, 93384, 41316, 170046, 249068, 14308, 184474, 224388, 95627, 108042, 78334, 17848, 50134, 16994,
       6882, 126200, 104434, 101639, 97557, 98694, 118576, 2879, 40545, 100155, 45996, 252236, 108180, 148174, 93470,
       78069, 85080, 150598, 116358, 180355, 236201, 65103, 240868, 76128, 129541, 110690, 106424, 13554, 214036, 229060,
       106060, 244734, 181638, 84068, 50734, 39775, 76106, 115724, 127964, 95133, 114793, 33376, 110138, 181279, 24814,
       113099, 246522, 145685, 22987, 139873, 126675, 25825, 234195, 106863, 2118, 256045, 55307, 17280, 224035, 140660,
       34587, 158886, 57420, 94507, 159208, 205362, 62359, 209437, 84235, 99339, 244374, 222564, 63771, 59413, 195168,
       72823, 70607, 239524, 14557, 188648, 205078, 101785, 12448, 254631, 99369, 42160, 56579, 40312, 186894, 50262,
       43067, 101138, 178824, 28794, 22829, 261006, 106671, 155718, 26237, 97911, 177090, 137144, 79842, 55663, 123178,
       31302, 233492, 8367, 22525, 41946, 72649, 6588, 219902, 110005, 5978, 101748, 127593, 24528, 80771, 3037,
       13177, 20, 25799, 72890, 37986, 13752, 46935, 154463, 47688, 58319, 244727, 63603, 77865, 150441, 18472,
       86389, 205512, 62623, 84961, 25120, 223610, 34190, 260714, 192225, 106119, 113457, 9834, 120286, 10972, 54625,
       41410, 175911, 1921, 2236, 209264, 92020, 117853, 245773, 192537, 121051, 99490, 99441, 6677, 170875, 97710,
       649, 175743, 125696, 107007, 211738, 3785, 39513, 106115, 151829, 119876, 29840, 86133, 28409, 3574, 127680,
       112873, 67592, 132384, 8997, 89580, 56278, 34162, 50554, 201457, 127549, 248629, 206915, 30303, 106922, 99561,
       17434, 72836, 95778, 112335, 227386, 12919, 15440, 101024, 122597, 12773, 201081, 40669, 42391, 256688, 101644,
       83273, 203952, 105825, 93158, 248697, 10674, 115505, 191332, 11489, 70898, 93200, 49945, 51566, 14718, 111340,
       47033, 15422, 62245, 111005, 61453, 165504, 94871, 241236, 151345, 118676, 102678, 102778, 126358, 14484, 108503,
       39328, 68992, 246226, 69425, 116938, 225921, 82814, 4420, 134791, 21476, 2399, 29213, 6992, 79280, 97333,
       113739, 144638, 50802, 70192, 36071, 122541, 74812, 135813, 86815, 72733, 192173, 145360, 98954, 54920, 45119,
       19071, 60527, 81321, 80484, 146074, 49337, 61535, 162146, 247411, 117566, 26183, 190898, 68107, 198068, 171053,
       123592, 97759, 59033, 46301, 151113, 192471, 126732, 215732, 252773, 114708, 184175, 28538, 76580, 146253, 87495,
       46361, 122783, 1156, 49273, 6896, 128477, 101286, 42330, 8655, 76104, 134338, 111857, 52636, 232784, 147510,
       83368, 261069, 207173, 96106, 96450, 145775, 3001, 161476, 521, 11778, 130303, 108335, 12384, 103715, 254934,
       30400, 7267, 142303, 55966, 128673, 127903, 105335, 262039, 42394, 46019, 66247, 220743, 2290, 222476, 2320,
       63355, 53684, 129262, 130630, 27068, 224744, 45746, 230671, 168266, 125993, 144777, 236633, 13283, 133438, 188254,
       22688, 135885, 56774, 94912, 33548, 183784, 65694, 240677, 109581, 100286, 11802, 194029, 113188, 83728, 182382,
       32910, 51609, 162229, 89499, 205790, 91229, 79639, 133506, 212105, 112923, 31285, 238254, 56374, 151640, 3105,
       6798, 199516, 66519, 75259, 189811, 162178, 125682, 25963, 172444, 1917, 193451, 213574, 31491, 24919, 4591,
       41427, 167081, 188518, 100380, 9099, 255329, 42372, 144908, 109645, 31337, 52459, 114308, 85007, 208685, 146038,
       6082, 113779, 155028, 22360, 123634, 153323, 53481, 88639, 83178, 46609, 51973, 176717, 45503, 188285, 118687,
       14228, 137017, 85560, 47296, 6036, 261893, 104594, 133329, 47101, 54243, 101506, 228667, 76830, 165029, 33426,
       21440, 178346, 140250, 9137, 54482, 14897, 115337, 156848, 28642, 43433, 175353, 235948, 45919, 105332, 207114,
       115040, 79116, 227054, 92769, 1636, 228297, 99124, 227031, 2301, 89391, 146978, 17123, 13866, 105148, 105015,
       125566, 112265, 33903, 119162, 81638, 149558, 30961, 221371, 48379, 105381, 33193, 24686, 53660, 107235, 10682,
       89622, 184552, 132199, 21705, 240226, 141210, 70589, 100333, 138651, 16595, 223246, 704, 70276, 131779, 56900,
       31928, 90966, 39825, 59305, 181628, 202799, 87552, 21205, 249553, 114959, 241059, 21473, 21664, 199285, 30854,
       117082, 149289, 253469, 51123, 3824, 118433, 110598, 27221, 29945, 67180, 178457, 235234, 113011, 105360, 110511,
       86877, 177256, 1999, 66678, 115863, 44789, 40965, 16699, 205434, 126996, 223328, 250239, 104975, 67576, 252220,
       49962, 253423, 197465, 21852, 208349, 73852, 102175, 69831, 119259, 129753, 256296, 20788, 36565, 211063, 140045,
       120044, 1210, 89945, 16432, 154435, 3275, 124807, 151560, 122420, 97693, 16235, 8734, 45429, 15980, 219204,
       39928, 184080, 174500, 84336, 94034, 20339, 77792, 44010, 217268, 120446, 228416, 19918, 100433, 5265, 184788,
       70826, 184700, 235349, 121577, 238556, 184601, 77690, 102055, 80966, 111369, 233512, 146263, 110224, 9252, 150573,
       120480, 185742, 187886, 8860, 192267, 234720, 76522, 107876, 195014, 61393, 40294, 38492, 64296, 97330, 68492,
       60281, 105549, 15499, 109768, 113748, 122355, 41737, 166915, 2674, 60653, 186062, 80792, 26303, 226037, 27850,
       32993, 74, 13691, 86562, 152348, 175191, 15327, 7156, 28665, 24618, 47293, 152321, 69210, 143076, 34724,
       5737, 109660, 100740, 16636, 150907, 241157, 113161, 103918, 37057, 110906, 39029, 169194, 45583, 186028, 14783,
       45611, 240564, 112326, 122750, 249814, 78943, 3387, 13049, 169298, 76060, 129365, 192473, 78301, 46655, 91073,
       103269, 244755, 234021, 124747, 221147, 71724, 46639, 8778, 242757, 57387, 185868, 183730, 87988, 113885, 133494,
       126782, 59266, 140722, 116757, 245206, 159430, 87431, 254605, 248350, 112292, 123728, 82527, 11167, 239905, 58743,
       49430, 205167, 239428, 1716, 15622, 208812, 23261, 168090, 60192, 82639, 241773, 126391, 116072, 87332, 60306,
       82939, 204679, 193994, 87049, 238541, 8687, 13608, 27641, 143883, 87144, 155783, 989, 59552, 34849, 43265,
       85385, 150479, 141763, 42752, 42418, 31949, 76216, 137716, 56790, 55583, 160137, 3808, 73221, 177243, 109734,
       19279, 83190, 127682, 51881, 145545, 220676, 49057, 118532, 18835, 96520, 184185, 67965, 92590, 133120, 159586,
       119125, 242620, 223661, 82844, 207248, 231197, 41228, 84252, 28595, 102658, 215760, 34313, 65142, 124553, 85965,
       25361, 142109, 52286, 97964, 187688, 252388, 17371, 40658, 120215, 23350, 239451, 1216, 99451, 172242, 52584,
       100944, 106257, 207843, 103649, 74046, 112176, 38446, 186307, 192189, 113585, 92068, 72284, 94721, 146254, 143412,
       109309, 203503, 163254, 92878, 88630, 8639, 75968, 227289, 142493, 14338, 155058, 28948, 93183, 217887, 1565,
       90500, 19598, 28731, 40958, 219630, 14769, 96445, 96670, 114658, 72149, 46983, 98223, 73322, 129629, 204141,
       48182, 178377, 243732, 15307, 65257, 194814, 28433, 64704, 222585, 100772, 79289, 174020, 35578, 101425, 72754,
       295, 81877, 131203, 130681, 17674, 109612, 27614, 142017, 231876, 85902, 99637, 257616, 121493, 136572, 193694,
       78605, 143537, 256872, 104730, 141762, 84953, 127974, 260323, 91616, 112769, 145480, 90069, 73125, 158521, 111668,
       47671, 70911, 10231, 63237, 152117, 35360, 110339, 220074, 95176, 111850, 234739, 236621, 110867, 234981, 135877,
       78279, 104049, 124633, 62515, 148387, 57909, 40807, 183943, 117610, 440, 134744, 194990, 100202, 160804, 254819,
       36306, 188365, 175354, 43211, 141847, 40126, 110556, 202140, 16937, 6848, 173976, 41551, 121585, 13653, 187441,
       178, 133666, 174218, 123098, 202956, 185363, 59606, 27510, 66230, 13385, 109241, 175599, 88363, 177924, 57767,
       117421, 181779, 19086, 57419, 21037, 4458, 90617, 173853, 37368, 128367, 7985, 20167, 31549, 36271, 194234,
       107537, 249356, 8192, 38697, 83465, 181822, 55880, 241672, 26984, 36931, 161458, 156808, 58459, 170889, 65714,
       667, 7774, 205011, 39772, 88236, 250511, 58365, 152973, 189449, 82868, 258305, 230088, 83540, 60886, 175304,
       76517, 248665, 169660, 38408, 70246, 75414, 124178, 46792, 69790, 51376, 70447, 234684, 28428, 189442, 151622,
       72681, 31464, 173700, 98163, 151681, 105495, 1603, 125529, 125552, 36220, 252113, 177122, 108131, 130310, 191757,
       66456, 70451, 206163, 53541, 99367, 197589, 122015, 24252, 231907, 11735, 142671, 234411, 80684, 4549, 226525,
       44851, 94218, 161997, 9282, 252827, 177625, 28015, 241233, 121767, 82304, 121135, 223216, 3706, 82385, 24074,
       77627, 62057, 140517, 125416, 78226, 88388, 104214, 217864, 123067, 45298, 26314, 171934, 18115, 40009, 115849,
       60956, 242609, 134210, 51504, 209602, 178649, 127366, 257565, 257362, 129743, 258379, 196750, 53816, 39865, 52602,
       19501, 108603, 114675, 119355, 108761, 34742, 104011, 45391, 226813, 67013, 192102, 261235, 47887, 200217, 140062,
       58741, 259877, 210981, 118211, 96838, 133152, 24201, 153612, 136487, 105746, 191281, 109121, 2384, 74088, 180725,
       120661, 55649, 70866, 65574, 252978, 226954, 29720, 76308, 156074, 374, 106833, 116875, 73340, 229310, 212004,
       32045, 134786, 153482, 82741, 20722, 100091, 36853, 110115, 212572, 11537, 127285, 19239, 66198, 33351, 198359,
       73988, 71939, 86110, 59321, 230641, 132488, 60035, 166770, 3444, 77286, 162939, 79237, 68990, 54312, 107872,
       17375, 233951, 107638, 25832, 107441, 82274, 18584, 218990, 112305, 90871, 167392, 199413, 69284, 118247, 208976,
       56341, 254476, 174854, 104639, 232990, 143417, 42702, 146183, 19095, 74462, 229780, 241944, 9752, 197431, 208044,
       97570, 139480, 79059, 91120, 69239, 71813, 105169, 131798, 118933, 115930, 8590, 61587, 99356, 73675, 214684,
       110688, 256607, 51087, 45305, 167666, 5458, 45001, 239786, 207783, 123771, 104088, 116805, 119875, 29786, 53296,
       71892, 168687, 240936, 48045, 155478, 120587, 113508, 144853, 256905, 42390, 37735, 131833, 20137, 67524, 104622,
       83819, 153065, 115539, 5586, 137847, 51228, 49689, 169094, 181040, 105862, 29268, 148841, 38694, 151310, 548,
       122069, 100263, 9223, 125281, 223006, 164753, 106930, 176730, 167532, 129452, 100953, 123323, 69568, 82214, 172222,
       74606, 32426, 177691, 109598, 14892, 182826, 64592, 254407, 66612, 53309, 158527, 213763, 80576, 257609, 143024,
       86200, 195927, 260687, 98421, 109351, 27434, 87582, 105327, 45012, 97743, 64788, 147647, 88415, 232045, 89579,
       62972, 240727, 4589, 17686, 38230, 156225, 102949, 161193, 34762, 4034, 74692, 228027, 130088, 254811, 35552,
       108587, 186435, 19860, 87937, 156030, 145084, 126695, 21705, 171988, 80277, 184741, 2798, 7396, 201993, 190931,
       73319, 89210, 225957, 36333, 185341, 180107, 48428, 41562, 105027, 60238, 195440, 215875, 101528, 122953, 151027,
       65919, 245887, 107437, 62217, 77353, 51343, 39580, 24127, 61732, 70762, 35254, 53607, 32557, 22563, 105229,
       34208, 257261, 24327, 99255, 110670, 219641, 44898, 93075, 54113, 6737, 15186, 101883, 45046, 123002, 98534,
       83698, 245479, 97816, 106690, 188433, 145695, 126082, 252891, 58644, 97808, 158094, 193688, 56210, 114858, 67696,
       39206, 42510, 80501, 16990, 225986, 240693, 82272, 30496, 186456, 66831, 111606, 260629, 88827, 181708, 161885,
       31081, 135550, 45666, 42420, 180460, 153810, 38285, 136747, 74123, 104549, 215549, 227010, 22443, 113847, 132559,
       79753, 172313, 48430, 6731, 53641, 96318, 72027, 177845, 258041, 8377, 87196, 244763, 23052, 130156, 139210,
       14814, 118591, 137513, 45445, 258364, 258670, 45053, 147949, 78458, 108320, 112188, 24545, 29581, 80118, 98484,
       11322, 231477, 214388, 79103, 130402, 98735, 90105, 141059, 40579, 38643, 31719, 53699, 79012, 13594, 187178,
       101719, 75099, 124856, 45554, 120279, 179480, 68859, 46794, 190283, 19219, 135383, 111217, 3099, 113642, 3025,
       128629, 226281, 61373, 39286, 84421, 64955, 36556, 65429, 26334, 127565, 48783, 198341, 95451, 6403, 80583,
       76716, 43192, 256373, 91661, 187706, 7664, 93051, 129748, 38414, 100051, 251789, 202859, 8806, 164348, 192795,
       54110, 167733, 217582, 38683, 84153, 54298, 9249, 184460, 44209, 54080, 46062, 142226, 80763, 23876, 24743,
       23396, 12559, 56629, 39980, 121995, 60188, 83777, 104325, 139705, 75933, 63311, 208941, 113873, 117500, 145142,
       103708, 59153, 221806, 126564, 149905, 208966, 78275, 84290, 161357, 91549, 134912, 128312, 112788, 72444, 233145,
       110099, 128379, 76778, 94204, 74203, 115544, 65569, 152535, 14998, 35809, 202703, 247270, 114978, 110965, 133278,
       101797, 205029, 93621, 109826, 36702, 5686, 18453, 140904, 143406, 41263, 40257, 120725, 55690, 139378, 186064,
       109884, 123132, 142619, 117032, 115858, 196505, 37341, 120020, 199497, 89971, 168771, 108996, 10199, 69108, 187615,
       53683, 154115, 97607, 63788, 181742, 37427, 100353, 6373, 233044, 116912, 153361, 63751, 44208, 101786, 220400,
       69171, 207561, 5892, 84862, 87399, 98256, 43081, 181527, 135127, 129176, 121812, 85558, 114789, 130935, 111036,
       38850, 29251, 102767, 66577, 138514, 36436, 30256, 194211, 231733, 67437, 15114, 217389, 89565, 193226, 136322,
       11209, 110277, 81923, 114048, 594, 176509, 77823, 120184, 237386, 129709, 60587, 83943, 3354, 86517, 140432,
       108986, 39813, 41592, 103804, 47359, 39325, 17413, 64083, 59528, 43949, 47238, 204980, 115972, 2077, 156652,
       67954, 220558, 117579, 52596, 201097, 77648, 118685, 59865, 77689, 12234, 223743, 30724, 62013, 39164, 121004,
       85507, 256316, 129264, 79762, 194902, 168312, 34639, 63814, 81839, 73834, 143923, 30923, 92872, 159270, 113985,
       76662, 26243, 1695, 89713, 218335, 94290, 33564, 197271, 1598, 109163, 46559, 105354, 58941, 185333, 165314,
       129397, 105826, 22073, 3052, 14037, 244045, 49848, 182541, 104285, 23655, 59259, 40560, 72824, 223326, 74425,
       31877, 99124, 115889, 96662, 185968, 59915, 115587, 241777, 154101, 27641, 8910, 258509, 21060, 88286, 116172,
       114734, 214184, 47004, 47352, 165794, 38631, 56961, 195612, 54182, 28962, 239763, 69998, 55746, 228166, 67596,
       30316, 252491, 120391, 87284, 115736, 68763, 65388, 191138, 205061, 103292, 172693, 119263, 40989, 235832, 102177,
       66269, 91715, 88461, 34016, 63173, 232863, 122483, 96202, 259769, 68411, 39806, 60206, 22736, 20006, 37929,
       35751, 246542, 60725, 10866, 33093, 130031, 3645, 235451, 48119, 68933, 163993, 212089, 44187, 98487, 218977,
       126323, 187256, 201191, 22456, 196289, 53662, 104059, 188539, 22618, 41415, 2325, 133110, 29299, 129044, 116319,
       127092, 62164, 226674, 105195, 83873, 48189, 82656, 194375, 119675, 91373, 12737, 219391, 129942, 92450, 196146,
       77752, 231077, 47795, 13356, 77565, 80846, 8502, 34854, 106169, 87373, 126756, 88575, 86193, 25463, 200699,
       98064, 166564, 136661, 14257, 221702, 208630, 123850, 60543, 240059, 72241, 114197, 76443, 85138, 141885, 204180,
       4568, 44982, 97986, 125956, 212925, 39171, 73740, 10170, 212731, 73841, 34064, 177592, 123673, 178889, 107834,
       121811, 206190, 169081, 28874, 256121, 178061, 122040, 258155, 115542, 96550, 111579, 104262, 2477, 93358, 18982,
       31436, 189056, 1734, 54130, 35029, 151382, 76391, 184782, 45365, 91924, 180993, 76364, 27552, 182650, 155522,
       109668, 2570, 213648, 110849, 157006, 167703, 83230, 148173, 205090, 120729, 162801, 177576, 106559, 60989, 254034,
       29048, 172037, 127097, 104684, 45670, 261646, 124938, 26965, 207204, 18036, 92333, 79519, 128279, 233086, 192614,
       3275, 224358, 27498, 68441, 132410, 200863, 101435, 189140, 23850, 103604, 79423, 154050, 96295, 782, 3186,
       69383, 37520, 141633, 85323, 51281, 63249, 91741, 134070, 100504, 64820, 64276, 184325, 78077, 162807, 98234,
       110935, 40239, 219061, 41009, 178011, 106578, 68577, 183419, 32629, 1111, 119011, 228086, 90103, 174008, 254402,
       25609, 147749, 19945, 63045, 208752, 74734, 27552, 4746, 258326, 3084, 160179, 195083, 63336, 179346, 100786,
       55683, 207221, 20376, 55725, 51651, 256953, 27368, 168032, 205193, 124151, 262140, 187751, 459, 180722, 165759,
       116856, 169141, 23431, 96587, 54753, 248683, 22553, 216420, 171162, 61891, 38804, 224493, 129610, 146245, 209642,
       84370, 213730, 189703, 16695, 136824, 152675, 59984, 21897, 66260, 61368, 82909, 86316, 105154, 68044, 27078,
       120083, 80722, 96012, 10779, 147734, 99999, 41161, 129833, 129986, 39116, 231254, 211953, 130554, 5198, 40488,
       73299, 4361, 211681, 115321, 71790, 159560, 55840, 256283, 25607, 94728, 201528, 143594, 37563, 92617, 156157,
       119509, 161918, 180660, 59656, 243295, 124775, 105345, 238127, 123586, 33530, 112861, 201249, 90912, 28391, 90330,
       53104, 241796, 204884, 4120, 217067, 221859, 54133, 214390, 258467, 72092, 114459, 119032, 19891, 183044, 94930,
       24105, 225056, 226680, 60930, 130207, 104863, 44922, 70482, 39775, 57768, 194981, 253520, 60401, 135042, 10980,
       18360, 12373, 65855, 23749, 140343, 257432, 111170, 192532, 195873, 21327, 226504, 76575, 87282, 189649, 174344,
       54857, 80778, 160276, 126908, 188456, 56685, 8664, 112963, 121486, 108840, 191220, 135576, 64415, 61241, 220422,
       701, 143118, 142089, 34558, 123788, 213035, 53437, 168259, 13100, 41182, 35317, 27088, 47506, 255891, 36852,
       120150, 5367, 65161, 47308, 90569, 28211, 54896, 210873, 28759, 99763, 9172, 150295, 104049, 92570, 223005,
       11021, 209410, 222049, 92283, 227428, 123465, 63251, 175928, 17991, 17544, 130415, 48246, 34696, 37496, 120764,
       5902, 234016, 189989, 47217, 2309, 261744, 33476, 165923, 99424, 50083, 14811, 131424, 76066, 103873, 130724,
       95989, 54988, 135419, 79344, 182342, 192543, 88916, 70716, 115708, 113461, 13321, 148723, 114533, 240504, 236119,
       112816, 54113, 235056, 20076, 40917, 258694, 32908, 34990, 146301, 65840, 205092, 245681, 47020, 177404, 186572,
       17258, 30149, 74456, 37715, 261816, 99825, 127851, 104503, 118905, 45472, 100583, 188767, 54907, 237177, 84861,
       839, 12364, 52408, 94295, 38567, 167090, 54204, 218678, 54657, 13518, 202984, 88290, 126950, 175322, 186639,
       101899, 190327, 4537, 95177, 247600, 211890, 125550, 63615, 27539, 53409, 60198, 47024, 94179, 164677, 21316,
       27028, 21371, 151910, 91372, 258053, 107944, 1845, 98244, 6550, 16555, 25906, 107533, 55739, 140765, 223473,
       1585, 3589, 183111, 60550, 206728, 59169, 68523, 94406, 215651, 81475, 57660, 239809, 13157, 231349, 35018,
       23725, 155576, 142124, 80384, 72867, 75491, 86269, 256861, 65195, 3394, 208328, 256006, 70827, 8096, 230432,
       102889, 32919, 36538, 9057, 49873, 184886, 54155, 103230, 164453, 42796, 127291, 135506, 119755, 257122, 243899,
       24353, 128786, 189285, 41728, 35670, 97708, 117760, 248936, 1481, 43339, 102270, 192648, 69644, 202305, 7195,
       4330, 2024, 39758, 129093, 34632, 256917, 108127, 108761, 261357, 83152, 52593, 237980, 7963, 82615, 222328,
       9813, 93212, 102501, 71430, 205451, 111969, 37363, 253173, 254654, 81630, 67754, 146881, 78406, 74705, 260584,
       109923, 187714, 218638, 36880, 171468, 221051, 75741, 190809, 241399, 101890, 148092, 47184, 64326, 156464, 30716,
       108874, 33148, 88811, 17206, 166276, 5156, 96193, 117407, 82773, 123598, 143838, 97059, 43500, 160078, 10982,
       48016, 118011, 246157, 10951, 6105, 2261, 84081, 194407, 38847, 72410, 215354, 6787, 5288, 52242, 79327,
       98593, 245051, 261418, 108695, 256226, 114784, 118897, 257098, 199240, 71530, 120099, 84628, 59320, 149509, 210945,
       114837, 12876, 54045, 52257, 259383, 87842, 85910, 63258, 42939, 80656, 199667, 125295, 48779, 235844, 134008,
       11388, 219649, 152376, 2806, 256241, 192557, 56129, 256148, 26050, 63072, 13845, 52459, 107830, 22536, 11541,
       54317, 200219, 159740, 36852, 49047, 110535, 60567, 238095, 219973, 31193, 232849, 116390, 11974, 214439, 13238,
       14816, 203557, 204382, 41832, 55933, 10166, 1661, 137206, 197463, 28862, 127190, 36973, 103222, 61113, 47519,
       30751, 195204, 141608, 14513, 141156, 244930, 124397, 232563, 148712, 81588, 105667, 194029, 7867, 189069, 236002,
       8158, 115651, 196980, 80232, 18680, 75361, 70795, 199843, 254705, 8962, 4762, 103418, 29401, 125287, 256234,
       121771, 134450, 96734, 74974, 157535, 208506, 57714, 86661, 37979, 32788, 97032, 241971, 17524, 18297, 211310,
       52773, 194012, 186181, 120896, 112634, 4151, 6384, 183515, 5363, 129889, 150828, 7163, 27238, 112423, 179143,
       53577, 250468, 180335, 5904, 252985, 186174, 76648, 150189, 14311, 63380, 145685, 169574, 87386, 163697, 155222,
       71129, 237895, 202165, 52189, 251288, 110923, 96699, 64460, 12752, 3279, 149228, 113289, 70913, 198134, 195638,
       14925, 257369, 237450, 57148, 126939, 25436, 103694, 98967, 142225, 18672, 161201, 56986, 122658, 139993, 233157,
       116458, 22817, 80997, 54382, 114674, 140577, 783, 35212, 35036, 103513, 113750, 4416, 115460, 203094, 187486,
       22903, 71104, 67131, 120087, 38061, 193180, 119812, 146362, 195796, 61773, 9024, 201024, 104600, 4907, 149482,
       58320, 58040, 208685, 73930, 176204, 107758, 41921, 246072, 247373, 20901, 253238, 246356, 97850, 11301, 259690,
       182, 147565, 69417, 75963, 34114, 210458, 113336, 33252, 217464, 29003, 67248, 110034, 43633, 209086, 112376,
       77002, 247911, 85009, 32357, 203673, 171346, 111081, 209024, 53542, 48051, 107562, 227429, 76233, 71692, 65679,
       29638, 39598, 257091, 5424, 154655, 5282, 22767, 63246, 178620, 6055, 101489, 30942, 61420, 222908, 245039,
       76891, 192964, 217663, 5855, 175327, 159441, 11859, 179762, 261826, 63638, 193020, 83845, 104750, 29379, 100013,
       82314, 109864, 64649, 13724, 151511, 58890, 116331, 246655, 192301, 120252, 9745, 9403, 42592, 194337, 210421,
       80742, 179311, 20101, 64530, 79751, 212269, 123472, 246258, 146291, 66682, 180279, 58298, 125824, 167545, 97191,
       26128, 59449, 216977, 45290, 50830, 249187, 102412, 126696, 205894, 102709, 111761, 90215, 95968, 190338, 151534,
       112670, 260544, 8684, 92084, 34597, 206849, 83372, 249575, 219529, 60152, 57491, 229191, 61222, 32687, 182245,
       53236, 104657, 171430, 81292, 105122, 149340, 53302, 66724, 38935, 19332, 98234, 205282, 13963, 13069, 97663,
       121172, 112737, 221745, 3242, 151542, 134167, 13823, 211010, 8278, 58367, 138, 214275, 34462, 71212, 238401,
       53195, 111954, 198764, 15394, 16567, 150075, 17158, 61348, 165693, 104943, 218474, 17036, 99497, 236272, 38667,
       13664, 165574, 107999, 87528, 163908, 154271, 79863, 171383, 40437, 93501, 230368, 203642, 62186, 253445, 196821,
       35387, 187028, 224229, 86989, 198203, 100103, 48674, 146960, 88591, 28698, 155881, 181518, 53559, 215504, 253874,
       100043, 79663, 114072, 62363, 43478, 67712, 39303, 212005, 127248, 109034, 179065, 235223, 115558, 212409, 209181,
       56786, 262024, 171503, 49111, 28377, 209679, 80307, 177309, 241364, 7598, 216686, 151944, 90613, 28652, 220592,
       102536, 265, 76397, 52093, 133245, 7892, 22887, 65193, 41962, 3777, 73942, 8112, 83525, 14474, 140527,
       35257, 132066, 181544, 60802, 245357, 33258, 50640, 102481, 48475, 22922, 131065, 77564, 66632, 235434, 209276,
       60239, 220780, 261938, 81808, 72672, 214059, 33015, 18350, 227694, 28133, 45475, 81601, 106737, 219066, 132568,
       92037, 194493, 795, 101214, 168830, 53411, 16159, 220779, 89846, 29365, 84968, 203519, 75436, 17535, 77442,
       112355, 24887, 65624, 116931, 65669, 139018, 109040, 26888, 212876, 5688, 67001, 44432, 107594, 72480, 133147,
       117845, 177948, 157656, 7438, 56818, 70037, 54562, 201669, 203033, 70334, 154218, 11158, 30507, 14909, 86898,
       67723, 5847, 244727, 116123, 261367, 250993, 113631, 232834, 36346, 123186, 92308, 130934, 63453, 62782, 58115,
       53813, 217750, 222315, 87266, 36966, 144964, 54625, 168408, 122708, 5497, 199776, 141802, 94361, 142758, 22927,
       36829, 33332, 22885, 6433, 186135, 55639, 2702, 221706, 86752, 122075, 100714, 106229, 33040, 27945, 226322,
       58707, 11262, 86750, 124593, 250828, 101226, 61278, 101041, 131996, 10303, 126157, 170269, 72343, 94787, 69022,
       11560, 98017, 24007, 12463, 93950, 231451, 111604, 210506, 53148, 37935, 15868, 18366, 88954, 173138, 5640,
       66705, 191491, 293, 29140, 210782, 1782, 67871, 194559, 95378, 9043, 31650, 156951, 45509, 214194, 10739,
       68529, 49725, 4422, 29936, 26917, 93203, 86532, 46818, 181055, 6791, 24169, 217161, 63545, 769, 13511,
       93715, 243019, 85711, 56353, 233266, 28159, 114633, 207258, 148294, 82862, 202433, 148774, 125631, 152959, 94271,
       37240, 108591, 154704, 123048, 260878, 219913, 79537, 118096, 69390, 97672, 23246, 85621, 118248, 16235, 103668,
       72246, 135744, 151068, 113007, 199429, 80096, 71001, 78974, 260016, 78538, 52911, 82433, 58339, 251696, 189882,
       19089, 35721, 136404, 72548, 203371, 185889, 128116, 24756, 55208, 103178, 11228, 82537, 97976, 31822, 158469,
       84319, 202215, 162895, 45601, 22452, 256812, 22231, 210441, 134879, 29432, 112074, 146324, 828, 170110, 163716,
       88274, 111602, 9958, 106414, 108882, 222734, 35246, 196247, 91933, 12039, 4084, 202748, 44004, 109637, 109285,
       38279, 193656, 214986, 59097, 69824, 167469, 34616, 100784, 241503, 44529, 116694, 185607, 118955, 5253, 17812,
       43887, 141393, 168774, 102959, 110472, 257336, 82029, 72025, 154604, 44241, 202797, 43572, 107189, 37774, 18938,
       77997, 212492, 101036, 1129, 176649, 95231, 9008, 89872, 139152, 98649, 254892, 49403, 58527, 76136, 49449,
       53150, 188030, 129364, 19113, 225623, 238579, 20620, 16448, 244022, 104563, 2395, 190348, 108660, 244785, 132333,
       73400, 171181, 199760, 38682, 260122, 11609, 122250, 252036, 85611, 81783, 261754, 17749, 104417, 124749, 76663,
       430, 78362, 48780, 59024, 76212, 15616, 114157, 10129, 210326, 44332, 239311, 59230, 95230, 135228, 77088,
       86202, 197834, 167880, 19951, 148298, 193489, 101568, 50972, 215804, 14749, 29218, 141182, 95409, 41016, 154919,
       129888, 52910, 183971, 125564, 142142, 119066, 104889, 74906, 154917, 70060, 70209, 175592, 88450, 159069, 130339,
       95434, 163299, 201495, 1101, 53632, 24296, 13417, 90521, 174185, 78257, 192560, 119241, 856, 129825, 174470,
       119132, 21353, 202937, 64181, 18650, 256557, 33786, 12093, 177329, 51618, 243359, 40178, 111512, 253151, 67274,
       121529, 6383, 54806, 15235, 39678, 107559, 101968, 224451, 83108, 75789, 100883, 53107, 76743, 4575, 24712,
       102164, 91362, 189540, 29208, 183182, 174170, 69605, 33041, 68814, 41858, 48762, 6899, 12387, 241717, 246208,
       13772, 255089, 47031, 17887, 154297, 98665, 80596, 40106, 234085, 13871, 98503, 177710, 74724, 170617, 259475,
       77109, 71298, 199956, 118475, 137199, 140625, 82100, 113569, 152835, 129182, 254143, 97098, 4062, 68010, 30516,
       92293, 220835, 252776, 3470, 208873, 227223, 95600, 256347, 68252, 50574, 41581, 128116, 80125, 86881, 56650,
       40571, 202947, 233415, 20854, 56542, 82685, 94832, 61019, 136475, 118570, 105508, 115566, 24062, 135806, 128789,
       120678, 100603, 259026, 18373, 248884, 37363, 96424, 176755, 186709, 125756, 103749, 124524, 19316, 51436, 53947,
       57028, 32141, 9130, 44231, 59540, 41571, 50918, 145666, 30114, 98715, 139431, 29259, 86663, 93262, 111730,
       126967, 193411, 113923, 24311, 44423, 249888, 71206, 75671, 159771, 58867, 226002, 216552, 120436, 80716, 138220,
       1391, 231745, 151339, 129652, 142283, 190595, 62879, 192951, 260034, 81990, 192057, 198554, 47192, 211968, 56126,
       111742, 98474, 125749, 73660, 231720, 62278, 86875, 250356, 259797, 85053, 62362, 190910, 47707, 227289, 133920,
       9960, 76494, 62680, 105867, 175758, 208723, 37973, 169072, 57090, 111270, 257663, 47288, 79776, 14797, 148142,
       46360, 179619, 250447, 77889, 42548, 173958, 84606, 4763, 260809, 92626, 106855, 155882, 107785, 132111, 181446,
       20939, 104801, 158574, 123750, 234042, 69728, 53849, 183766, 177639, 112780, 246810, 230650, 28898, 183900, 83782,
       3804, 232114, 12044, 75149, 91877, 191976, 42554, 172629, 220483, 129035, 105883, 65080, 13690, 242015, 171519,
       6200, 21299, 245778, 5900, 150867, 100599, 28426, 18082, 207343, 75915, 193463, 100367, 66265, 53086, 229385,
       45885, 35623, 12636, 11638, 76067, 190506, 30636, 101840, 7657, 24136, 137383, 62395, 97736, 11450, 98536,
       102229, 34684, 260329, 101844, 204661, 19362, 127014, 21558, 14269, 115898, 219179, 24894, 65248, 69159, 105333,
       54386, 129533, 235377, 120031, 160210, 38871, 80114, 135328, 75806, 38587, 110646, 232627, 73985, 112470, 115514,
       130043, 2393, 210014, 111341, 193914, 74551, 36867, 234604, 8173, 124905, 168431, 37542, 128642, 52920, 138221,
       30299, 135188, 220133, 117387, 13148, 39043, 115763, 38434, 10075, 5210, 152135, 134942, 87777, 131573, 124940,
       40013, 197556, 143515, 88422, 216578, 2663, 119741, 253012, 49411, 65375, 260464, 80647, 54317, 240794, 63010,
       120786, 248191, 243824, 127679, 49937, 225922, 8157, 115331, 256940, 120959, 142113, 90800, 10848, 167044, 239898,
       44208, 204094, 260456, 99952, 30244, 239397, 101847, 207433, 185669, 95134, 242969, 131924, 5126, 144712, 183457,
       17428, 32989, 245044, 122711, 201550, 166644, 10677, 80504, 98786, 10295, 44677, 18596, 109529, 205613, 168410,
       84051, 258161, 25381, 46092, 68826, 95202, 21720, 1300, 161200, 115889, 258284, 63392, 129569, 162783, 1330,
       6549, 234459, 24210, 72628, 196402, 216780, 34249, 152955, 258023, 109102, 159133, 192885, 45360, 129049, 153925,
       93667, 233358, 144821, 70716, 108503, 13385, 70978, 144879, 198654, 112459, 183879, 66087, 61656, 222537, 240455,
       110834, 110661, 80488, 47635, 21287, 74244, 22909, 39278, 68870, 59700, 86728, 216013, 65320, 128182, 77251,
       62702, 168422, 126288, 105949, 126811, 18302, 74013, 156818, 127959, 116450, 37060, 61102, 67395, 84197, 244414,
       29453, 224223, 44329, 16973, 73079, 45220, 113818, 13544, 40791, 7362, 178545, 177805, 15415, 85735, 32780,
       8343, 222662, 237116, 55539, 180536, 194476, 69810, 260589, 260813, 2605, 5438, 18595, 67578, 238568, 145623,
       51610, 220573, 122662, 101403, 58026, 222372, 108784, 19483, 259357, 89780, 13584, 217501, 62062, 1783, 234698,
       28331, 7510, 66452, 111033, 10456, 41682, 44783, 67508, 90627, 46699, 233370, 172864, 120063, 122031, 108461,
       127873, 126742, 231503, 117719, 215145, 150256, 130840, 162971, 107886, 113889, 162526, 25196, 92321, 143798, 251648,
       38511, 130112, 188392, 124905, 258556, 36996, 114901, 60836, 161839, 31555, 42880, 88356, 64115, 132040, 8644,
       9182, 87962, 76363, 124952, 26037, 198460, 75073, 233373, 258502, 32138, 242733, 205136, 38325, 95115, 25991,
       128536, 155208, 124228, 80689, 208785, 260529, 55139, 204064, 33792, 65515, 195131, 100462, 12917, 40655, 8646,
       9833, 100455, 196413, 77687, 102060, 128170, 67109, 103039, 117758, 47074, 243031, 57276, 74201, 180350, 200504,
       9525, 205008, 80540, 123730, 212552, 23532, 38497, 99179, 233194, 9408, 49715, 225790, 22217, 69209, 237076,
       12513, 250850, 154163, 23410, 13001, 38001, 54624, 206431, 169217, 96737, 211489, 234098, 35697, 63595, 134303,
       57137, 202949, 147045, 121734, 19723, 55851, 38773, 248254, 211606, 104165, 133038, 14927, 20685, 97808, 144213,
       23372, 258978, 189769, 59788, 227916, 119510, 30684, 65581, 100936, 118361, 182370, 138878, 6652, 53556, 151851,
       78285, 186067, 22624, 79197, 145597, 249595, 8654, 39419, 19072, 96018, 172168, 189572, 61459, 88854, 219333,
       94774, 176478, 38998, 108386, 186582, 181163, 42323, 16741, 156495, 63502, 139892, 171136, 34178, 114537, 121776,
       26412, 202556, 67356, 77, 250642, 193455, 126305, 28718, 58574, 57793, 98653, 44414, 1713, 21310, 218116,
       1171, 156562, 162584, 37794, 248477, 41903, 1826, 220049, 245606, 49088, 99605, 193796, 8249, 124586, 187758,
       5144, 205666, 118580, 87737, 41440, 211981, 118861, 131462, 146087, 53659, 30997, 166659, 109677, 45570, 94327,
       3835, 231347, 221025, 101933, 102502, 139132, 8231, 84041, 190563, 109895, 244338, 125261, 115653, 136722, 139612,
       103019, 42852, 91223, 107577, 56656, 147623, 73594, 237260, 222408, 34718, 261932, 199917, 84309, 150465, 161776,
       57611, 158080, 27013, 699, 124180, 252527, 62498, 130808, 62313, 85352, 132027, 251047, 1819, 198978, 153126,
       81442, 246932, 243490, 85528, 173542, 100531, 20723, 124910, 75126, 56501, 198075, 46257, 126397, 698, 74333,
       115892, 118087, 1174, 53847, 48637, 99368, 45855, 13118, 86819, 16263, 131862, 232796, 4612, 79610, 54873,
       38989, 10791, 33669, 123244, 214661, 139735, 125647, 100215, 228146, 106498, 140249, 36894, 45983, 81253, 142806,
       18825, 105856, 146395, 78057, 200203, 51603, 84738, 184629, 54093, 55649, 185301, 64720, 90655, 138618, 120708,
       97869, 23099, 31069, 102637, 120158, 115416, 65837, 57160, 258075, 103761, 246414, 102898, 3339, 64525, 44611,
       89181, 251961, 155263, 30885, 3674, 228337, 35457, 166637, 163266, 11967, 25503, 146596, 25217, 62593, 23313,
       130024, 131888, 223033, 54446, 3982, 212434, 121604, 17389, 216647, 21351, 148624, 255638, 26746, 105002, 47751,
       73113, 186623, 68803, 45813, 243583, 185477, 84399, 66641, 211326, 55318, 128128, 226568, 106377, 176451, 132341,
       56565, 81415, 203300, 75018, 249571, 188075, 42083, 185197, 207579, 92280, 15808, 194125, 85817, 84472, 168133,
       52035, 188577, 247049, 36180, 20913, 14098, 80491, 232945, 123124, 123620, 202628, 62374, 17385, 206161, 234453,
       104741, 213227, 229210, 71171, 4625, 173668, 68886, 42038, 246319, 126049, 226647, 95354, 79413, 58056, 57822,
       108857, 165863, 104535, 67433, 147315, 172322, 32748, 204617, 65192, 91028, 59994, 110610, 121002, 168616, 19952,
       110261, 186408, 117918, 25999, 239756, 37298, 41535, 76182, 168161, 67748, 153013, 55331, 74921, 49050, 156726,
       25403, 158232, 215125, 30148, 46512, 87166, 99461, 132613, 148725, 95724, 43107, 240924, 109996, 203882, 201355,
       122280, 255773, 224763, 40404, 105218, 137213, 112668, 217618, 56998, 87295, 130418, 66267, 125536, 231997, 139116,
       35661, 79633, 172748, 35346, 100417, 167715, 92313, 39559, 99227, 121688, 172221, 258878, 108076, 47465, 123822,
       95294, 138652, 253266, 50765, 102552, 202311, 94079, 52453, 119672, 105001, 52269, 242465, 98734, 173177, 253281,
       88710, 247713, 196191, 6177, 153989, 12822, 86470, 40819, 75352, 62691, 9721, 53870, 126034, 211697, 40774,
       79585, 155292, 139616, 79721, 147568, 139298, 130292, 210113, 99044, 12266, 193667, 81604, 36217, 86014, 226970,
       85993, 168879, 157272, 41318, 169489, 117696, 45370, 155238, 233079, 117000, 198586, 248450, 75937, 19671, 169483,
       13482, 209104, 58351, 40745, 99834, 45313, 9969, 32381, 56320, 72893, 16419, 224700, 22710, 159654, 255394,
       112343, 208914, 29286, 75669, 184569, 58187, 7782, 126914, 48356, 39436, 98299, 112715, 80784, 160096, 151195,
       43974, 114180, 11522, 67263, 24197, 118007, 119191, 245023, 6007, 45879, 239789, 258130, 44023, 138367, 97822,
       107447, 44224, 231322, 41780, 14410, 134640, 10218, 40916, 69831, 23716, 214182, 159923, 124361, 38396, 223789,
       122328, 144941, 186279, 29466, 149517, 26273, 72548, 156633, 227746, 18005, 29270, 168697, 88431, 90734, 104613,
       24288, 105196, 254561, 6526, 34160, 214534, 108120, 229196, 76777, 42650, 230415, 60515, 14224, 65137, 102615,
       109301, 120231, 175004, 99928, 252228, 238240, 89621, 154039, 197007, 119439, 50042, 114182, 64123, 220635, 177069,
       16784, 162857, 106114, 8040, 208833, 212964, 41738, 183790, 192272, 11381, 23741, 209157, 70190, 76903, 241161,
       1900, 108858, 261272, 58164, 247321, 47725, 23391, 38564, 117084, 48269, 164900, 149606, 88478, 17366, 158814,
       46001, 137205, 248711, 44740, 26658, 199761, 129859, 178272, 70662, 94216, 126703, 246850, 67352, 231288, 131169,
       75939, 242569, 17435, 81288, 151487, 95445, 3221, 38453, 235026, 10520, 115450, 173581, 85090, 143303, 237550,
       47771, 173609, 81679, 7267, 42268, 113721, 38995, 172015, 91300, 17076, 133295, 96237, 120103, 23049, 228912,
       26597, 219428, 91417, 18833, 233996, 64038, 82073, 52217, 95660, 68408, 10623, 117920, 75488, 162166, 81264,
       57140, 156148, 178091, 61232, 213889, 48972, 102078, 145028, 142931, 28825, 167931, 243498, 51973, 232988, 138057,
       125544, 23292, 92596, 24901, 211242, 108407, 38505, 129145, 17127, 25109, 15702, 112486, 2686, 101108, 154098,
       35367, 38780, 75719, 6090, 152325, 233758, 20274, 233016, 197376, 47537, 121710, 75467, 2715, 254637, 40879,
       98691, 137103, 222079, 104279, 116185, 151199, 53924, 217556, 20708, 129062, 36503, 44664, 88997, 23698, 67272,
       97481, 25415, 55094, 25205, 52725, 58694, 109764, 163603, 176669, 123869, 31845, 167705, 30973, 169385, 45609,
       89976, 65010, 23528, 97903, 14976, 102661, 39999, 35045, 93152, 62260, 99610, 217250, 12784, 168840, 22426,
       22687, 231248, 238274, 8070, 45003, 183073, 73422, 2929, 240824, 81954, 120185, 174230, 120077, 164112, 153148,
       71065, 64880, 34229, 34158, 223764, 181442, 7795, 83020, 180329, 115992, 148512, 126263, 62764, 232277, 164394,
       96642, 70202, 55421, 1920, 31305, 1590, 63981, 90405, 258677, 42693, 30320, 141439, 3975, 152191, 99503,
       101668, 258518, 47660, 67227, 11913, 246232, 43670, 157498, 147305, 105617, 162236, 102052, 58579, 39500, 24947,
       458, 126913, 167120, 123790, 167779, 29884, 33512, 222339, 131285, 108865, 51072, 252031, 107009, 51700, 168499,
       21282, 177191, 88688, 62128, 125680, 70840, 5268, 251791, 227823, 46471, 208894, 100735, 95810, 225170, 189634,
       31073, 44456, 8463, 15352, 50367, 233569, 66469, 182994, 99098, 70383, 230522, 67183, 88582, 65453, 188752,
       99501, 184221, 107491, 91201, 38504, 56169, 110809, 227794, 32555, 29216, 208689, 69947, 74680, 122410, 205904,
       47198, 109756, 138459, 126105, 259747, 51443, 57708, 83281, 84168, 125791, 163746, 155518, 100802, 255173, 74889,
       94170, 129847, 142433, 64430, 62612, 219387, 58114, 120275, 30007, 69015, 189801, 72631, 38487, 19090, 95576,
       118555, 242964, 27561, 104114, 133076, 157284, 105040, 146123, 211904, 56774, 80756, 210014, 9317, 202014, 138305,
       89532, 81321, 16276, 49075, 35986, 179020, 114089, 10987, 101411, 102280, 136263, 165408, 19048, 118024, 72240,
       78868, 22081, 55925, 90729, 226413, 142655, 74466, 243495, 208083, 67376, 140538, 212899, 29866, 122936, 244345,
       30920, 204973, 139559, 100664, 95092, 66282, 2449, 185486, 30893, 102093, 78574, 200822, 69048, 147848, 20390,
       122712, 150862, 36170, 130720, 243768, 138533, 86964, 65252, 91796, 54035, 98300, 157710, 62270, 120640, 122954,
       26766, 242360, 213657, 13006, 220545, 123898, 75859, 177074, 219479, 105577, 223734, 219920, 34310, 68422, 177786,
       55004, 192189, 111718, 72715, 76912, 29984, 118999, 257703, 12775, 18170, 176232, 26972, 31048, 196789, 87558,
       120393, 163414, 104963, 5182, 2429, 4955, 85998, 101813, 118272, 83823, 245514, 244564, 50233, 242515, 259763,
       61363, 73611, 215818, 112055, 211218, 256535, 21624, 138676, 2132, 30352, 3280, 52811, 67154, 207913, 212806,
       53706, 39867, 200940, 75284, 39845, 111996, 120696, 61289, 48467, 120206, 103722, 62118, 30148, 252660, 117666,
       39602, 183158, 206257, 21242, 174639, 3335, 121607, 89015, 222834, 52148, 222107, 163021, 58943, 197328, 248167,
       105203, 191999, 198, 67236, 120331, 127400, 15696, 154813, 69424, 57389, 185085, 57018, 82644, 12425, 206385,
       94268, 45495, 57599, 84587, 146288, 242297, 15621, 66907, 87574, 39891, 11954, 76879, 96149, 205820, 249269,
       115368, 75799, 122317, 6184, 214380, 16541, 5535, 14064, 209299, 84332, 83484, 229733, 71833, 132518, 167491,
       20360, 157294, 32031, 71865, 176736, 126997, 127728, 1333, 161633, 82693, 92717, 37112, 58869, 217476, 44405,
       108466, 88672, 163558, 27895, 18045, 218985, 54306, 155698, 41940, 69175, 155481, 170825, 66131, 13823, 21737,
       120713, 184414, 59279, 38360, 155753, 171323, 7406, 14597, 23139, 120111, 103009, 128818, 28451, 128963, 112245,
       49679, 250243, 260251, 69585, 7080, 53379, 127910, 158606, 125133, 70158, 184859, 1497, 58686, 160085, 7592,
       76498, 173745, 189705, 127245, 201100, 71397, 107209, 166316, 207102, 22146, 259932, 54055, 105284, 235057, 153198,
       110244, 140500, 113349, 90530, 172384, 87319, 86144, 236967, 178995, 57786, 165217, 157042, 84108, 78061, 98804,
       96675, 111869, 245488, 16098, 77478, 32970, 33728, 197274, 39507, 25438, 183511, 65983, 110259, 83332, 40721,
       89129, 78558, 155585, 59084, 116585, 186699, 108272, 204296, 43425, 93949, 252653, 54296, 119746, 123832, 186460,
       10067, 64642, 198281, 66736, 72433, 234041, 92634, 225763, 3308, 27196, 143387, 198456, 42877, 23455, 221707,
       54916, 14473, 197829, 104113, 222150, 203760, 64694, 5196, 261250, 64601, 120834, 20344, 56477, 79151, 121188,
       29961, 164918, 206, 120988, 218186, 157965, 41654, 217182, 215107, 74378, 225204, 230169, 19500, 224787, 1753,
       56917, 39292, 145778, 118463, 87679, 171122, 130477, 162461, 173713, 47415, 141391, 131111, 20183, 222530, 132633,
       41215, 207227, 229254, 42892, 61096, 225350, 84477, 14859, 108939, 65032, 66635, 41143, 100723, 145097, 144556,
       91921, 58747, 249698, 32939, 140787, 174956, 102793, 252126, 23771, 111078, 136792, 13084, 78432, 52153, 242581,
       121591, 68678, 58450, 102622, 151084, 229612, 78039, 191969, 141875, 118772, 259417, 174015, 78690, 48948, 19665,
       68313, 147703, 8908, 46695, 129287, 247299, 115718, 173661, 242806, 16086, 25097, 218885, 62062, 248449, 13022,
       70439, 220262, 183738, 72712, 19640, 128773, 85444, 132084, 61034, 66295, 168837, 10575, 33661, 175177, 16329,
       112321, 109023, 72604, 86183, 41882, 199801, 112484, 103053, 181415, 36181, 150064, 72119, 83500, 84234, 102610,
       93608, 47478, 31369, 50253, 178567, 47189, 106462, 120864, 140507, 328, 217615, 53880, 77977, 84279, 82986,
       80421, 169488, 40152, 69971, 231182, 97359, 82581, 187505, 185219, 21918, 198863, 110758, 89755, 177833, 257159,
       44012, 139181, 243766, 59251, 154179, 48171, 43661, 81410, 220901, 62119, 200819, 95820, 81470, 84320, 142549,
       109883, 93170, 129016, 63364, 209682, 114555, 42365, 155590, 200106, 63955, 135778, 174729, 90282, 229076, 100316,
       45442, 198270, 182562, 54300, 204498, 12704, 73772, 141687, 134527, 38536, 100198, 229647, 27405, 37878, 185958,
       18401, 130398, 112111, 46217, 77518, 41106, 6336, 105233, 42033, 76478, 58128, 9973, 23056, 207728, 40815,
       49465, 233365, 237493, 35287, 150171, 205637, 82626, 124169, 82532, 111456, 132786, 95794, 83008, 8993, 68434,
       71107, 54004, 148980, 87698, 37717, 101838, 3930, 244546, 243775, 16101, 129866, 147875, 12442, 79343, 252308,
       12870, 235643, 159213, 34142, 31855, 72880, 69737, 40336, 228050, 15031, 142574, 72101, 122567, 145742, 245105,
       111969, 38702, 76001, 127355, 96664, 116832, 5570, 148349, 227735, 111595, 5647, 226459, 105347, 8581, 161468,
       118240, 214927, 256632, 69198, 182961, 184170, 103270, 51454, 225122, 6722, 71787, 242410, 9945, 118914, 160442,
       15536, 67603, 52583, 119903, 53972, 232402, 8017, 154393, 33524, 13126, 209391, 15855, 121950, 197209, 56646,
       14076, 42070, 110391, 114000, 182868, 32479, 103451, 78835, 85285, 5279, 220410, 237921, 2863, 152569, 39202,
       70043, 92852, 111544, 130701, 203036, 112954, 115190, 7010, 238218, 40635, 171338, 16556, 50634, 84917, 91153,
       50843, 161150, 31338, 96230, 74909, 216097, 44712, 249602, 61644, 19372, 14792, 108317, 97924, 226035, 190125,
       60033, 6059, 94257, 10063, 141786, 25158, 103553, 191610, 113272, 76717, 240645, 45421, 64142, 161533, 146832,
       88256, 114191, 15998, 66239, 144945, 91801, 84989, 190221, 111326, 113703, 120223, 259352, 80414, 145557, 80507,
       86455, 41013, 177060, 80459, 89844, 236776, 69622, 208617, 223475, 22540, 201287, 165511, 43997, 246440, 175473,
       90847, 46810, 246345, 55768, 1116, 28394, 53232, 37184, 240416, 99518, 247361, 153256, 729, 241618, 9662,
       88997, 43126, 143124, 64123, 235191, 33170, 49383, 6566, 125043, 44634, 213582, 103227, 22659, 35893, 70159,
       43811, 23328, 52714, 51304, 518, 30072, 57337, 79892, 210145, 88119, 206913, 157063, 59450, 120758, 178650,
       104370, 151079, 172817, 83851, 193669, 259317, 24850, 227646, 197606, 36329, 168323, 6109, 10387, 91584, 749,
       123957, 168260, 23899, 116201, 247641, 16278, 11114, 107705, 23106, 75245, 76427, 226112, 125881, 206360, 54802,
       97929, 131010, 22935, 64462, 211783, 6391, 31601, 223074, 150675, 36573, 248382, 200616, 96500, 47499, 26056,
       102311, 147381, 49462, 69296, 233677, 163417, 15852, 259052, 16594, 122403, 260955, 251517, 110724, 194286, 196409,
       18420, 183197, 246524, 7435, 104291, 192991, 70237, 65251, 38607, 37243, 37012, 100965, 37126, 27764, 77747,
       11432, 80898, 247567, 124962, 49335, 178787, 108811, 151571, 210000, 14920, 138314, 22167, 114897, 145142, 50790,
       89516, 109095, 192559, 42656, 57679, 214117, 114196, 144878, 177963, 78383, 252758, 117193, 111236, 223828, 36908,
       61507, 232101, 229736, 65621, 87329, 164483, 38143, 69881, 6406, 50815, 172102, 106377, 74416, 104649, 35740,
       124132, 248137, 164960, 78658, 166470, 129849, 19317, 40462, 189596, 917, 1054, 143153, 111540, 178309, 163481,
       47752, 225939, 176122, 41283, 56528, 224379, 104953, 112655, 108812, 123910, 206939, 45730, 98047, 200755, 63089,
       22786, 135003, 161649, 51298, 192858, 184157, 99535, 232538, 182352, 118872, 152143, 69771, 130888, 133059, 151622,
       67051, 81584, 148061, 107809, 255063, 109084, 6112, 26917, 131322, 37463, 162948, 178198, 48695, 1259, 58979,
       127863, 225823, 165463, 444, 212928, 203329, 40372, 234393, 115615, 121950, 261014, 178014, 40196, 243695, 71365,
       29499, 249332, 188950, 95694, 42302, 110879, 97693, 15566, 254311, 61889, 78494, 242378, 124114, 96104, 174187,
       26569, 58282, 104609, 119723, 62964, 190708, 99025, 250244, 83908, 48261, 210672, 173129, 105763, 33188, 151816,
       17459, 19835, 163778, 17168, 36004, 237930, 121888, 191130, 65669, 12423, 18539, 250221, 534, 189327, 259482,
       50991, 1204, 8299, 13611, 250326, 196547, 113119, 240973, 238201, 120939, 74499, 196573, 63232, 154253, 29303,
       55767, 106109, 67304, 70652, 250637, 229348, 29647, 204961, 241602, 39054, 257264, 261748, 13235, 73318, 254630,
       58517, 27876, 250664, 80175, 168912, 40356, 121926, 74793, 104692, 96871, 209353, 142511, 94773, 107396, 72550,
       40370, 10475, 44276, 116430, 99376, 129267, 124119, 98848, 3116, 122193, 148797, 201269, 5085, 259599, 69320,
       79213, 117073, 246547, 84308, 209992, 118037, 38674, 204650, 144458, 130077, 117878, 136882, 38166, 136997, 12703,
       28391, 189598, 146728, 63457, 246073, 61146, 42355, 150303, 56030, 121114, 102069, 119443, 57681, 193285, 215017,
       53759, 32094, 79083, 82033, 292, 253556, 10631, 226017, 260815, 99186, 131283, 16082, 100715, 149519, 129718,
       62131, 134796, 239985, 125265, 63051, 160174, 75935, 35633, 76456, 91126, 8527, 197627, 121155, 194512, 227321,
       87339, 56846, 212592, 56600, 78245, 248446, 3246, 211689, 215680, 95459, 169842, 184136, 126466, 240614, 206455,
       61634, 172520, 36938, 44534, 40604, 14815, 68060, 97396, 182236, 95477, 189116, 220697, 90, 131562, 144964,
       116288, 161198, 23343, 116177, 92469, 172867, 70949, 721, 244913, 16040, 112627, 155330, 88054, 243561, 7961,
       18067, 185266, 152818, 66525, 57732, 170547, 12272, 70172, 176777, 77209, 254809, 146684, 41689, 257577, 246514,
       108919, 185260, 113974, 104850, 141205, 4257, 130871, 253704, 153303, 33751, 119567, 202210, 8100, 102978, 199983,
       58065, 84926, 179317, 10931, 220704, 123218, 23396, 82484, 110669, 78289, 84968, 92368, 77611, 203147, 212651,
       5679, 5022, 245762, 58052, 107892, 177244, 69496, 216140, 194346, 35130, 123967, 203778, 114300, 116374, 220257,
       21115, 136824, 149337, 33279, 109415, 46263, 20577, 149937, 199911, 15276, 103, 121494, 115209, 146697, 105638,
       36419, 145878, 250479, 94702, 175185, 134029, 56096, 132082, 73097, 83345, 54753, 43744, 121657, 238651, 231357,
       110704, 115959, 42095, 9042, 48346, 134100, 110782, 101372, 43047, 59221, 107949, 145438, 45894, 78830, 69742,
       88131, 60336, 174021, 124545, 169434, 236954, 12338, 138396, 70752, 100673, 102893, 227708, 26674, 53636, 165215,
       49825, 52924, 147218, 114533, 191466, 194478, 71538, 259692, 34569, 8841, 177670, 198949, 66590, 246300, 246431,
       103499, 247288, 212160, 69321, 114399, 141518, 21874, 132731, 197883, 58332, 111093, 259587, 121155, 208687, 135009,
       86272, 29724, 106794, 95667, 179353, 253928, 103014, 70753, 215691, 11887, 96598, 257170, 76223, 41915, 247171,
       49271, 250662, 105739, 18239, 228039, 74173, 26569, 143452, 5007, 102388, 69628, 158548, 21166, 183503, 10223,
       40949, 86949, 113569, 37338, 240698, 193526, 6374, 20724, 221557, 60576, 8456, 111403, 100391, 250681, 46542,
       2903, 154633, 108680, 14752, 90103, 112234, 94396, 80863, 23875, 77801, 222195, 193871, 93748, 245175, 12833,
       30160, 48647, 5389, 105351, 152558, 121771, 62897, 172907, 200254, 79993, 131166, 68006, 12078, 192072, 193432,
       26873, 235849, 110164, 101365, 147916, 251896, 29348, 33345, 165975, 12128, 18232, 228979, 78276, 164786, 181672,
       71819, 35401, 154807, 79677, 228867, 94770, 81042, 141038, 139511, 65561, 227152, 71396, 64719, 245187, 178422,
       121132, 60024, 15926, 69976, 247842, 85048, 80910, 202409, 118916, 34992, 55611, 73220, 114175, 243273, 185329,
       3193, 255496, 77602, 73036, 216580, 52234, 50312, 6787, 127554, 79154, 243982, 208534, 47208, 123445, 160143,
       94068, 207084, 129664, 2664, 231445, 55311, 53200, 194122, 115896, 108955, 100281, 259839, 32794, 80866, 101508,
       6914, 42763, 217593, 65080, 105775, 123867, 127996, 50787, 78161, 8409, 102492, 108665, 9182, 116553, 226122,
       78003, 31038, 8059, 32776, 229444, 203597, 53769, 217122, 41142, 108856, 61225, 212760, 26063, 129691, 87117,
       94280, 21322, 209958, 66123, 242534, 83736, 118614, 161129, 121476, 127528, 19740, 24326, 63564, 204497, 207201,
       76630, 225268, 217074, 97759, 19267, 122346, 41769, 67403, 96733, 29719, 81585, 117276, 126443, 56340, 165314,
       56703, 200424, 72003, 208, 134430, 228291, 109801, 108219, 106952, 78599, 47434, 164589, 22093, 80722, 198120,
       3950, 123172, 14740, 38205, 48549, 121237, 121620, 4555, 135936, 122354, 145395, 68640, 40763, 222548, 229809,
       109567, 38559, 5849, 57913, 144234, 62441, 85766, 72078, 211807, 43836, 59689, 186259, 67629, 146836, 243463,
       38506, 68057, 95698, 8010, 100061, 24958, 18268, 151419, 195996, 38099, 75324, 92037, 127959, 140502, 49759,
       126572, 152063, 223792, 108483, 128352, 144931, 30475, 8684, 167349, 57881, 177147, 200747, 57643, 56677, 72614,
       50721, 93623, 96681, 5882, 144532, 199145, 70061, 149944, 231102, 9543, 160807, 121398, 105109, 22365, 230759,
       90611, 2576, 20001, 46233, 247708, 257774, 84821, 120557, 61416, 30544, 164239, 113380, 34766, 224530, 1283,
       41174, 28398, 46298, 104465, 237090, 10228, 27615, 192994, 8652, 73764, 225718, 220771, 26275, 164002, 238589,
       37360, 111510, 61075, 30865, 1057, 150522, 84542, 13696, 56623, 69039, 109106, 92646, 94542, 31890, 98742,
       28828, 111730, 136314, 1199, 30637, 261342, 89195, 196603, 136115, 15054, 36188, 110085, 32283, 188317, 230334,
       40066, 234717, 75542, 97884, 221207, 206888, 82036, 233676, 226228, 24152, 10301, 76753, 78366, 92042, 81437,
       92818, 98045, 216103, 50973, 140027, 240473, 32237, 141648, 221300, 88995, 165153, 191710, 80070, 191728, 45972,
       10212, 26852, 194913, 87383, 8861, 184592, 64031, 5896, 77872, 98745, 150976, 85921, 24997, 191273, 46906,
       33844, 247025, 108382, 71213, 22895, 102832, 63141, 203677, 123101, 50641, 178759, 250731, 97784, 20601, 162378,
       74023, 30657, 48939, 93096, 197245, 250672, 20087, 113880, 231346, 95549, 250038, 140253, 60493, 108051, 210777,
       4426, 8091, 91714, 30735, 72604, 216388, 3375, 246881, 133687, 59883, 119890, 161828, 42713, 186640, 26010,
       129426, 259186, 56638, 113836, 149846, 44221, 108222, 86771, 123752, 65682, 91308, 154308, 105786, 150133, 203350,
       34979, 36289, 47360, 73485, 117191, 95689, 51500, 145786, 261281, 22458, 33299, 103284, 9517, 154055, 215243,
       73166, 209687, 29547, 12797, 198360, 252116, 94110, 26709, 142649, 120778, 187811, 102154, 21247, 149949, 142485,
       61726, 225801, 2430, 96832, 173922, 120917, 37596, 169882, 173174, 120686, 117209, 32748, 116452, 251063, 196356,
       13599, 76261, 108039, 3591, 89877, 46400, 127986, 96018, 101300, 125367, 24758, 173640, 55349, 214630, 6089,
       6627, 114299, 78014, 81117, 67226, 184786, 38457, 222716, 105123, 122778, 40721, 50996, 104157, 243227, 229924,
       85143, 145876, 79741, 37290, 128005, 66639, 91916, 177011, 82952, 37901, 226246, 45687, 4932, 96561, 259212,
       66641, 141103, 229268, 64052, 225615, 111306, 100008, 188454, 105551, 113465, 159149, 185999, 46460, 234291, 61659,
       58913, 85562, 19799, 61656, 84883, 48076, 42496, 183287, 167592, 97437, 55273, 250069, 68432, 221917, 81569,
       119794, 2951, 240255, 85237, 139852, 58842, 27773, 185012, 177313, 21601, 209507, 191832, 48809, 41927, 37932,
       45472, 93188, 38016, 53363, 152711, 147390, 24063, 170070, 94824, 128217, 157759, 198330, 19098, 123561, 112782,
       85543, 256936, 142494, 1713, 2825, 128240, 53341, 51698, 160147, 40525, 75100, 166298, 50072, 192234, 224500,
       65283, 260501, 113329, 78692, 92327, 16557, 76481, 261877, 233829, 82668, 236498, 126485, 110696, 145187, 222550,
       116223, 207361, 88228, 96632, 228430, 261716, 10347, 30845, 17202, 125998, 135355, 112819, 124177, 94889, 59869,
       93284, 115280, 23902, 67821, 202890, 196863, 32849, 12966, 167491, 99136, 119683, 136328, 115062, 233136, 98938,
       87187, 123004, 56589, 82453, 211847, 157119, 25297, 134384, 219801, 46897, 27747, 163703, 94782, 238785, 120868,
       2214, 249429, 177522, 84051, 207444, 250284, 100489, 2541, 59750, 43870, 101298, 225419, 9983, 121069, 213207,
       107363, 161278, 160656, 18590, 219392, 13634, 48601, 168443, 179952, 92701, 55065, 215719, 107083, 258834, 6642,
       113034, 32196, 146619, 69522, 220761, 169674, 62373, 119274, 251620, 111190, 168331, 103201, 73803, 168034, 221401,
       75844, 238098, 209706, 56881, 198518, 248192, 48865, 123975, 37177, 62985, 118291, 160682, 47821, 76203, 162388,
       45029, 83962, 51967, 130241, 150113, 552, 44068, 45900, 26167, 33604, 191511, 7814, 46389, 141113, 32814,
       77434, 233800, 249795, 119405, 90456, 28562, 103266, 247202, 77480, 110394, 60445, 106798, 112591, 256014, 250746,
       120655, 130542, 60016, 30811, 67276, 155269, 60078, 249671, 58944, 50488, 164771, 139146, 50053, 99991, 177739,
       85496, 32190, 55236, 52665, 34267, 256740, 80783, 169307, 153229, 50106, 31657, 45347, 40780, 50637, 84534,
       46278, 139443, 5070, 105350, 11756, 17487, 78780, 252030, 167768, 127663, 217805, 124778, 109137, 240360, 234303,
       63672, 61838, 158737, 31768, 196868, 111973, 88330, 161233, 107516, 95242, 248536, 153274, 60840, 124262, 94835,
       30136, 92730, 168817, 73038, 89338, 106486, 33269, 237965, 56527, 123207, 120452, 37224, 82429, 30450, 51123,
       38263, 255592, 123957, 28276, 66265, 32195, 93942, 92851, 96122, 92771, 230903, 192711, 78267, 82797, 192581,
       80517, 174056, 92334, 79150, 83345, 166058, 47199, 125561, 216105, 122868, 204878, 65501, 62819, 258701, 128632,
       2664, 109714, 150286, 45660, 109541, 259032, 17076, 104372, 62889, 47629, 115411, 151324, 79726, 47300, 235219,
       2970, 177734, 215355, 114058, 242228, 179352, 79994, 114498, 44886, 38714, 257573, 137450, 40790, 74594, 211354,
       61036, 15527, 104486, 32517, 233097, 122221, 569, 27565, 230390, 3480, 245851, 42258, 46889, 205876, 144471,
       16281, 257843, 237525, 2931, 65945, 215170, 112626, 37162, 15586, 35931, 190309, 176893, 65945, 74038, 127187,
       23515, 133033, 174760, 6124, 87965, 143585, 97631, 30305, 148895, 16378, 90400, 249478, 3370, 200758, 59009,
       76969, 118904, 232133, 1765, 58104, 223635, 57184, 228421, 83450, 37858, 83504, 247655, 41866, 197688, 129749,
       511, 14517, 74348, 126398, 201706, 41719, 67759, 101651, 63946, 75040, 81343, 214398, 87310, 1662, 162348,
       104532, 203475, 65210, 79679, 226411, 237335, 99902, 217601, 87912, 58816, 165806, 208633, 48663, 203214, 220380,
       107889, 211686, 240490, 113417, 257169, 177505, 18062, 156191, 64072, 71127, 145758, 177646, 89606, 99784, 201343,
       10957, 118910, 149348, 121844, 29875, 1727, 68171, 217089, 52575, 84601, 103442, 180512, 23362, 166062, 99060,
       34659, 257866, 76462, 15859, 228451, 98511, 34602, 220324, 101194, 64539, 112412, 177133, 109265, 130773, 45439,
       69956, 51236, 255635, 32042, 87227, 188830, 5848, 150346, 247555, 81522, 217666, 144852, 55071, 51922, 63900,
       129021, 60301, 95327, 102204, 180276, 159234, 105953, 191744, 170876, 1603, 175353, 25409, 101947, 49774, 113997,
       25508, 93285, 194048, 76781, 114444, 230826, 58644, 115428, 253568, 74921, 68131, 259640, 17490, 186197, 229811,
       59885, 185195, 210396, 4842, 108495, 101468, 5373, 227164, 6149, 86211, 13704, 14263, 124741, 2413, 197985,
       101894, 116559, 218167, 61493, 48882, 66477, 7323, 23500, 121, 5900, 230956, 166293, 20695, 66702, 1263,
       127901, 113867, 241012, 52253, 79508, 111734, 110547, 21118, 106823, 92424, 112658, 117232, 79354, 195355, 40126,
       124233, 121662, 204818, 30200, 132483, 112604, 59623, 78076, 196070, 113340, 253901, 99652, 72320, 120092, 45365,
       32302, 15031, 162111, 27383, 24271, 126002, 98681, 162154, 13474, 1676, 69716, 135735, 119824, 257941, 173399,
       2414, 21636, 236797, 82704, 261187, 234535, 79265, 137573, 191030, 75813, 132747, 98567, 62173, 24212, 120753,
       111729, 196232, 33522, 86420, 20440, 158209, 102480, 66312, 33221, 15141, 176725, 63916, 6540, 82367, 250978,
       3739, 75686, 224486, 19294, 152811, 19990, 87426, 15254, 139823, 64752, 109987, 96110, 98599, 54452, 122283,
       25130, 125487, 174942, 48098, 152000, 217701, 116457, 39500, 202308, 122645, 256108, 176239, 120812, 231683, 153528,
       107256, 230359, 249791, 90208, 118772, 24688, 119757, 154383, 107186, 93609, 54946, 160234, 125034, 87029, 251485,
       3249, 14747, 96102, 120801, 123596, 72208, 72842, 6174, 63168, 14653, 145470, 178662, 28168, 222808, 133201,
       111694, 58107, 46835, 66337, 199624, 35431, 128819, 231906, 191285, 15405, 9852, 181289, 54067, 171447, 131641,
       43499, 117179, 73564, 67650, 236945, 168900, 83025, 252128, 199256, 86721, 25640, 134300, 169, 223758, 190065,
       11660, 58189, 219798, 4595, 232470, 156652, 113324, 193807, 115589, 41063, 220779, 75232, 48111, 193843, 86364,
       59031, 15818, 72812, 111320, 6804, 111359, 1856, 209756, 81728, 15547, 140105, 93139, 89805, 183696, 42825,
       126339, 84079, 27403, 84251, 79118, 70308, 34225, 255658, 75706, 68139, 175743, 245875, 127792, 168006, 232337,
       69216, 12874, 90771, 48956, 102771, 239299, 50256, 92883, 226405, 126751, 4204, 78891, 94229, 216790, 244499,
       90069, 31596, 200535, 30415, 216020, 120001, 73332, 201966, 123645, 46759, 80389, 69969, 31483, 182031, 245394,
       117381, 217378, 80986, 50220, 261663, 68902, 37065, 125556, 90790, 122122, 119491, 155378, 25866, 153846, 26233,
       97714, 210538, 249531, 85556, 229040, 65842, 120649, 192674, 180818, 109058, 21604, 171700, 92444, 119224, 159284,
       41231, 140695, 141420, 64955, 58050, 142741, 123796, 248625, 150488, 3041, 56412, 60155, 104114, 173227, 218316,
       33005, 75039, 248954, 24250, 141765, 58137, 30438, 37922, 42095, 7831, 178771, 15797, 130020, 204348, 211639,
       114015, 128015, 160511, 68295, 222277, 75536, 93730, 1001, 90929, 72954, 17670, 234286, 106375, 72196, 80794,
       110725, 16564, 76628, 30512, 80477, 240831, 60260, 15674, 213310, 83210, 199810, 71111, 128246, 51524, 70500,
       89481, 121188, 93477, 117654, 213943, 33060, 110901, 156957, 243324, 76292, 44533, 176157, 117133, 51210, 232611,
       49469, 110286, 124141, 49713, 118201, 129851, 102362, 191048, 56343, 17634, 237854, 76192, 40085, 32218, 54521,
       79766, 211885, 257052, 55058, 219722, 122052, 123302, 141060, 87521, 125633, 80624, 66460, 65874, 88423, 128138,
       70655, 241197, 32587, 94978, 84457, 112588, 59934, 164699, 238363, 24916, 153718, 155299, 97906, 194738, 221872,
       96703, 18897, 202170, 32110, 42777, 169214, 109172, 8934, 15864, 80432, 59630, 191409, 30972, 137538, 97792,
       85464, 19583, 86851, 30619, 175067, 161503, 34764, 160892, 199536, 111150, 72315, 101053, 121830, 83614, 89636,
       33670, 32452, 121756, 121641, 132522, 104346, 31299, 220832, 105135, 15370, 122719, 38761, 7631, 136353, 78346,
       31734, 69914, 114781, 50495, 9064, 222003, 121575, 162864, 57128, 31740, 34953, 161839, 47902, 71747, 21906,
       96227, 73089, 136135, 39593, 119238, 260887, 89701, 131695, 26772, 56633, 79671, 260712, 25748, 113465, 21838,
       96214, 148968, 298, 3544, 8903, 238975, 38316, 238601, 95054, 46685, 111857, 88352, 60059, 152860, 214089,
       89111, 214951, 40173, 60215, 34445, 48441, 77899, 65547, 248577, 78089, 250443, 147943, 48925, 121030, 162141,
       122417, 126286, 147125, 125285, 176506, 252993, 76264, 94130, 177036, 9396, 174866, 84580, 64373, 18901, 38551,
       24172, 55050, 169025, 63335, 234307, 44875, 24704, 226499, 90497, 92255, 187369, 115353, 10542, 1474, 169866,
       124951, 123706, 29317, 25608, 80892, 90517, 86593, 143465, 213270, 120188, 23392, 97389, 32490, 250333, 131147,
       122460, 42768, 248905, 50944, 95886, 93544, 125898, 182263, 52485, 127318, 158233, 166033, 24652, 2442, 119893,
       108932, 73249, 238261, 25352, 20707, 218722, 29680, 6550, 121526, 11026, 164924, 15326, 20517, 160078, 158075,
       82866, 53636, 67509, 58884, 118969, 180647, 103670, 168572, 209326, 43515, 127536, 118510, 126959, 146613, 73817,
       6536, 234270, 78935, 8249, 37071, 54596, 91930, 160101, 71730, 116331, 130215, 24617, 104267, 210008, 63763,
       64201, 80043, 74140, 35342, 113379, 165635, 1763, 31155, 146667, 66774, 215211, 230870, 62342, 154049, 235187,
       45120, 261760, 14227, 75769, 41016, 103526, 95527, 52432, 202806, 91866, 215718, 2986, 34505, 20048, 88642,
       76716, 242502, 163253, 19500, 44159, 257374, 15938, 156469, 18414, 103003, 182496, 217354, 90930, 173769, 229312,
       100653, 256078, 243435, 19983, 140300, 169687, 119880, 232717, 72936, 17447, 53836, 16425, 114037, 127269, 199727,
       46187, 15327, 150223, 13819, 119915, 188848, 37587, 99929, 24846, 23782, 197687, 205040, 64313, 16087, 91084,
       124485, 5834, 228472, 42974, 191074, 101604, 80229, 10027, 93220, 116879, 167411, 185857, 82585, 13136, 225485,
       47474, 43461, 104721, 129871, 69750, 141738, 24564, 177096, 26572, 68584, 55675, 76537, 104425, 205292, 247283,
       85, 12748, 238127, 92018, 55874, 166197, 34930, 142446, 46323, 22246, 110361, 196867, 35939, 56807, 75669,
       126722, 147473, 193949, 116907, 193540, 175597, 28017, 58751, 22771, 15338, 244634, 105133, 47730, 55097, 37456,
       77638, 190610, 15876, 113658, 99813, 69164, 126627, 95648, 74836, 98455, 45684, 175545, 78513, 19236, 255281,
       18655, 194859, 65295, 9703, 12411, 260781, 78122, 114038, 146556, 70656, 55173, 191757, 110898, 120706, 5229,
       42284, 155735, 96311, 5202, 94386, 36985, 55536, 76086, 85470, 127032, 173786, 51427, 104277, 155697, 200646,
       4426, 153706, 122466, 114645, 239413, 249121, 61825, 74654, 84913, 47810, 229498, 72158, 45447, 221535, 216106,
       78006, 195961, 166244, 69546, 190571, 219560, 86065, 116954, 241794, 75188, 87583, 212919, 18867, 27083, 14272,
       33716, 114855, 200375, 110235, 112217, 44568, 86934, 162539, 76055, 58772, 201005, 78139, 23933, 245071, 113718,
       1008, 20831, 251478, 40879, 184997, 219112, 7188, 236018, 73742, 63213, 247959, 241867, 107715, 41947, 56192,
       37407, 202727, 176465, 111116, 218487, 108713, 92348, 174200, 247237, 16418, 100671, 261992, 84484, 4250, 1611,
       19880, 255774, 190610, 85824, 198050, 101752, 18705, 228836, 152478, 51447, 65474, 199527, 74264, 168870, 50390,
       6602, 168662, 165523, 20094, 113082, 218282, 41996, 163975, 155575, 60597, 57221, 102885, 112523, 169499, 102971,
       24546, 67695, 55096, 45543, 186757, 195837, 62360, 247160, 78317, 38768, 75206, 172897, 82018, 3369, 54075,
       33633, 103371, 129530, 101233, 134845, 226929, 66211, 146150, 160043, 11312, 40287, 158460, 82181, 261933, 51146,
       74611, 231874, 54766, 44380, 165782, 167326, 1462, 99766, 104344, 26306, 92415, 43400, 53177, 41777, 210285,
       26203, 34665, 60086, 75692, 240177, 86606, 93365, 222428, 83764, 112199, 248068, 91001, 84801, 80162, 161773,
       90309, 214079, 119220, 79749, 181445, 120255, 129169, 164768, 231807, 34209, 227171, 127076, 34899, 15144, 164437,
       16558, 210514, 86986, 63659, 161470, 82729, 12604, 28001, 204376, 35408, 171638, 111255, 63265, 250267, 211880,
       125513, 254953, 183293, 126328, 235072, 7064, 97483, 136306, 180124, 51019, 208975, 115936, 113398, 109687, 90138,
       114747, 194738, 77111, 119301, 102523, 107061, 83889, 95189, 168114, 26449, 101005, 166218, 11938, 36450, 198150,
       119901, 119240, 71878, 7280, 141422, 109817, 38782, 236419, 257287, 63827, 13822, 166622, 2880, 138697, 85595,
       118870, 210650, 240228, 37633, 137111, 201815, 3736, 47449, 37595, 130231, 217085, 200545, 40814, 243006, 122983,
       114919, 86495, 115641, 59437, 210665, 76845, 86917, 62417, 77076, 31600, 44061, 53872, 65912, 229338, 171161,
       33770, 224681, 243047, 124660, 122286, 76267, 7988, 62153, 92296, 36002, 15997, 151403, 117061, 148548, 102824,
       62919, 71571, 47877, 78654, 58907, 215198, 85418, 197548, 196636, 9296, 160123, 165905, 2325, 13696, 156427,
       122924, 184111, 149541, 35586, 110346, 149003, 49848, 104860, 127156, 89403, 82856, 173204, 30972, 215423, 147518,
       96085, 34244, 7132, 60062, 188560, 81619, 112277, 146905, 36223, 36508, 230217, 198799, 26715, 110142, 61795,
       109011, 14658, 223662, 42772, 55047, 213052, 53984, 117222, 146738, 104032, 228863, 207555, 83306, 75473, 7804,
       57897, 234857, 163735, 32753, 170074, 159118, 100165, 91590, 83555, 23649, 119682, 143116, 121671, 121584, 131389,
       19702, 59719, 150048, 105504, 70482, 235249, 55607, 38655, 183285, 24380, 54778, 108197, 52740, 160482, 159669,
       29039, 62823, 153339, 17824, 251606, 112423, 31346, 151112, 143827, 113691, 171073, 56936, 13886, 21131, 232794,
       127472, 185820, 59585, 655, 41240, 249860, 86276, 155024, 188299, 112264, 193692, 24384, 122415, 182676, 112257,
       18872, 125751, 245183, 91515, 153104, 109330, 14070, 124901, 30912, 46217, 129427, 19706, 95935, 13508, 152970,
       45347, 105565, 77561, 41074, 171018, 230839, 15211, 133954, 117629, 8708, 45586, 204894, 15109, 187924, 7801,
       114750, 60214, 236347, 1467, 213154, 51380, 90815, 82641, 91581, 100745, 30162, 70097, 74434, 67056, 17215,
       95784, 49320, 8831, 85494, 76037, 22125, 59710, 252256, 161224, 50162, 162844, 139951, 123382, 69831, 8119,
       127393, 224542, 167879, 85363, 116763, 30447, 25860, 92679, 58041, 58707, 10228, 159570, 65082, 42441, 37165,
       99348, 170581, 85870, 87526, 231776, 96592, 67477, 198415, 56014, 89176, 194856, 111865, 3153, 46927, 191771,
       101795, 37987, 77124, 27739, 15774, 187160, 86036, 225113, 179590, 14938, 184052, 99020, 15002, 160087, 198002,
       4673, 188401, 12690, 119306, 9146, 221270, 79240, 190182, 97981, 47443, 19636, 2159, 103255, 158353, 146148,
       82061, 221826, 85247, 81275, 50762, 152717, 63837, 176460, 87173, 1038, 256569, 36882, 33877, 51810, 183095,
       14296, 236064, 132406, 86823, 100707, 59479, 32587, 59861, 114923, 59004, 64222, 208358, 46324, 213924, 148000,
       18769, 90433, 194853, 125615, 131901, 138796, 122345, 35655, 39269, 11089, 200320, 2632, 108444, 113145, 254223,
       64012, 30235, 249358, 101415, 28800, 34366, 19812, 122542, 171588, 17337, 114238, 233095, 116753, 96248, 24311,
       117678, 261209, 91635, 61068, 10222, 179053, 114053, 84632, 241956, 87485, 47105, 11622, 24249, 156495, 169006,
       43116, 181765, 135385, 17833, 194401, 172434, 101442, 262126, 191027, 129138, 205255, 112291, 71614, 235934, 197610,
       85965, 120713, 227887, 97791, 221535, 99869, 29394, 23350, 40413, 44040, 93200, 1672, 54043, 200752, 177614,
       77933, 230489, 259297, 111475, 200069, 30861, 33318, 253492, 85825, 61720, 88313, 112228, 98505, 13843, 176590,
       11453, 190488, 69914, 67225, 254638, 195613, 18924, 35777, 77532, 70667, 84984, 248401, 100640, 17031, 208069,
       31057, 44842, 125589, 111342, 219888, 28786, 43883, 116474, 246416, 25006, 145132, 109985, 60990, 227551, 37743,
       114828, 239379, 225174, 9035, 50906, 222171, 42935, 117236, 6838, 85611, 105613, 102893, 46868, 220101, 205122,
       9283, 11177, 49619, 43515, 201545, 194741, 107604, 206742, 106186, 126882, 160995, 178154, 5213, 246143, 19564,
       74617, 44183, 20239, 13802, 86920, 14342, 89180, 244808, 77502, 1034, 117924, 203884, 1932, 56194, 111235,
       101827, 50491, 139401, 9756, 101349, 56834, 40000, 202483, 55501, 125572, 71950, 45979, 129138, 81311, 84222,
       21155, 103786, 65980, 73518, 140678, 168900, 73288, 197983, 183608, 59294, 115833, 114234, 121202, 78418, 209475,
       98832, 192030, 27902, 100208, 19533, 83979, 35333, 1195, 158612, 56927, 42252, 235318, 63887, 157025, 256767,
       39178, 261898, 217209, 12427, 250459, 53520, 16562, 40982, 112353, 23680, 242774, 248477, 26693, 65494, 144297,
       31753, 193949, 8553, 33483, 172206, 174947, 59731, 171136, 255022, 66790, 203756, 34004, 40485, 108938, 140669,
       118921, 40986, 183313, 72501, 34030, 229214, 103216, 46114, 16835, 121141, 183807, 206466, 21382, 116847, 120159,
       56082, 95506, 212934, 56781, 197597, 55086, 46461, 101399, 203954, 1167, 81196, 171618, 106951, 25194, 220422,
       14622, 79533, 27180, 130479, 165919, 3104, 101313, 56479, 102772, 76023, 19143, 204187, 20264, 150047, 161219,
       67553, 154021, 203968, 34224, 11765, 123791, 33072, 109559, 171213, 108728, 15145, 101089, 49891, 216514, 126942,
       59077, 70872, 193436, 110489, 19427, 150625, 11506, 234066, 226084, 77937, 196933, 39406, 75787, 232204, 66173,
       55733, 189798, 69409, 108760, 58143, 192112, 123586, 127433, 73891, 60992, 131620, 157140, 59788, 27857, 167711,
       65806, 130331, 143935, 94781, 82043, 9846, 87563, 261730, 122256, 29207, 110745, 260888, 8374, 233604, 211181,
       124420, 167065, 65114, 34218, 245248, 64671, 83702, 37920, 168014, 108585, 6788, 100340, 39357, 229178, 208279,
       83287, 138515, 140821, 14142, 183607, 191752, 127130, 223943, 168833, 7622, 241546, 176603, 57432, 112944, 172931,
       70361, 254724, 23714, 103610, 7259, 142730, 15876, 146011, 134274, 57777, 152764, 50345, 39283, 208363, 98477,
       40895, 227679, 61760, 102077, 75952, 42458, 715, 203682, 140461, 98183, 233580, 13776, 106220, 142352, 227504,
       118143, 92281, 54240, 82166, 170842, 172876, 43706, 172172, 222760, 55998, 133920, 26647, 127105, 64953, 106270,
       115498, 241097, 174092, 60755, 70243, 116963, 123609, 40492, 228227, 107866, 89503, 166715, 118107, 170484, 180319,
       89519, 50355, 86195, 112414, 112927, 160288, 116885, 149861, 180445, 12060, 209130, 87667, 126512, 241058, 108053,
       43727, 88101, 175888, 57658, 133305, 129919, 103796, 107354, 131284, 87149, 75645, 84096, 117055, 39018, 66039,
       52504, 697, 204034, 48927, 164151, 205513, 4153, 136547, 110798, 60650, 89278, 158257, 94905, 105908, 111252,
       39476, 25395, 169485, 60650, 128345, 201842, 28756, 237059, 177521, 101290, 221063, 189835, 7931, 97351, 241434,
       92455, 253699, 9876, 49668, 111468, 189918, 5452, 20973, 73045, 111865, 253164, 102419, 63926, 178271, 67719,
       78553, 245362, 259401, 95948, 190526, 33149, 85861, 240145, 127609, 95794, 228529, 169143, 99913, 205772, 213252,
       77221, 70625, 80422, 47924, 231151, 113651, 31869, 33514, 127564, 118345, 87303, 2662, 127129, 259322, 102838,
       46879, 150113, 39981, 14720, 207586, 221136, 29168, 108144, 218788, 87905, 186220, 21173, 22666, 189442, 226701,
       102252, 48909, 111413, 120983, 109995, 222151, 126307, 191728, 9436, 1222, 81977, 117038, 125587, 47896, 11343,
       97018, 199990, 195926, 11016, 165686, 92767, 54426, 104523, 11197, 91756, 94488, 66670, 125394, 178492, 77290,
       21514, 89323, 221867, 16742, 67299, 234913, 61911, 123984, 255304, 126890, 172543, 53667, 127320, 161612, 99194,
       29873, 63160, 206683, 41857, 123044, 227084, 119017, 149008, 137851, 96317, 37719, 164624, 127443, 120307, 153066,
       117066, 194573, 5750, 28193, 18220, 201952, 99578, 240888, 147356, 6365, 142090, 49006, 107194, 256370, 86895,
       78847, 65003, 25654, 125318, 17137, 152507, 125833, 98042, 185112, 6660, 114811, 57211, 21039, 228630, 36405,
       63465, 258501, 212871, 115276, 255669, 131011, 106750, 250004, 99884, 126401, 238051, 101812, 81013, 136681, 94881,
       33628, 76974, 238691, 3290, 203804, 182868, 29219, 110360, 119129, 88509, 107112, 159702, 121408, 181834, 244148,
       42061, 127266, 11454, 114780, 83356, 121857, 51760, 27054, 257852, 40405, 191154, 178225, 66695, 60972, 228321,
       57969, 175950, 77598, 119773, 151090, 251014, 61375, 98201, 246825, 36350, 236945, 45310, 110436, 198016, 222360,
       130908, 25163, 207219, 84957, 32572, 179712, 32828, 123875, 247570, 31301, 254220, 132805, 7563, 191912, 9957,
       10130, 249861, 3068, 119928, 174129, 163200, 12646, 198730, 28250, 63483, 240354, 246522, 91504, 57123, 68194,
       111457, 184048, 20572, 22448, 216528, 198394, 57380, 138157, 219122, 32962, 3177, 106696, 33531, 63975, 195496,
       39824, 216455, 41022, 76954, 130143, 7635, 2172, 220821, 241104, 53577, 213563, 120722, 24488, 52293, 224608,
       126762, 41195, 90312, 76379, 124875, 64296, 113783, 2435, 119586, 25649, 125290, 168100, 106170, 99022, 193437,
       54366, 96146, 21732, 23290, 209258, 65178, 99777, 244099, 250318, 99878, 83515, 150356, 130533, 5171, 184625,
       102359, 2301, 54326, 19040, 122872, 56493, 42276, 153195, 191821, 59208, 196739, 237752, 16600, 166867, 199674,
       103289, 221369, 213366, 69035, 112921, 127035, 123790, 234335, 236042, 77241, 208960, 10149, 68537, 112382, 29708,
       9361, 219583, 175009, 19575, 17420, 59740, 111349, 21478, 107405, 129849, 231149, 146104, 54418, 94293, 83062,
       106179, 158116, 90782, 82258, 241582, 157805, 125705, 214202, 200328, 31213, 32433, 140997, 71412, 186255, 75447,
       53581, 179700, 48245, 71003, 208771, 43984, 35239, 200988, 103228, 65240, 153364, 154382, 81894, 86276, 184658,
       10645, 33645, 143756, 97384, 216389, 248639, 92605, 99045, 46148, 115403, 88797, 259483, 55817, 228054, 127842,
       8083, 25310, 6081, 60484, 165964, 49035, 18036, 185965, 22568, 84862, 38991, 211011, 6177, 163350, 9633,
       49020, 119788, 145713, 10858, 100765, 177504, 441, 64289, 244688, 125902, 41012, 196894, 130564, 105843, 102936,
       72810, 231437, 74680, 31320, 110405, 165123, 119419, 150196, 21567, 120984, 66283, 163593, 112002, 49645, 197982,
       71351, 173701, 33409, 9791, 94799, 239008, 11591, 227307, 186354, 117521, 196297, 99230, 114796, 98710, 78813,
       56937, 82901, 169225, 43011, 231285, 120736, 84426, 160028, 189235, 105773, 137456, 49534, 95903, 107144, 185024,
       80688, 80817, 260671, 30344, 161380, 111890, 34407, 10018, 196563, 94904, 255045, 157742, 105200, 259339, 47236,
       15222, 18710, 110199, 24549, 104500, 120400, 89190, 156815, 162227, 50985, 65534, 46790, 73831, 241879, 260352,
       80585, 6677, 257416, 101738, 141783, 167766, 105606, 244361, 77514, 36712, 203177, 11221, 70948, 221473, 57678,
       16190, 138853, 61000, 110364, 160482, 87859, 110814, 144748, 234252, 39256, 213280, 141833, 21052, 212815, 166533,
       9187, 18232, 185872, 75363, 81839, 221680, 11983, 174057, 58486, 89206, 243131, 202749, 88883, 100567, 253418,
       80476, 146126, 75843, 114892, 141059, 193646, 49582, 1823, 219878, 118262, 73068, 100937, 4839, 231196, 182178,
       14779, 74428, 37565, 54028, 159249, 253750, 77855, 223594, 146255, 4243, 141412, 111683, 74374, 202123, 32004,
       40291, 81825, 31620, 116280, 27890, 110318, 69898, 177733, 110967, 77056, 112810, 128982, 123944, 142088, 257348,
       100161, 111360, 67578, 57445, 92678, 128896, 62505, 148082, 241541, 84924, 177550, 21854, 26240, 134145, 154712,
       11619, 168549, 126184, 40794, 102922, 120405, 102024, 49831, 63094, 33727, 247713, 156080, 17138, 228040, 196896,
       28707, 191371, 220930, 88994, 88479, 124559, 80471, 104775, 139287, 90218, 215829, 229684, 42199, 182204, 196706,
       118077, 3740, 166989, 59214, 116464, 55823, 67333, 103421, 63390, 124362, 41688, 237165, 128355, 217596, 83675,
       86709, 190885, 195625, 123838, 145431, 141291, 70976, 119574, 261391, 40276, 49870, 163227, 41299, 223036, 166794,
       73261, 120847, 160689, 79303, 77176, 236532, 57621, 128080, 144005, 115837, 182422, 148421, 55927, 239513, 167422,
       35838, 48302, 121702, 1046, 52627, 149221, 127214, 119649, 135009, 108044, 102406, 15381, 80682, 164071, 184194,
       108860, 218707, 181393, 106206, 60289, 217722, 122139, 142990, 151000, 50602, 173904, 157902, 72725, 155470, 254574,
       12927, 97602, 204616, 126525, 215870, 78238, 129122, 150791, 204814, 103426, 222965, 59280, 59522, 143000, 103754,
       65085, 261403, 174366, 57064, 108695, 141913, 38444, 212795, 119376, 69178, 176975, 140143, 7005, 39885, 25966,
       130008, 162786, 200623, 55581, 26035, 40610, 121551, 207854, 194211, 94931, 185831, 180074, 38003, 104333, 26096,
       29104, 230888, 107149, 130505, 44683, 136177, 101204, 38170, 181965, 32723, 164820, 89273, 8840, 41249, 154096,
       91346, 64336, 232205, 39716, 255073, 59495, 29010, 71374, 174378, 96329, 187925, 101027, 89032, 36721, 237244,
       63099, 189295, 209517, 123555, 209301, 8656, 89081, 146778, 154771, 117102, 75667, 197551, 24976, 40700, 101957,
       38881, 254994, 82992, 13699, 173791, 237210, 39921, 238415, 2394, 127372, 243575, 58564, 126203, 129469, 190336,
       99665, 94440, 254105, 68294, 219650, 84757, 102338, 96937, 136635, 72546, 168209, 211130, 459, 227206, 150392,
       65738, 203967, 246043, 78502, 24619, 105051, 34832, 44227, 138662, 26646, 24655, 63358, 35888, 184988, 78928,
       81740, 35752, 120194, 19144, 240038, 36455, 94414, 228356, 195944, 55400, 218662, 257463, 46314, 2779, 49253,
       105805, 110064, 157187, 66330, 189328, 78375, 49597, 188312, 216181, 115101, 129729, 75453, 48267, 125287, 252432,
       112590, 232019, 254852, 66086, 86980, 172917, 27263, 237575, 63210, 80323, 80098, 170039, 37397, 242544, 228339,
       19287, 240513, 21633, 11341, 151458, 98358, 31679, 197446, 63635, 96541, 180888, 244107, 109838, 61361, 109568,
       112947, 124446, 49925, 35408, 229253, 63050, 86635, 11604, 86915, 30192, 253582, 179195, 81626, 177157, 118315,
       116288, 136126, 33075, 5360, 4395, 29242, 129135, 130736, 126630, 108408, 16324, 214071, 99832, 151232, 175287,
       90618, 83153, 73540, 100961, 88910, 205195, 130363, 157943, 152297, 100950, 134662, 25546, 46085, 4731, 49079,
       80467, 252997, 50579, 44161, 45501, 107320, 127148, 109518, 35955, 117983, 30162, 139588, 74399, 31052, 1949,
       102403, 29766, 47179, 119234, 127661, 77475, 31929, 45549, 161270, 75953, 221761, 20063, 63139, 136681, 29759,
       101134, 5783, 108558, 49687, 27324, 239110, 92927, 99440, 160529, 52821, 28878, 145607, 14558, 210936, 116963,
       14040, 162603, 174951, 15604, 249186, 184343, 4262, 116700, 206805, 69857, 225325, 59836, 88067, 164713, 188387,
       16610, 142890, 137748, 80197, 118437, 257497, 78346, 258877, 2543, 19279, 238945, 127228, 52963, 239741, 191421,
       98977, 38732, 17037, 2196, 64430, 14323, 19260, 197404, 125792, 130525, 56801, 60029, 96147, 51579, 58499,
       60834, 126866, 167881, 82549, 86687, 69519, 110915, 229391, 73034, 110402, 143297, 206997, 42559, 69874, 42235,
       64394, 144005, 25280, 83631, 41316, 16355, 9423, 176328, 237957, 123967, 118456, 107572, 56720, 88230, 170342,
       48609, 174839, 34069, 118895, 120212, 244908, 15504, 17727, 153142, 5145, 259846, 89157, 89784, 166772, 22617,
       50463, 28582, 260788, 100201, 97836, 17726, 8984, 73222, 156111, 50299, 213992, 190552, 30844, 143181, 78260,
       96941, 185463, 80912, 29775, 167959, 82353, 60023, 212577, 181667, 107331, 240748, 127392, 119982, 17895, 26896,
       94713, 101341, 146044, 56259, 216624, 100800, 74971, 87182, 92256, 90399, 10683, 52281, 114679, 44362, 187103,
       116467, 44388, 255549, 122024, 8700, 33976, 106261, 137666, 128824, 19241, 25967, 240673, 97994, 159624, 190032,
       106770, 65952, 52502, 115064, 95359, 184334, 121217, 157289, 98232, 66736, 155995, 260446, 85864, 81195, 67973,
       1252, 26617, 64751, 75075, 232727, 105290, 62023, 15257, 225897, 126131, 99061, 172549, 118188, 220511, 257554,
       104543, 142144, 162494, 7470, 89588, 160925, 52694, 189901, 64295, 91231, 169383, 179938, 3887, 181660, 175384,
       30908, 153436, 50406, 116327, 89764, 46593, 17010, 163769, 158992, 6733, 164616, 32277, 76098, 140574, 33724,
       124055, 2640, 175182, 109395, 244818, 188972, 127765, 100070, 139481, 98765, 206255, 61179, 57326, 244063, 161781,
       124074, 238543, 40829, 55919, 177490, 193432, 45887, 157693, 166087, 58745, 245192, 24817, 106689, 50894, 248472,
       120283, 243522, 212066, 46882, 28709, 33727, 60587, 183139, 189266, 117745, 146517, 147941, 6166, 28101, 20192,
       102743, 62252, 161941, 59535, 60295, 8223, 49351, 3488, 214298, 58578, 227426, 157906, 54878, 163635, 93184,
       99171, 135141, 76205, 121627, 245795, 142357, 64416, 25677, 202878, 109148, 21697, 178585, 95937, 113818, 251593,
       43342, 260027, 11864, 76980, 103887, 11601, 87400, 226533, 57823, 3080, 28749, 253924, 51898, 179833, 110656,
       130107, 18608, 54367, 83526, 124363, 119246, 43810, 10131, 241458, 32771, 39555, 136192, 27457, 45233, 23977,
       52643, 247137, 209563, 25331, 188900, 206648, 17719, 32310, 85995, 47718, 131810, 79974, 79560, 173988, 200769,
       19188, 218521, 201474, 5812, 42360, 80857, 4539, 102951, 161215, 35046, 154333, 110923, 24921, 5133, 117622,
       70681, 73029, 29153, 59732, 40988, 22263, 42567, 212251, 91708, 109254, 33123, 248572, 66184, 108073, 18082,
       11997, 5012, 218827, 38766, 111520, 144883, 127577, 137441, 213907, 128054, 97356, 187430, 33380, 84047, 39234,
       21919, 255295, 18453, 64970, 219336, 37603, 63106, 149357, 152929, 53757, 148621, 110109, 69383, 238687, 236475,
       30434, 81960, 37777, 15064, 4890, 64908, 74771, 137438, 72877, 122237, 127043, 252526, 18055, 19185, 14338,
       92381, 124658, 132938, 57395, 260730, 158313, 38532, 26101, 104486, 111818, 191751, 76736, 59833, 73239, 121254,
       76455, 228670, 75308, 58072, 71733, 145099, 10649, 142912, 177022, 77975, 90995, 206398, 54898, 85008, 28276,
       11371, 94862, 47028, 78094, 61775, 57745, 1293, 210450, 82881, 27331, 48320, 215370, 102376, 90791, 72881,
       4971, 58571, 30958, 84761, 240112, 116363, 124479, 259221, 250584, 22438, 141001, 104673, 54671, 179762, 259725,
       75431, 166249, 14140, 59036, 237191, 183021, 81314, 37770, 144371, 52965, 228279, 234449, 19464, 192203, 199466,
       11671, 58282, 187262, 97575, 171276, 24863, 31276, 240729, 238941, 111077, 1938, 142708, 97390, 17538, 3822,
       6481, 243211, 122689, 26373, 37627, 11262, 38272, 16116, 200019, 77919, 256198, 21762, 106145, 168974, 44677,
       7908, 110, 34919, 32716, 195176, 236193, 49310, 148366, 224044, 24035, 160014, 83279, 71472, 137836, 119564,
       62652, 194242, 1799, 41483, 187903, 128459, 67749, 104344, 113629, 46638, 63984, 208863, 44983, 34815, 164063,
       34785, 241775, 79737, 70836, 73643, 48431, 58211, 24374, 152848, 25732, 178809, 200668, 1699, 134676, 19229,
       19782, 166919, 121200, 5614, 109284, 153970, 56570, 136923, 196735, 29503, 234575, 232928, 55109, 241524, 256895,
       43181, 171390, 95482, 70518, 177541, 78508, 94878, 176418, 118011, 62824, 166854, 108801, 8122, 72793, 10700,
       2295, 35080, 29875, 27948, 166573, 52363, 55701, 89556, 117608, 5885, 207595, 10605, 42956, 190124, 169806,
       116264, 61232, 253605, 11798, 255126, 257901, 124323, 250601, 107758, 112285, 179033, 194873, 109023, 57588, 15147,
       113201, 117529, 1531, 10492, 91322, 100008, 19813, 237086, 182782, 17612, 121292, 134238, 14580, 179992, 262104,
       42953, 200531, 101085, 108818, 49094, 229795, 33025, 47733, 212199, 32010, 163553, 253686, 88590, 23910, 221483,
       12704, 43774, 185933, 47222, 162308, 204668, 38722, 30642, 50311, 111057, 109802, 122482, 67436, 186505, 55715,
       84734, 152829, 15300, 16912, 206773, 66655, 121755, 45677, 251325, 42264, 117635, 245526, 92646, 204512, 165729,
       125124, 199925, 37060, 66669, 163470, 80448, 66523, 173390, 165272, 15368, 30525, 70051, 51154, 51834, 32595,
       111734, 74571, 226144, 17708, 178283, 192466, 120259, 26581, 163447, 87465, 151928, 217270, 55176, 12452, 17038,
       71630, 167959, 17655, 19725, 233667, 27412, 28505, 254331, 163443, 37540, 32860, 105195, 50442, 144284, 108342,
       119999, 78362, 28406, 48178, 1897, 257859, 68660, 34767, 159630, 21237, 24387, 23172, 96465, 125674, 2257,
       73437, 34458, 139660, 57659, 144266, 115504, 124149, 163686, 76067, 116739, 101565, 249523, 86443, 120976, 132047,
       120823, 208587, 239815, 74027, 20820, 238499, 108388, 80307, 187614, 53668, 199921, 136662, 11369, 192583, 172808,
       130305, 11515, 35764, 21709, 171625, 24897, 32965, 242185, 226566, 21378, 75355, 149816, 44234, 30246, 80854,
       37916, 137805, 235157, 78787, 176664, 148955, 130608, 1837, 162561, 6882, 122400, 114014, 102032, 25099, 34060,
       16776, 41291, 215931, 2599, 214000, 232198, 83699, 141811, 11711, 114467, 45528, 194380, 23107, 209155, 28304,
       44776, 519, 52326, 22118, 111874, 170787, 118817, 199261, 225407, 35436, 178938, 247998, 58289, 106981, 154790,
       117275, 138560, 35907, 72465, 176233, 2591, 122270, 128211, 14066, 121431, 185794, 51741, 60502, 253985, 249093,
       76334, 14107, 154895, 30187, 197259, 50450, 129831, 133914, 36864, 36479, 136659, 53681, 102669, 160832, 223243,
       41021, 126000, 55684, 41031, 19759, 139434, 13613, 136715, 151852, 73386, 173988, 81189, 32090, 174122, 29093,
       19450, 104251, 192550, 29709, 172224, 87646, 32911, 73998, 187485, 66071, 59443, 236650, 50583, 184614, 61137,
       9894, 173569, 63267, 70258, 88714, 18766, 103251, 166192, 170053, 75266, 39586, 6308, 127734, 246400, 119424,
       12995, 213930, 256057, 107630, 20731, 73523, 66282, 39224, 75433, 68366, 137130, 121778, 68039, 122325, 106006,
       42640, 49653, 23822, 42540, 19615, 83254, 82817, 32289, 129370, 5867, 117773, 205799, 77173, 95559, 78476,
       94973, 145389, 159454, 46704, 104841, 119157, 28489, 107156, 79224, 27969, 12956, 82378, 10726, 232533, 12348,
       11759, 181038, 127734, 21848, 29428, 74940, 2513, 8129, 99242, 34896, 1922, 217273, 40160, 183648, 114431,
       130445, 167803, 154586, 129982, 129800, 162081, 24516, 227135, 93936, 27922, 144448, 47379, 64475, 39794, 2338,
       19501, 120636, 127118, 66065, 118831, 125051, 52348, 211651, 255618, 42548, 254692, 193301, 107820, 132369, 49238,
       108543, 11317, 175997, 129484, 169926, 16730, 29240, 158672, 223793, 116428, 80768, 10744, 70496, 142001, 233307,
       77523, 202003, 226932, 117478, 247513, 125659, 123552, 132053, 46808, 95264, 158641, 133935, 45592, 105706, 151966,
       64181, 199948, 50953, 80616, 89147, 33202, 108611, 132956, 212759, 86238, 136744, 156959, 47899, 249040, 156206,
       54772, 111809, 220585, 6610, 254405, 249724, 121145, 166986, 149718, 11549, 245187, 64931, 76012, 180511, 131777,
       114249, 40731, 89371, 55163, 170389, 135970, 104874, 12556, 120370, 105357, 204784, 77215, 7844, 36692, 48412,
       54020, 131706, 31548, 90574, 24272, 48938, 55358, 188518, 108405, 71456, 42350, 64278, 77916, 206169, 19308,
       19821, 245594, 10800, 53999, 52599, 208813, 3730, 191730, 41342, 19611, 207087, 162696, 67142, 43147, 147163,
       75181, 16756, 190240, 19167, 61902, 233112, 99040, 138670, 83326, 48888, 70369, 178318, 120671, 112059, 9602,
       50811, 190963, 209753, 19636, 6370, 230400, 99348, 184538, 247408, 74422, 206180, 61950, 50683, 259938, 228159,
       46656, 4541, 196064, 19761, 154901, 115276, 44673, 229714, 127638, 3846, 51182, 170210, 65850, 215923, 59221,
       117535, 98117, 24628, 104245, 156793, 254742, 3738, 86601, 230408, 115508, 145092, 176891, 59287, 31449, 197893,
       25020, 137928, 94505, 98620, 36646, 40906, 42319, 178774, 8030, 33202, 249654, 203576, 21144, 85514, 250760,
       63782, 132797, 60007, 12241, 88685, 173028, 102971, 231750, 213781, 61692, 67662, 190589, 58586, 24354, 147905,
       243, 467, 170582, 107199, 13604, 221424, 64597, 36438, 159637, 57657, 224001, 233651, 99796, 62831, 189098,
       8244, 62554, 217303, 48061, 141752, 23622, 75462, 157623, 31533, 60368, 215561, 233202, 23807, 202525, 173320,
       39226, 201959, 153159, 39347, 232650, 183598, 130019, 156515, 185632, 42755, 80938, 155154, 26893, 163394, 199231,
       107824, 182696, 119231, 55203, 198898, 12112, 58178, 26781, 164875, 71943, 258822, 201870, 78078, 45734, 153050,
       77405, 79601, 224505, 4521, 248411, 212886, 107327, 82670, 259589, 25539, 196267, 177910, 38317, 227376, 156731,
       22731, 197669, 51964, 100542, 71213, 34785, 76501, 57779, 390, 98998, 46486, 240503, 85642, 61812, 162307,
       13652, 73539, 109788, 39518, 46824, 65847, 66488, 67894, 188307, 39969, 197960, 158123, 27171, 193294, 15478,
       114007, 260678, 126688, 98013, 131564, 68630, 45248, 179248, 6980, 100271, 183604, 56228, 82252, 194457, 155769,
       496, 53393, 36724, 49841, 184621, 11898, 38074, 203815, 128924, 28561, 188445, 248015, 32976, 85212, 114788,
       123517, 169127, 140356, 63742, 144372, 21519, 111110, 229930, 118851, 28077, 228213, 239738, 22859, 119230, 57639,
       116495, 112438, 175209, 64973, 1199, 72678, 117329, 99449, 76981, 8261, 83310, 76591, 120119, 9637, 31299,
       54453, 65143, 191307, 20364, 188881, 242044, 89572, 88046, 55959, 104451, 164758, 196040, 6209, 131148, 249611,
       129393, 196806, 253985, 91360, 185643, 169181, 42126, 210200, 83270, 19830, 99716, 208474, 51449, 230053, 147947,
       28909, 257493, 199093, 64769, 170740, 140083, 102484, 63199, 150614, 86524, 159997, 28073, 57138, 225401, 204262,
       15590, 57169, 8815, 125456, 123765, 179518, 35438, 1444, 235250, 36416, 86401, 224838, 84607, 70050, 87732,
       100992, 62179, 259, 128994, 228394, 117397, 127030, 78110, 206461, 119768, 109951, 162743, 57057, 110075, 87199,
       21845, 190223, 30182, 76607, 212220, 146452, 2261, 221431, 192123, 25722, 190794, 237365, 331, 139748, 25420,
       23663, 53249, 258525, 62227, 95860, 62823, 51553, 210790, 247362, 48404, 115175, 21089, 108914, 171384, 237979,
       88473, 30314, 260130, 122739, 257955, 192995, 58371, 195936, 53632, 35681, 180361, 94175, 16080, 133108, 163851,
       88083, 255539, 228073, 110328, 180341, 126268, 24083, 22531, 245523, 115179, 230615, 160613, 68980, 19479, 145868,
       18884, 245528, 67937, 84261, 100066, 1803, 68164, 92520, 204415, 3694, 19375, 248416, 52329, 158683, 159559,
       102863, 191839, 227083, 72800, 131650, 250648, 36967, 182059, 103967, 121718, 244635, 110774, 31166, 45632, 152501,
       33126, 160930, 99018, 46483, 75601, 49386, 117248, 227161, 8089, 66535, 124735, 202712, 89414, 150379, 33517,
       127960, 235305, 132450, 102668, 55633, 221484, 22623, 11207, 35998, 103331, 33079, 52018, 98086, 12274, 120844,
       30489, 150654, 49276, 42644, 66331, 97394, 93077, 243441, 111062, 31246, 172916, 238455, 27287, 123022, 152853,
       92205, 152879, 107442, 115421, 108117, 85747, 9832, 153780, 34429, 58446, 4895, 192981, 79583, 175762, 9821,
       88640, 249265, 142036, 130573, 102400, 123254, 89481, 209878, 109986, 81284, 220174, 110447, 129726, 113983, 55461,
       7951, 234486, 174979, 9756, 155412, 195675, 73489, 204499, 115548, 47010, 232870, 238960, 12674, 88217, 48477,
       40166, 227988, 238735, 88388, 259882, 160799, 115423, 252843, 57261, 12363, 78067, 161933, 70797, 234259, 188962,
       38812, 120405, 25587, 87467, 203128, 234994, 72017, 185147, 122300, 121465, 226749, 175153, 4939, 79280, 75352,
       61608, 190238, 39568, 25265, 99729, 205095, 70357, 13662, 113110, 111880, 92218, 122102, 119448, 20953, 42775,
       52197, 5389, 261238, 106401, 182647, 170894, 36766, 197753, 178195, 826, 105361, 249386, 112097, 234290, 153122,
       15651, 157663, 7202, 2308, 85239, 30797, 46372, 253580, 139579, 49726, 24641, 148922, 10121, 105440, 122569,
       106716, 143612, 254872, 53161, 222909, 241473, 64215, 70229, 112288, 34684, 252476, 110413, 67044, 55848, 24765,
       100497, 4412, 37852, 118775, 47418, 52832, 127209, 67063, 172813, 55931, 146340, 175381, 129765, 188202, 195486,
       38660, 114044, 246038, 914, 91695, 69931, 100613, 26523, 36779, 23387, 240471, 104854, 6875, 94514, 18801,
       121111, 182846, 40499, 103784, 60076, 216338, 13456, 126056, 119834, 101831, 43907, 96652, 110624, 190930, 68880,
       118659, 183463, 206537, 71263, 18038, 99056, 92197, 164340, 62532, 99908, 59446, 239417, 90261, 74057, 257412,
       84781, 203497, 85577, 71769, 179930, 111584, 62809, 27937, 77252, 130564, 25838, 17422, 44244, 200962, 158123,
       11569, 147922, 141490, 100274, 242503, 97889, 28026, 101936, 77644, 69821, 48242, 227977, 12556, 234981, 171237,
       81170, 202953, 49769, 123732, 246007, 149322, 94726, 92298, 129945, 28119, 131714, 184377, 127289, 1539, 88130,
       40250, 130606, 61745, 57227, 262015, 102444, 65289, 50880, 172271, 129855, 127698, 153684, 9029, 192328, 135314,
       91321, 149686, 101988, 47439, 980, 27141, 10266, 67167, 249018, 122556, 123058, 16331, 77313, 238447, 247456,
       98765, 29436, 85714, 31507, 209665, 185307, 99816, 181354, 18960, 108589, 244547, 134060, 56469, 175833, 139606,
       74967, 125513, 132176, 127385, 72587, 58835, 110982, 143549, 133425, 58307, 101503, 76270, 87107, 6505, 16528,
       102790, 206602, 231895, 3188, 216837, 228231, 77118, 80373, 19524, 129044, 35236, 175761, 124148, 226003, 69460,
       109109, 164474, 260106, 13921, 181826, 252899, 130291, 331, 105295, 79893, 100875, 35089, 29217, 7882, 122206,
       88377, 195476, 231242, 112266, 67195, 22349, 14723, 6362, 49294, 120119, 99697, 230772, 120613, 4082, 175667,
       1764, 211459, 101856, 118006, 164604, 16197, 124101, 83408, 227065, 4940, 88922, 226606, 38556, 253848, 108284,
       48903, 248285, 88836, 45729, 202363, 75806, 99484, 18957, 18016, 46937, 122599, 90753, 125380, 182916, 93364,
       130415, 176523, 146867, 41526, 21763, 134179, 66689, 139545, 161720, 73099, 162503, 3630, 75943, 127855, 90972,
       49048, 84223, 131839, 21757, 26290, 24506, 7151, 94195, 25662, 13939, 87111, 134779, 118134, 11821, 24985,
       36749, 82016, 106664, 10069, 89667, 204668, 81727, 74653, 5666, 9870, 172734, 151300, 9181, 256614, 245619,
       81470, 128279, 152, 77515, 93702, 194244, 5436, 133943, 213671, 60355, 196795, 135471, 57117, 6200, 188066,
       71655, 167145, 54895, 96710, 204966, 215151, 37067, 43996, 182176, 56725, 98914, 201475, 103906, 96763, 206769,
       120921, 81581, 249454, 116827, 127067, 100067, 62604, 11574, 107483, 68270, 241629, 218109, 69350, 238161, 113549,
       113864, 75275, 93649, 110092, 144455, 88245, 40833, 50221, 246297, 21345, 9041, 223134, 49672, 250012, 261132,
       37802, 384, 28983, 124620, 191669, 256297, 34854, 26197, 120855, 23751, 32030, 175886, 117896, 136233, 7484,
       11334, 242124, 27364, 34113, 155161, 22441, 57555, 47820, 83967, 78001, 239670, 113538, 42948, 194477, 176051,
       65042, 100255, 134388, 26061, 52761, 40546, 75271, 67498, 120863, 53453, 95602, 147303, 111314, 43445, 8770,
       54491, 27349, 231030, 58171, 203018, 29317, 77617, 146853, 230289, 16144, 36378, 227856, 20551, 119904, 260085,
       103578, 11011, 64408, 35837, 143188, 34816, 89744, 156203, 93019, 12769, 248462, 105816, 107721, 22403, 37093,
       129529, 9163, 20513, 48980, 109987, 217604, 66260, 220598, 247523, 58027, 37911, 176920, 117202, 256007, 28258,
       1302, 19448, 53119, 85650, 57709, 83963, 85507, 56165, 29737, 50119, 253704, 252491, 28748, 130846, 115649,
       31415, 180464, 199576, 104918, 113585, 230775, 8664, 69480, 198779, 73901, 146407, 143638, 40218, 55447, 3294,
       34766, 147135, 25118, 66288, 12398, 128316, 117684, 131950, 123518, 81014, 142609, 130476, 103364, 202427, 235184,
       78732, 216089, 98056, 91451, 707, 171036, 56676, 140336, 225357, 121370, 69439, 85463, 65790, 39658, 256842,
       72322, 54904, 189090, 68808, 72992, 16275, 41443, 138215, 183730, 30308, 231795, 213290, 9677, 182561, 110399,
       94132, 165476, 13285, 37915, 232598, 227616, 51012, 250460, 199113, 120576, 216044, 164521, 74245, 101445, 10239,
       12724, 56621, 2963, 104806, 192056, 147718, 33571, 144149, 115339, 72444, 68211, 206519, 66844, 76512, 223736,
       31205, 123214, 43762, 15174, 89410, 35240, 27690, 126166, 97117, 12758, 68174, 87735, 36127, 30330, 22110,
       130717, 204295, 261345, 52703, 9801, 128546, 113231, 151841, 110979, 71981, 214555, 25324, 87370, 98926, 116091,
       20492, 220486, 261381, 36019, 92970, 160005, 66904, 220290, 246475, 115493, 60872, 187501, 5621, 110268, 32490,
       66443, 3392, 51199, 6686, 71491, 95019, 59876, 173499, 96171, 82427, 1934, 166498, 97612, 93886, 15367,
       18157, 174848, 91628, 21833, 93206, 80572, 61612, 91597, 79779, 130814, 166361, 232367, 46667, 202071, 241352,
       56036, 229365, 87483, 56681, 172877, 52894, 10577, 162019, 239208, 101472, 76395, 251009, 33174, 137103, 215748,
       92231, 12708, 177655, 62270, 257058, 19849, 80187, 50953, 131208, 7074, 44653, 68386, 116649, 152617, 13440,
       31962, 208268, 138164, 87830, 194676, 34691, 104597, 251935, 67368, 70783, 250282, 115598, 44215, 11781, 64661,
       128175, 196896, 92832, 36495, 170419, 63449, 124343, 18311, 34337, 20476, 159816, 45833, 51016, 32302, 37489,
       18152, 234148, 111315, 293, 173876, 165870, 34112, 159228, 15843, 11430, 220638, 142520, 129282, 73505, 218217,
       99831, 111067, 247216, 485, 155992, 86757, 29313, 211069, 114123, 87834, 137508, 147592, 52239, 5918, 92928,
       109031, 70365, 148425, 66173, 29345, 66839, 85675, 104565, 230167, 78254, 232201, 67619, 83646, 19436, 5837,
       30159, 135520, 73029, 48927, 207978, 173588, 6636, 20298, 50132, 77022, 181732, 44628, 60195, 242520, 56020,
       99708, 153900, 159337, 27050, 252288, 37392, 57253, 219592, 16284, 23690, 174431, 16423, 80475, 127142, 242171,
       111153, 5709, 231059, 100328, 46520, 67934, 123757, 240299, 50675, 127366, 10926, 71625, 101192, 6053, 92368,
       37592, 64808, 4183, 28739, 7139, 85378, 58661, 38549, 249744, 130270, 84833, 233593, 54089, 58412, 30890,
       26092, 77256, 156437, 123776, 238466, 82932, 50583, 10789, 185343, 90557, 130795, 231666, 103304, 206363, 41183,
       110514, 34182, 52592, 107646, 226204, 80959, 109608, 143871, 194001, 87510, 175652, 19509, 52930, 247965, 18719,
       87462, 163194, 10287, 109672, 116033, 215307, 45959, 107249, 53950, 38863, 234698, 119533, 45050, 102854, 242953,
       72257, 214246, 50234, 6873, 242105, 160243, 102101, 68993, 190133, 18199, 158308, 61170, 17411, 112308, 67681,
       25907, 151706, 83839, 75619, 8586, 255951, 37430, 4758, 209356, 48246, 87975, 201584, 122113, 29431, 259069,
       111044, 126912, 211933, 111698, 83245, 43717, 75712, 175735, 129186, 113569, 118189, 165116, 102048, 47148, 253599,
       124942, 171502, 202606, 8436, 234771, 188344, 3765, 84636, 107925, 22941, 137465, 220056, 121777, 1466, 87630,
       79372, 165037, 99114, 55851, 110079, 89030, 67202, 16842, 183537, 108737, 244472, 103577, 121780, 80050, 240231,
       95643, 22442, 93702, 99594, 203203, 56957, 41992, 154928, 84154, 61215, 62158, 73651, 116026, 70904, 93303,
       103013, 250524, 152221, 89688, 198659, 42721, 8552, 8722, 119446, 5178, 76092, 22295, 17093, 58493, 189006,
       76204, 24681, 241563, 70305, 77818, 177804, 123560, 97522, 18465, 91063, 140388, 140760, 38531, 151755, 90444,
       21167, 168354, 238293, 111350, 5438, 63631, 60243, 222958, 99975, 85651, 145218, 114425, 74074, 131806, 211788,
       14084, 135843, 61873, 7478, 198303, 2238, 49416, 138454, 165926, 47389, 31614, 142452, 88316, 17370, 121564,
       82863, 202380, 225046, 127001, 6652, 18311, 112472, 214440, 246964, 65088, 16991, 199100, 65539, 84675, 110409,
       88359, 122242, 139908, 14954, 21198, 89757, 131057, 171989, 96060, 68001, 56477, 243735, 119263, 13535, 73462,
       126793, 86375, 72697, 76237, 20238, 180490, 13546, 29865, 167230, 75149, 152515, 183412, 78334, 49682, 167034,
       103441, 32197, 92509, 6321, 132771, 163943, 61120, 232733, 210050, 120949, 89994, 58896, 129931, 144923, 219671,
       25084, 238674, 87660, 114111, 39629, 214995, 19169, 92697, 210237, 110254, 108917, 158146, 36343, 90779, 16391,
       125780, 752, 202094, 91160, 39356, 193976, 52312, 58915, 169679, 36827, 193016, 7954, 30833, 13946, 93626,
       89232, 212830, 169777, 117413, 31008, 249054, 98951, 197614, 254661, 109417, 208790, 18014, 102417, 139772, 242432,
       128338, 220972, 133605, 99327, 1931, 192389, 27555, 18972, 34305, 103756, 103302, 56259, 42214, 72163, 206230,
       130521, 125723, 258510, 49371, 61253, 7889, 38377, 16558, 182161, 31354, 135699, 138800, 86312, 218228, 57708,
       14315, 216661, 69147, 124985, 214, 148357, 38576, 39692, 147706, 38718, 196317, 7665, 6037, 255668, 34026,
       32246, 2124, 21174, 54916, 121138, 164821, 48445, 12787, 64262, 35785, 70029, 209831, 5340, 98648, 68962,
       39397, 210187, 100646, 102017, 102954, 115544, 57513, 100249, 34142, 38112, 132739, 93338, 39949, 187329, 248562,
       72671, 63445, 188329, 39622, 27749, 177405, 82679, 227097, 219691, 129689, 205002, 165575, 5397, 19085, 198565,
       22116, 174074, 216720, 23475, 257995, 226906, 58598, 105044, 63600, 5428, 218477, 181790, 62589, 185660, 80595,
       121756, 6787, 18773, 1515, 190901, 247880, 47833, 70044, 208960, 99731, 227671, 150304, 20249, 236754, 200481,
       10165, 213274, 234629, 82677, 106020, 129499, 1304, 74855, 121857, 105089, 173491, 202975, 8762, 137393, 186524,
       68728, 42333, 217579, 97010, 5042, 86933, 31720, 226575, 133682, 13571, 56650, 64387, 23019, 59569, 158850,
       112025, 22319, 30041, 92508, 9014, 119086, 25965, 28182, 63425, 93863, 100957, 79843, 92880, 211, 47545,
       130773, 216022, 28294, 51322, 8156, 200489, 113358, 20233, 103869, 58516, 35582, 87322, 117671, 59776, 177250,
       12006, 68319, 109607, 22978, 151271, 185950, 111405, 57219, 186528, 107387, 87053, 20703, 40033, 214424, 249629,
       78223, 143957, 138392, 50161, 57140, 244388, 1352, 82734, 188812, 3421, 136335, 44995, 7111, 128538, 195442,
       77866, 59090, 89392, 36598, 245818, 49046, 18867, 155020, 162124, 123355, 245536, 30884, 15901, 125916, 17058,
       88340, 34481, 45709, 117199, 95284, 227960, 21473, 126391, 60197, 28145, 12821, 58309, 75210, 232645, 180216,
       66643, 101245, 138615, 68292, 27678, 201069, 72702, 201100, 241810, 124505, 176947, 110565, 7056, 172972, 60242,
       99673, 133301, 106593, 30475, 21442, 203175, 48978, 178149, 22766, 11703, 148391, 174199, 58409, 50301, 234066,
       105410, 164058, 178720, 12942, 24550, 94393, 36123, 239816, 33781, 48897, 247537, 68581, 13618, 72442, 192699,
       99918, 101952, 88030, 103146, 188975, 6777, 109562, 112498, 220107, 76532, 116223, 55899, 66484, 211478, 170178,
       34413, 71862, 70900, 85872, 226777, 213365, 58269, 216319, 23749, 127241, 158622, 169447, 126901, 58465, 79738,
       118647, 12330, 163160, 47197, 158203, 86793, 48230, 232172, 156246, 111761, 151245, 250824, 95569, 45553, 158942,
       92322, 271, 151710, 36649, 45729, 173583, 109228, 175430, 91187, 75945, 213187, 259933, 58571, 147992, 131977,
       113432, 159554, 60899, 51669, 226009, 174200, 85711, 95423, 225028, 61067, 32509, 251039, 77691, 86436, 225388,
       5314, 132941, 153945, 60439, 75148, 67682, 72940, 112369, 171809, 64581, 185766, 223208, 111071, 202465, 173989,
       40779, 168197, 225193, 115877, 178014, 158610, 52882, 148719, 114988, 91033, 2058, 15240, 11366, 241540, 233302,
       26234, 156248, 186530, 99767, 144549, 112269, 1615, 247849, 138682, 126946, 227495, 64195, 24986, 29181, 238926,
       118135, 187717, 109551, 67625, 248182, 32913, 74000, 5895, 158072, 11027, 84335, 30532, 47869, 249703, 244861,
       20475, 240784, 148123, 68934, 234049, 192220, 72185, 147796, 35507, 93017, 122268, 35009, 115117, 176872, 149308,
       61365, 69436, 55240, 30587, 2733, 112538, 43721, 237190, 29924, 111029, 198170, 204458, 19118, 162192, 196848,
       82215, 185781, 119234, 1715, 50585, 40107, 32200, 97050, 191375, 77517, 24794, 199788, 59822, 219914, 130264,
       64690, 135996, 109366, 86581, 49565, 162969, 30747, 172855, 212661, 36805, 174362, 15853, 89713, 80259, 13389,
       70554, 244152, 248984, 1911, 242281, 40190, 87861, 53682, 211294, 81276, 184540, 85844, 10303, 66037, 118473,
       97978, 229435, 187645, 68432, 231322, 254920, 26836, 166724, 83817, 73315, 251102, 250384, 78047, 245987, 239519,
       120601, 210258, 124045, 97274, 92837, 54492, 39573, 217315, 64197, 15483, 242306, 36985, 111828, 142264, 115470,
       110895, 205517, 4983, 22978, 61407, 53844, 8143, 172675, 234131, 93305, 137201, 28059, 94710, 64417, 3153,
       23218, 153638, 220792, 87583, 226716, 206813, 36559, 24396, 107296, 34159, 155999, 66544, 42535, 56271, 17835,
       68209, 102905, 46386, 105441, 100830, 178942, 65358, 61267, 106358, 39065, 13684, 35823, 115864, 73211, 203272,
       7220, 196844, 111124, 104476, 98298, 25933, 102810, 127342, 216760, 33232, 232652, 247515, 25990, 248031, 8288,
       114648, 197131, 86879, 73252, 99140, 31055, 6030, 209890, 45059, 116763, 52323, 135810, 45744, 239175, 85787,
       44847, 37701, 212080, 84317, 9568, 27177, 86679, 91198, 119139, 46309, 222976, 225708, 18779, 224300, 48328,
       72387, 26849, 246209, 81943, 126739, 95955, 112751, 17257, 190977, 63496, 135796, 225677, 84632, 177351, 54372,
       7131, 124224, 173810, 117246, 237391, 70332, 42888, 217859, 171611, 82866, 127719, 32672, 120068, 188591, 131747,
       106237, 61763, 75663, 83585, 31459, 53431, 92223, 74774, 43216, 120704, 229470, 81077, 106442, 177552, 73654,
       79935, 117121, 107737, 86337, 126119, 172053, 19302, 201036, 48321, 61625, 214466, 1943, 39452, 95335, 208200,
       56619, 66848, 19944, 86802, 5821, 142284, 19549, 139497, 119905, 2277, 131677, 76720, 52025, 177046, 249331,
       42229, 89776, 21778, 55106, 228308, 228070, 122056, 259122, 179919, 92678, 243089, 239720, 42920, 177341, 139730,
       23498, 113714, 255931, 81065, 49016, 250414, 86189, 218742, 229820, 63389, 102870, 228690, 27886, 256966, 259637,
       3742, 208443, 97827, 34820, 177979, 166693, 59922, 65977, 46833, 103276, 32189, 89337, 111903, 58157, 209287,
       54124, 41577, 68728, 104349, 149971, 104160, 130200, 194324, 86949, 93927, 145503, 187959, 95498, 244389, 656,
       119214, 201413, 104390, 44321, 59559, 21081, 1468, 186981, 200623, 129365, 22269, 246279, 64286, 165642, 165749,
       102980, 87422, 172359, 106494, 219778, 150492, 52103, 80189, 101329, 70945, 194191, 7627, 70767, 211768, 87738,
       28864, 40049, 134608, 15419, 44654, 130645, 71247, 28613, 240995, 15747, 108273, 79566, 45362, 141875, 243236,
       24390, 82429, 217166, 92656, 238064, 189009, 114295, 247580, 219996, 75748, 111081, 148296, 53759, 246928, 139447,
       130631, 247521, 3366, 2779, 242162, 21657, 39890, 155867, 230750, 36526, 64871, 35825, 46688, 83363, 2714,
       30224, 169078, 257216, 34637, 120157, 212511, 33774, 66624, 47643, 66288, 231793, 6823, 51256, 104142, 86196,
       83791, 189144, 18300, 67423, 154357, 65382, 24041, 122954, 104297, 106174, 56486, 131533, 61891, 149169, 159229,
       20084, 94768, 257183, 21873, 72029, 241636, 104460, 63831, 161940, 92142, 189436, 103011, 66391, 165621, 90416,
       40118, 187602, 97670, 60361, 142713, 12059, 83425, 44611, 157911, 115249, 76522, 127623, 72858, 186948, 162309,
       36272, 65157, 161851, 5602, 1598, 193610, 22997, 64248, 168301, 85220, 21258, 181134, 21028, 208172, 166082,
       63116, 92355, 223505, 91613, 113190, 201849, 40399, 171514, 187035, 87701, 12370, 69780, 76162, 72683, 45460,
       57532, 164265, 142408, 117603, 199074, 87576, 90709, 142314, 87909, 47264, 45699, 104728, 105416, 147046, 157070,
       96744, 139831, 186495, 103767, 157477, 331, 84011, 100298, 181617, 49724, 226848, 197187, 45688, 231524, 227670,
       85740, 243048, 199100, 17157, 85418, 29318, 107467, 213319, 78568, 48540, 157142, 153775, 82624, 30773, 30393,
       65413, 80074, 5781, 68069, 42457, 141124, 96731, 246833, 119077, 82138, 235215, 55169, 32808, 130998, 188082,
       9728, 246751, 220395, 110131, 41858, 144674, 115984, 219195, 227348, 21560, 233193, 126398, 40563, 203978, 65841,
       37007, 47365, 97584, 122873, 67568, 128418, 26840, 152306, 215604, 21828, 165210, 251096, 23833, 247042, 148025,
       95665, 108173, 117847, 116394, 140777, 236191, 51559, 118815, 224582, 17836, 69527, 44690, 76771, 197563, 87277,
       27516, 155938, 125987, 8408, 120195, 104331, 116160, 31254, 192385, 114142, 237966, 230765, 127914, 130161, 47604,
       62128, 196931, 199935, 38535, 85210, 101873, 100897, 24929, 193490, 23657, 218035, 40153, 31888, 204234, 108727,
       33512, 218413, 191035, 124730, 172830, 129251, 95659, 91650, 1521, 17523, 168782, 75188, 12169, 129744, 231906,
       110469, 112325, 217068, 105155, 183519, 47794, 87948, 157634, 187079, 25703, 79878, 37183, 62951, 189794, 181538,
       79000, 129793, 135625, 122177, 34057, 60046, 22206, 185722, 133964, 67560, 168796, 42315, 20676, 215694, 257430,
       58176, 57872, 245681, 26232, 23958, 158552, 109600, 156944, 167931, 33388, 207980, 121413, 54670, 196442, 53360,
       53449, 142393, 86683, 113547, 3407, 226661, 99326, 7680, 35172, 7546, 140114, 253741, 8793, 75284, 19014,
       72246, 137707, 223702, 56061, 259091, 7659, 36121, 98291, 260861, 103890, 107901, 211063, 16860, 123011, 97603,
       127671, 154057, 199279, 3159, 42930, 4510, 15496, 193340, 180262, 40804, 235014, 136153, 66735, 49863, 74186,
       28329, 104481, 56139, 96497, 50329, 47847, 46863, 191985, 82243, 5051, 77708, 172368, 115044, 202825, 27984,
       123714, 94765, 202727, 81076, 97286, 235713, 105714, 88479, 144364, 15874, 86926, 222235, 35234, 212854, 52909,
       42628, 201265, 158724, 125927, 219964, 151455, 67138, 12021, 100512, 971, 186117, 58575, 49831, 187741, 10295,
       1015, 232457, 245367, 31169, 176689, 10944, 59598, 117230, 231444, 42387, 203046, 75516, 4290, 141209, 209987,
       15248, 93272, 214417, 72205, 210594, 15812, 91174, 85466, 38947, 53025, 12617, 93157, 95876, 203284, 33429,
       21408, 96564, 70792, 15998, 99440, 106717, 110028, 230019, 224486, 44461, 97521, 32817, 56655, 157188, 32009,
       124201, 108993, 249700, 55589, 65810, 147454, 457, 119315, 248527, 122941, 224935, 120027, 1850, 146152, 180023,
       86807, 49225, 170462, 42321, 250948, 247039, 61655, 15006, 35186, 71733, 199622, 190812, 53537, 177374, 118891,
       101498, 17215, 242423, 121989, 144317, 128710, 11326, 52558, 169422, 104890, 195467, 123693, 16865, 48176, 224980,
       10522, 23845, 98701, 125282, 194031, 114742, 64133, 62604, 21760, 20002, 4865, 45855, 74705, 109771, 31393,
       34503, 4784, 226165, 60857, 238931, 111672, 81875, 100214, 203123, 113936, 245107, 44342, 403, 232006, 89402,
       28067, 221435, 5925, 12618, 97675, 61494, 12726, 207077, 184427, 123964, 245653, 223078, 122694, 68784, 180061,
       98213, 80903, 147551, 84287, 146563, 6697, 111145, 47800, 169569, 7655, 196639, 51626, 15661, 63405, 170705,
       41564, 163861, 150389, 109116, 115662, 156727, 61896, 121594, 81962, 66004, 144544, 116407, 30050, 72979, 191873,
       84985, 116374, 54757, 116371, 64701, 173263, 43190, 23022, 228740, 81157, 246283, 167097, 43509, 56262, 107696,
       103903, 73249, 246655, 62253, 241866, 102265, 44494, 231651, 133649, 55056, 168668, 125348, 11957, 97959, 35527,
       113523, 185472, 51380, 125576, 7135, 234408, 62575, 165508, 231274, 29011, 28976, 175229, 87117, 214257, 95749,
       59294, 142943, 147432, 33069, 124831, 218458, 5037, 133426, 257248, 116615, 89628, 78157, 104429, 148109, 17260,
       108659, 126349, 255906, 57650, 176478, 171452, 98730, 181071, 211042, 76182, 93791, 206677, 49122, 143563, 146085,
       110459, 233563, 152071, 130909, 39147, 228433, 117870, 191516, 240750, 101737, 8942, 126754, 97977, 95664, 137439,
       85229, 109144, 40327, 111885, 92417, 197902, 64629, 38093, 110754, 23819, 170488, 38752, 100669, 213243, 132245,
       120521, 141420, 102690, 44741, 190738, 12877, 102627, 48976, 84140, 35877, 100175, 76938, 123548, 131866, 54944,
       89582, 157062, 85838, 74616, 37274, 202398, 102219, 37050, 151436, 106591, 219149, 15602, 116964, 185414, 131521,
       118111, 141402, 244343, 6906, 76516, 108472, 16109, 195558, 198273, 108273, 118338, 144912, 124000, 231292, 198377,
       40327, 43116, 193365, 1127, 119942, 219451, 42297, 161097, 64326, 50182, 201334, 133153, 99750, 43301, 56315,
       6237, 4533, 169060, 27871, 47454, 171326, 117174, 65674, 225096, 20292, 162714, 203924, 99516, 28374, 39473,
       47357, 177940, 243898, 86856, 52347, 152431, 9679, 54756, 231329, 37559, 189524, 112240, 55678, 10609, 209374,
       112356, 150293, 204221, 73858, 138688, 45187, 5927, 201749, 200677, 105102, 66977, 139036, 7146, 63071, 211483,
       122469, 77142, 149117, 27750, 60053, 233031, 63953, 119441, 84757, 9474, 2919, 208656, 73624, 200775, 67163,
       65172, 199298, 23908, 53772, 25156, 99160, 4662, 160794, 72398, 115203, 248780, 152836, 105203, 48307, 207444,
       82972, 133909, 155673, 75003, 86057, 164373, 91088, 4889, 168472, 18873, 15562, 110576, 122243, 143301, 224117,
       37312, 182888, 119763, 86047, 129234, 73033, 79528, 178425, 87419, 83442, 70136, 115231, 115206, 3323, 26086,
       38785, 176600, 176810, 98166, 35895, 143895, 78432, 82190, 183242, 9969, 99535, 205764, 54284, 21582, 258788,
       109831, 259158, 121887, 41333, 55826, 180059, 63211, 76470, 253257, 64046, 218734, 71799, 81003, 206900, 76537,
       115869, 259239, 7866, 22746, 34042, 222906, 66141, 37759, 154790, 55609, 146331, 60495, 38786, 219689, 181267,
       120534, 231465, 53756, 1071, 373, 81213, 16004, 136152, 67804, 96120, 242152, 194617, 34529, 214436, 75610,
       94788, 144732, 76820, 109085, 38080, 2637, 33373, 8010, 193132, 25158, 136760, 53894, 19044, 221387, 165007,
       26226, 3776, 88450, 35020, 137185, 214690, 113868, 203411, 152012, 100926, 4837, 146521, 241, 193542, 204068,
       114572, 142656, 249366, 10330, 22477, 246509, 85886, 255596, 119668, 19854, 26429, 74343, 8162, 161227, 212756,
       99584, 174290, 131212, 61237, 64628, 210156, 78520, 84343, 117426, 55751, 228295, 241087, 8804, 91845, 120776,
       96943, 60893, 220297, 107525, 16293, 67200, 5429, 19247, 154196, 49246, 1164, 190441, 73048, 155489, 233432,
       79322, 157702, 241700, 75779, 173618, 79883, 90825, 30772, 164628, 126722, 139797, 20483, 51194, 250740, 13059,
       72957, 200322, 14937, 91629, 166231, 11278, 77650, 45929, 147839, 50692, 60556, 175636, 81799, 83998, 221189,
       85211, 109711, 247467, 76672, 258997, 194195, 26884, 69343, 246171, 66319, 259149, 53180, 115914, 108991, 88295,
       113849, 101019, 37050, 98407, 72064, 187839, 91382, 212459, 106488, 20090, 158110, 189195, 60222, 249693, 187111,
       14542, 159926, 133910, 107123, 28149, 190974, 38147, 161259, 14067, 100514, 168442, 248793, 106768, 127000, 89484,
       116981, 65137, 136730, 98806, 4206, 201446, 74020, 41826, 67046, 78405, 76845, 181842, 42019, 94421, 11258,
       23199, 64172, 80781, 17122, 196251, 35008, 23858, 49010, 103387, 122414, 246883, 121014, 21552, 156105, 87643,
       94861, 187270, 228008, 24199, 165787, 146511, 127833, 47385, 157502, 48048, 253816, 183443, 54019, 143137, 94540,
       53020, 37133, 204846, 107014, 245936, 120461, 28611, 203334, 92357, 108924, 19447, 14082, 86122, 4763, 2019,
       28872, 147365, 42331, 8573, 25650, 101360, 101579, 215584, 260576, 28699, 242310, 132271, 116531, 201196, 247370,
       17011, 56590, 70975, 80788, 35714, 24106, 90723, 234802, 228049, 86206, 97224, 49263, 41422, 172974, 151749,
       114756, 162328, 231961, 100899, 241821, 205081, 66873, 200699, 210144, 79074, 215943, 53376, 74235, 107337, 19637,
       124085, 177190, 248151, 117494, 177149, 91335, 30867, 26256, 88305, 34440, 117855, 241903, 128639, 13366, 226673,
       31006, 126963, 65797, 124974, 115872, 136144, 85164, 135694, 199961, 6567, 247567, 57233, 44004, 114160, 129917,
       62410, 122293, 205734, 109195, 39706, 125343, 43068, 91039, 178844, 40708, 31595, 98162, 120620, 195529, 238003,
       10359, 49734, 18472, 72288, 259170, 2305, 66091, 170282, 223394, 7514, 257344, 167109, 11502, 203568, 110921,
       50065, 61702, 57885, 17584, 204299, 214574, 62661, 220373, 241126, 79808, 74445, 202851, 90622, 195620, 6533,
       71626, 242346, 257211, 49762, 209086, 231981, 17007, 189453, 33104, 32438, 107030, 174886, 54974, 114832, 34741,
       121125, 139871, 205134, 26555, 69043, 11575, 54177, 224142, 201382, 95985, 48903, 246816, 92432, 108463, 5690,
       126562, 39988, 53217, 25021, 213584, 6700, 2165, 67772, 135179, 42247, 145349, 115571, 19620, 133720, 138552,
       71888, 245270, 220767, 117804, 201413, 9501, 90207, 70110, 202849, 17799, 112118, 226468, 15216, 39761, 95338,
       119465, 144159, 185108, 63911, 251376, 10779, 121067, 174694, 89133, 96497, 138519, 247645, 130200, 44415, 180335,
       114193, 147504, 202972, 54291, 162650, 249388, 99382, 114770, 2535, 61764, 214524, 195412, 30549, 65955, 187535,
       31592, 49021, 236319, 52077, 211843, 136476, 14610, 26522, 169529, 23300, 47839, 111452, 65615, 204837, 97377,
       125032, 138137, 132660, 75718, 132178, 125520, 53542, 127378, 73129, 31811, 56708, 141327, 25677, 46087, 173840,
       86298, 190357, 29083, 111191, 182453, 146472, 52278, 221246, 255830, 72175, 257563, 93946, 92632, 23606, 47443,
       7640, 240546, 241616, 45992, 203896, 2870, 95650, 44765, 135793, 89734, 100936, 250881, 6992, 103005, 121914,
       31171, 90759, 47403, 89123, 92277, 200360, 35575, 11404, 59477, 106746, 101199, 234518, 3867, 68394, 175058,
       24949, 43469, 170080, 36872, 66826, 15619, 121279, 154462, 168971, 104375, 30998, 98272, 115886, 174268, 131092,
       57734, 126557, 149779, 107814, 225031, 181593, 111869, 28691, 111173, 52423, 36914, 220527, 130346, 27081, 118063,
       111573, 144076, 155249, 127676, 219647, 34816, 113573, 133437, 177303, 101738, 147727, 123701, 123711, 132168, 126220,
       55026, 143661, 203926, 102673, 20917, 225267, 27904, 19960, 32909, 96048, 198213, 234463, 102937, 216404, 34096,
       93916, 75353, 232191, 111386, 183003, 99657, 54176, 184467, 255019, 71403, 222457, 88593, 1398, 52128, 145101,
       19143, 125876, 185032, 84435, 206102, 216741, 73704, 10483, 165195, 25864, 201120, 205117, 31911, 109445, 43581,
       45099, 142179, 45971, 93901, 238355, 190002, 79916, 203042, 35870, 9118, 221442, 260563, 99606, 195071, 174398,
       34427, 82377, 76059, 88048, 231884, 38718, 16169, 108730, 236742, 130799, 140923, 244094, 10529, 181270, 151645,
       97220, 147474, 131301, 70953, 66282, 155138, 11264, 58112, 21102, 3514, 26290, 254366, 47535, 84128, 240143,
       105149, 24960, 82231, 5393, 203257, 153970, 92326, 246834, 188968, 85901, 125641, 8737, 34804, 145324, 198923,
       10157, 9465, 119154, 119973, 20975, 32083, 39367, 117792, 239664, 14599, 58446, 203270, 89327, 211417, 210981,
       28400, 220730, 140794, 62341, 229216, 237535, 6606, 198048, 64683, 130152, 102800, 27778, 58670, 156323, 260906,
       130955, 90038, 171172, 50551, 46522, 148142, 45593, 191420, 213580, 119874, 216061, 227870, 43183, 196187, 75062,
       56623, 217867, 81712, 10238, 23897, 80917, 125234, 95977, 95273, 11160, 247317, 91109, 101080, 197029, 161797,
       70597, 104044, 86331, 8048, 129771, 241866, 223, 84973, 187368, 122624, 232393, 5927, 97278, 39961, 57984,
       89972, 149766, 85728, 57482, 126242, 253507, 31275, 153682, 101434, 89111, 3389, 211433, 79731, 62302, 172581,
       95203, 32548, 164552, 47945, 41152, 167983, 129358, 18648, 103785, 8782, 251260, 240085, 10446, 170484, 228287,
       120176, 196894, 211859, 84896, 46619, 23162, 42773, 67891, 79215, 99870, 176123, 96892, 59345, 239466, 163431,
       2768, 114924, 149706, 85341, 120627, 187301, 31865, 43992, 157916, 15117, 53583, 95604, 29527, 1724, 1637,
       62410, 253177, 121169, 6534, 205038, 223951, 115756, 144084, 214958, 73389, 150540, 223547, 38403, 156059, 154426,
       90047, 26069, 229306, 105412, 232294, 59665, 80468, 86203, 48264, 26541, 100387, 93578, 14455, 189741, 66025,
       112708, 202660, 206997, 30760, 248687, 236040, 2632, 64055, 228673, 84266, 121928, 108984, 20038, 258462, 116174,
       129888, 103865, 182169, 113997, 94261, 39118, 79750, 51956, 138846, 109296, 114690, 24575, 61674, 14515, 56607,
       103348, 122954, 130066, 84742, 116858, 131002, 3754, 134033, 230907, 124355, 148111, 196500, 112842, 118214, 190601,
       124965, 3538, 236110, 95861, 156178, 203800, 54009, 170163, 254353, 27129, 253542, 41607, 23592, 126161, 146500,
       18994, 121243, 229621, 28915, 195842, 162667, 72172, 252586, 161234, 89619, 218348, 257378, 41164, 5653, 71514,
       71925, 95102, 137118, 44728, 175264, 57277, 91292, 250418, 36980, 129562, 226982, 151266, 90310, 218124, 196190,
       7737, 67047, 223842, 62552, 36803, 62753, 100976, 60144, 236455, 71072, 181355, 30713, 124657, 192264, 198229,
       7179, 8791, 113436, 38162, 88964, 8492, 28929, 252655, 152882, 100613, 203746, 17044, 68654, 158616, 21595,
       18133, 13754, 214060, 37433, 73460, 51894, 68506, 729, 196987, 130564, 161960, 172429, 47748, 138378, 66616,
       20555, 133753, 227130, 65151, 132033, 181428, 40656, 196303, 12030, 74182, 105783, 187921, 61172, 171129, 91862,
       90372, 215749, 108812, 119837, 239020, 257194, 26281, 214167, 116304, 107633, 187218, 229111, 124422, 40859, 251654,
       48969, 201372, 185856, 14897, 261486, 184258, 107729, 141813, 219343, 91894, 7847, 52186, 27880, 160985, 204064,
       58356, 90913, 3484, 75758, 155841, 192826, 22263, 30106, 20588, 93705, 14158, 240915, 90424, 81442, 238209,
       116277, 120417, 49722, 74353, 157808, 260192, 75276, 93732, 9237, 81184, 89003, 144830, 35885, 83790, 162547,
       99431, 258510, 90727, 86835, 27045, 256189, 109988, 129871, 128088, 100740, 27484, 43259, 83698, 246257, 49748,
       21088, 119538, 188375, 120474, 125291, 26983, 48131, 61613, 227420, 126392, 142074, 228819, 52674, 2558, 125077,
       19128, 111122, 122253, 115977, 187533, 182394, 104209, 246202, 3673, 103061, 103983, 219604, 11719, 64466, 106872,
       115248, 253303, 242302, 78171, 111231, 111255, 61650, 122438, 59427, 119691, 60492, 219621, 87299, 97557, 143743,
       17436, 161518, 122707, 68096, 203617, 198677, 83442, 159785, 139168, 117774, 219428, 116078, 36686, 73320, 77584,
       104101, 215969, 221569, 104833, 20167, 29418, 16783, 184044, 183201, 2258, 206498, 193914, 76206, 139371, 180724,
       103478, 151148, 4795, 72670, 93587, 10617, 106607, 21385, 193585, 81566, 135588, 12724, 85628, 88192, 228870,
       3690, 67343, 26649, 11612, 194944, 48878, 95031, 21509, 201461, 99987, 103470, 61771, 71064, 92259, 47574,
       77354, 32397, 35369, 80526, 41775, 82170, 13761, 110662, 192143, 87544, 30559, 209194, 62714, 4402, 127688,
       78973, 233727, 179168, 73812, 32974, 1730, 100007, 253903, 157227, 41755, 99473, 164927, 48958, 218102, 25979,
       51328, 163003, 116226, 99936, 169300, 184793, 56506, 208028, 77286, 23209, 142731, 49076, 128849, 38292, 145211,
       64668, 143569, 88612, 14319, 95618, 117397, 87854, 73146, 139452, 96883, 128064, 40049, 65565, 54510, 159346,
       84732, 115478, 29840, 22632, 220158, 93443, 48224, 84641, 252789, 21211, 52088, 80629, 50755, 183375, 146859,
       73767, 102247, 187779, 58004, 137672, 78738, 77753, 224291, 182147, 65766, 151616, 180196, 41656, 148255, 176739,
       18797, 215405, 58604, 33118, 88419, 33818, 26307, 232614, 23313, 92723, 66814, 236787, 107474, 181988, 116384,
       94422, 203233, 98746, 84375, 136869, 78982, 40350, 181573, 72279, 93190, 78434, 85440, 79309, 130880, 8196,
       6146, 106786, 152438, 118962, 140399, 163577, 10479, 186085, 201581, 65890, 243902, 110971, 67248, 262140, 31064,
       109708, 54065, 228900, 119677, 152960, 36510, 123165, 48587, 5190, 74668, 17269, 230179, 89003, 110938, 234336,
       11602, 124624, 227285, 63952, 33390, 41643, 117683, 229097, 188653, 59729, 35908, 186321, 9121, 213989, 129017,
       26298, 114247, 74966, 56296, 86858, 33676, 31133, 81259, 175524, 51418, 150404, 12539, 43641, 256619, 17202,
       41802, 175324, 186166, 11949, 33483, 174505, 115699, 47183, 85210, 90794, 103298, 248798, 81707, 239470, 90085,
       79491, 41486, 92799, 51970, 89023, 137788, 107913, 153134, 132815, 121902, 52975, 36774, 736, 69221, 217912,
       10380, 184223, 78130, 88470, 105937, 127043, 30941, 193326, 40884, 119498, 261514, 139173, 87479, 43324, 204332,
       48272, 176002, 124705, 54431, 234644, 87980, 90555, 92203, 78675, 18476, 117140, 180762, 115790, 147316, 119655,
       625, 114309, 165650, 128312, 140263, 176044, 21973, 164731, 223766, 97270, 5241, 234363, 5233, 2936, 110636,
       56548, 65183, 134991, 82616, 124510, 22133, 9204, 223693, 38845, 58103, 96841, 59986, 39732, 182092, 179261,
       65305, 206230, 188759, 66135, 224322, 139374, 102921, 229911, 6875, 16187, 258356, 165124, 10842, 58601, 234956,
       52676, 145922, 193816, 116329, 2850, 43545, 112101, 232386, 15242, 73399, 102394, 221347, 116493, 94896, 45989,
       105557, 261100, 30835, 36430, 21210, 246508, 22296, 44666, 228683, 39473, 48469, 100126, 29768, 208289, 223580,
       81620, 261512, 154579, 76663, 235014, 160512, 78438, 100853, 17845, 24812, 103057, 257772, 103791, 8159, 228038,
       56836, 62396, 17124, 61925, 57175, 66386, 130673, 205286, 182569, 36997, 243146, 91258, 51660, 119662, 6987,
       88665, 101079, 42580, 115397, 129861, 135632, 16617, 115371, 182182, 96343, 242205, 87274, 120360, 226781, 166865,
       55433, 150714, 192613, 37581, 228391, 15037, 88832, 95237, 121021, 32253, 95843, 211334, 50369, 164012, 228008,
       117560, 60232, 127332, 77376, 17913, 40194, 12448, 225519, 72990, 43214, 30105, 19073, 82216, 235856, 207975,
       63110, 224997, 116635, 86551, 260813, 180495, 99803, 170262, 14552, 62995, 48505, 246059, 129361, 191739, 50072,
       119888, 35188, 52370, 7852, 48110, 216155, 34921, 173562, 48777, 39392, 220003, 42983, 24155, 80118, 242999,
       40896, 164387, 81992, 55682, 23592, 259674, 6756, 233286, 208434, 16685, 130167, 182028, 12615, 36654, 89743,
       6070, 223831, 22411, 63110, 203802, 140298, 43752, 62318, 21515, 122610, 246227, 218757, 13469, 7576, 87478,
       121377, 79567, 105051, 11343, 185378, 194628, 81162, 14694, 66994, 32470, 133898, 17495, 108371, 18270, 187337,
       8057, 164765, 81636, 124847, 39057, 165286, 6194, 25103, 116028, 31603, 51983, 232579, 60841, 162638, 25499,
       99098, 5061, 125353, 124664, 64517, 70161, 56104, 98973, 177570, 99262, 38959, 7246, 95310, 170481, 195286,
       74864, 65390, 35425, 90560, 41484, 67707, 4989, 124854, 181259, 57878, 113532, 15732, 103004, 87265, 156640,
       62157, 29862, 227338, 114491, 260273, 75122, 109266, 153028, 109713, 113173, 156779, 160096, 17038, 242634, 233853,
       32000, 17164, 251522, 3879, 97987, 255594, 128817, 172194, 234568, 30951, 25745, 17367, 48115, 172369, 117062,
       36035, 41757, 55791, 5215, 217509, 179151, 34243, 159864, 196020, 12870, 184119, 201400, 51679, 123915, 26705,
       126723, 149641, 242190, 91522, 169248, 86993, 92654, 236013, 244151, 59398, 177190, 147260, 106339, 62728, 52035,
       119050, 163139, 22062, 126032, 74028, 206803, 12974, 221898, 146010, 115296, 183370, 18797, 29502, 16702, 204887,
       52070, 148734, 175886, 45282, 101414, 109004, 88490, 168981, 199131, 78371, 43342, 62854, 14300, 155751, 184319,
       102606, 33474, 175266, 57625, 52980, 155620, 291, 58051, 131425, 54329, 202426, 5098, 67676, 160509, 212510,
       9027, 142275, 244611, 19809, 157475, 188873, 130229, 128886, 39744, 114189, 84864, 235191, 17475, 128846, 8242,
       76062, 82218, 14289, 49708, 46518, 53890, 71269, 37447, 10127, 61673, 259231, 238987, 6310, 255826, 152823,
       41342, 202113, 156369, 16452, 61270, 74846, 64090, 6761, 107523, 118923, 214203, 107224, 130486, 123618, 67941,
       123765, 36226, 62627, 129197, 76956, 58791, 1998, 95709, 75737, 95610, 19492, 174308, 35775, 248105, 137018,
       113458, 73307, 252879, 106657, 177231, 31845, 55531, 229116, 134130, 62031, 58512, 106835, 34746, 24966, 31482,
       37854, 32148, 39838, 128604, 129504, 10359, 116503, 190270, 91286, 25148, 170370, 211713, 36113, 149573, 96096,
       14240, 186055, 216933, 129613, 71110, 246809, 118909, 212213, 26740, 72364, 153970, 101304, 90818, 231976, 161131,
       98034, 236261, 126140, 26713, 247779, 260641, 122508, 153660, 19766, 69041, 57926, 190073, 12117, 211792, 61344,
       52046, 107891, 169874, 78859, 4564, 61618, 46245, 63268, 251315, 91646, 32179, 78663, 115612, 14426, 83061,
       101173, 116530, 23532, 84234, 123734, 167837, 67129, 132488, 135958, 33353, 9963, 231208, 59630, 184480, 219353,
       38397, 242075, 108204, 122424, 81947, 219599, 118923, 23060, 112472, 20424, 124705, 37402, 107822, 125208, 120503,
       92132, 114067, 143994, 127822, 249203, 227935, 60726, 135937, 72871, 94656, 219993, 228868, 67880, 21280, 158655,
       9096, 121084, 251289, 6129, 143989, 209803, 16005, 102509, 23178, 38822, 93092, 238191, 33962, 123995, 109035,
       95463, 61111, 45021, 93837, 111335, 164418, 127322, 165247, 188142, 40683, 143202, 7416, 123004, 207493, 158752,
       80327, 145306, 133559, 64921, 27097, 3110, 87535, 79972, 258667, 92111, 147469, 43635, 22535, 21409, 122646,
       98528, 223996, 167988, 95049, 221402, 179464, 130748, 144578, 29761, 119530, 214829, 48367, 89739, 206015, 169481,
       93370, 245524, 224921, 123992, 60030, 116129, 126769, 259678, 249124, 108391, 257511, 197473, 100583, 211496, 240635,
       14596, 246729, 250232, 108831, 259596, 109850, 33186, 226483, 170188, 73896, 87883, 54321, 53132, 257017, 218585,
       45299, 115371, 253315, 40665, 23119, 20919, 112122, 141116, 76908, 100812, 54947, 173813, 68609, 124485, 214694,
       87094, 206383, 215526, 129044, 12453, 210618, 52105, 190137, 109440, 72233, 225084, 245169, 69930, 5257, 48064,
       122679, 202153, 233089, 46079, 259313, 34256, 129270, 100301, 177975, 39937, 85355, 190998, 14274, 173784, 44113,
       25083, 186993, 19309, 55865, 179233, 81899, 85164, 212823, 84335, 67741, 82638, 2450, 49319, 139764, 179836,
       73666, 216059, 209044, 109944, 4259, 159466, 109960, 96378, 119417, 95188, 37161, 127561, 124839, 85018, 64545,
       77359, 80260, 193086, 1003, 183994, 81643, 38132, 191058, 242233, 43020, 211372, 188020, 71739, 32402, 33413,
       118605, 176368, 218027, 109853, 106037, 169495, 30431, 98967, 81518, 68077, 135529, 244320, 86395, 243778, 252533,
       129435, 29531, 122376, 4102, 241995, 105106, 60801, 85895, 20458, 129513, 98958, 225942, 128084, 83421, 151586,
       43348, 258504, 3745, 2, 50765, 116365, 76904, 124654, 109909, 113631, 107230, 78200, 42506, 74912, 57912,
       122456, 165892, 201563, 43607, 255285, 141288, 79980, 80586, 17230, 94640, 6004, 42667, 45274, 87840, 63788,
       46164, 104552, 134866, 61603, 42550, 64801, 109474, 106212, 130352, 13218, 186595, 170433, 82769, 69731, 23047,
       88781, 91171, 45281, 73121, 130651, 225652, 122662, 54816, 250984, 78904, 33357, 219093, 83175, 63941, 110748,
       78611, 195658, 193537, 94636, 116619, 82758, 17748, 100382, 113136, 117214, 153688, 260076, 5569, 145162, 38598,
       83983, 155276, 86789, 80672, 83032, 259925, 27278, 223455, 61080, 5336, 18020, 129359, 18197, 113550, 207206,
       35608, 157178, 5477, 115619, 93604, 139648, 112162, 214912, 31675, 8369, 177689, 31439, 37914, 245458, 43740,
       116564, 120228, 118000, 31019, 97563, 205055, 130543, 43070, 233649, 33664, 146313, 167182, 96877, 13835, 140504,
       54664, 204471, 232622, 17857, 221754, 82634, 33443, 163965, 95920, 88489, 20029, 225630, 44178, 172157, 60777,
       79184, 77104, 146230, 26939, 95640, 11448, 58796, 106217, 16809, 67141, 20686, 177734, 54104, 130621, 217400,
       25941, 134271, 135273, 60496, 194924, 82773, 90819, 226039, 42370, 126472, 30156, 130602, 103484, 46619, 131527,
       21164, 67883, 39168, 35743, 151219, 188552, 10331, 158760, 242140, 17779, 223987, 83872, 32857, 135678, 50959,
       26152, 118215, 68928, 28003, 113926, 225669, 30247, 135035, 151533, 39410, 146279, 250702, 16460, 214220, 178552,
       36416, 101449, 124290, 90231, 135010, 222368, 30985, 144663, 245457, 22523, 54103, 187390, 8873, 1529, 80369,
       65532, 68849, 49902, 110360, 94400, 17395, 7735, 112616, 68025, 71083, 198454, 15636, 85277, 241823, 49534,
       77655, 35199, 260280, 115031, 217196, 54696, 113560, 52819, 41365, 7511, 110301, 203899, 47309, 169852, 8736,
       87927, 1977, 92424, 124838, 216500, 189598, 105471, 169250, 218682, 23145, 239628, 138291, 36596, 120791, 8014,
       100085, 203133, 136820, 61797, 39631, 100111, 71736, 6732, 12767, 79820, 53212, 164884, 13538, 164052, 180890,
       112192, 171873, 185567, 113132, 198505, 103469, 61373, 21081, 217174, 82161, 224520, 239751, 86494, 249776, 10777,
       24867, 83525, 214835, 14756, 188386, 80614, 2709, 168933, 190984, 119653, 64696, 256973, 45313, 87086, 125929,
       11250, 8470, 225149, 61053, 87761, 2707, 9912, 87780, 163820, 11173, 258650, 31985, 64079, 47194, 93511,
       66694, 62563, 238716, 76040, 134867, 228408, 86024, 15285, 2731, 87591, 36895, 59229, 56753, 194466, 126035,
       84349, 43266, 131879, 39942, 222645, 225147, 57843, 38595, 195526, 51554, 42704, 164310, 43137, 27808, 43125,
       31269, 250414, 60438, 10283, 203979, 52212, 66310, 183014, 90802, 70423, 114594, 66011, 44060, 134726, 112767,
       127905, 211501, 240214, 73002, 5179, 66724, 116524, 101380, 85849, 74722, 58114, 158114, 24892, 170572, 10966,
       127745, 190188, 72793, 116042, 165279, 15683, 61770, 205410, 221094, 31858, 22018, 203679, 29185, 197117, 95220,
       105646, 185972, 182495, 9059, 134909, 216196, 83631, 222904, 93278, 83903, 200461, 30709, 23914, 178907, 238698,
       92394, 71815, 205060, 92459, 3443, 235529, 45879, 64450, 2630, 63357, 12486, 91498, 109151, 257995, 232263,
       68570, 195522, 182794, 81023, 22948, 43288, 54102, 142508, 251478, 19608, 66011, 208965, 130818, 154544, 204052,
       69669, 145433, 248386, 44098, 186277, 65053, 93557, 139563, 135897, 81372, 91907, 170068, 30527, 197686, 216709,
       114940, 99367, 138327, 9293, 102170, 35784, 79390, 21303, 9598, 62637, 209808, 71762, 41706, 236582, 203494,
       108315, 77639, 140561, 86019, 143833, 129913, 99549, 30947, 89424, 54350, 39509, 70673, 123522, 8934, 34467,
       45183, 154261, 248069, 69605, 31545, 249118, 122375, 101569, 25981, 10903, 194796, 14706, 14262, 424, 200375,
       130310, 46899, 141732, 127322, 47637, 258290, 101148, 123962, 191224, 63463, 137814, 172537, 66330, 106837, 114357,
       33713, 106367, 164563, 56718, 241793, 84756, 56537, 216440, 180027, 4730, 102488, 4957, 59396, 92443, 91383,
       62887, 160619, 23457, 87265, 139516, 92968, 67692, 135335, 102751, 112942, 132464, 152830, 48177, 16661, 97937,
       53702, 132150, 155103, 74905, 93331, 28759, 26571, 71551, 119460, 51576, 152324, 239582, 89937, 89878, 20020,
       53976, 155995, 36227, 118832, 10276, 13474, 80648, 175605, 54454, 20154, 169480, 192447, 63890, 79865, 93490,
       100241, 20904, 20382, 84324, 140904, 65613, 116033, 70026, 24833, 98301, 198760, 260027, 8075, 220306, 194288,
       14747, 67622, 239488, 85163, 225822, 189630, 31248, 159367, 83679, 77048, 182546, 68931, 103837, 142666, 229633,
       75619, 151277, 74744, 54458, 240608, 81410, 84707, 246996, 219935, 18824, 127873, 218602, 94792, 83463, 36302,
       91360, 124703, 18489, 67423, 230123, 99477, 36544, 168406, 31529, 104538, 73568, 102127, 66918, 222650, 161936,
       7756, 114138, 198997, 120404, 100766, 211265, 100626, 33754, 131831, 76651, 152126, 166866, 57255, 155766, 80412,
       125815, 255124, 61524, 101583, 130209, 151075, 70122, 160252, 175511, 85610, 49112, 146387, 36798, 135438, 38481,
       25652, 230699, 78158, 35824, 141480, 59858, 38421, 245053, 149570, 96958, 261672, 182396, 18358, 21162, 173703,
       101919, 238473, 85114, 68602, 123342, 33720, 50406, 200785, 198303, 39373, 136020, 105958, 67266, 60198, 137872,
       41617, 204454, 256399, 56289, 34485, 124862, 96864, 55587, 114626, 82050, 229697, 13904, 98039, 143143, 129356,
       93450, 232639, 106249, 106833, 47669, 138679, 26435, 237606, 255621, 130432, 199697, 231220, 62360, 48340, 213035,
       94140, 59679, 193635, 88834, 18183, 155914, 74206, 111120, 121152, 130523, 163421, 238211, 28484, 6040, 194786,
       55276, 221797, 246521, 16741, 235892, 153137, 23833, 141291, 89704, 93449, 164034, 74401, 634, 193879, 80366,
       116630, 150055, 132260, 82992, 198335, 206607, 57790, 80530, 215505, 43432, 42742, 87858, 16550, 260072, 147125,
       120791, 13456, 76687, 93365, 134161, 235145, 44091, 184327, 242661, 9297, 195798, 106226, 42687, 235954, 183182,
       24200, 101263, 104933, 103058, 108976, 95645, 94319, 62602, 48609, 65294, 238484, 14276, 116108, 252985, 216943,
       23682, 46964, 159679, 59240, 8706, 218844, 93142, 111275, 51331, 8886, 259413, 18207, 48847, 148648, 4976,
       74929, 65261, 45662, 48077, 176535, 120766, 62940, 168275, 259459, 79707, 75573, 8547, 48285, 182080, 114654,
       13895, 134652, 196094, 18277, 70557, 139707, 69075, 121712, 204380, 22903, 137531, 33975, 116632, 73157, 236187,
       109338, 101219, 48626, 45748, 86861, 23176, 108919, 39480, 238553, 69885, 260911, 136733, 20847, 32325, 258082,
       80505, 255904, 147837, 89057, 4413, 105127, 10995, 219407, 134530, 41215, 260955, 238624, 705, 180885, 189291,
       41474, 250639, 109005, 43967, 128627, 228601, 82602, 184845, 101165, 26089, 196, 171434, 3944, 22495, 52931,
       41370, 222710, 192645, 108215, 158640, 252575, 52316, 199329, 211939, 54407, 44721, 179236, 61476, 99802, 207076,
       98538, 122062, 161416, 62917, 215664, 66869, 11964, 160678, 176877, 27053, 61481, 118382, 24628, 21937, 236181,
       66566, 173243, 20252, 3922, 239821, 35477, 37174, 51409, 83372, 79586, 66928, 161601, 46484, 202727, 78720,
       92761, 65019, 32317, 51278, 42746, 99225, 128353, 63637, 250296, 126531, 46991, 59660, 104836, 189301, 20329,
       125093, 229452, 195897, 26840, 181845, 115865, 98425, 311, 60958, 42160, 115444, 174323, 95065, 203678, 177106,
       49006, 252655, 58346, 37934, 247651, 27306, 125671, 49996, 88574, 27510, 27425, 257609, 99427, 26956, 226217,
       88430, 165091, 230979, 39777, 110485, 16438, 60075, 245363, 218726, 18735, 219537, 123700, 120744, 171492, 138530,
       126893, 104497, 95054, 96005, 103415, 54734, 111335, 58538, 143068, 10828, 218074, 254189, 50327, 140166, 132162,
       43360, 19516, 151858, 74049, 86929, 68995, 24032, 195345, 102898, 73843, 135386, 42457, 85768, 256166, 76611,
       17347, 205640, 107851, 17264, 235078, 69246, 4643, 3815, 31022, 99731, 182231, 71360, 43385, 249283, 93276,
       29546, 81258, 48949, 101986, 101855, 94713, 18776, 212287, 53443, 55991, 206086, 54788, 97620, 178030, 206860,
       75213, 91627, 104457, 72613, 237714, 61372, 20639, 11578, 192820, 23715, 56230, 159974, 76357, 38334, 187783,
       3088, 250508, 232386, 113917, 8663, 184836, 45936, 238231, 169707, 54606, 188952, 152376, 33873, 63695, 63842,
       114907, 8997, 122470, 84214, 77025, 258296, 58970, 105605, 155274, 76717, 155835, 93816, 49855, 210680, 224473,
       61024, 216686, 151373, 46875, 148597, 180562, 53827, 253395, 109194, 41284, 158748, 57898, 10176, 149767, 23833,
       4895, 13466, 184820, 22820, 117546, 232014, 32982, 173633, 122941, 116715, 243193, 243180, 80117, 152999, 53975,
       125605, 242907, 19725, 44518, 50661, 218761, 52656, 158239, 17198, 94339, 129773, 133967, 75746, 204765, 217294,
       69190, 78091, 159308, 75440, 86522, 43293, 76563, 205429, 86281, 100367, 33785, 122954, 87566, 222162, 237696,
       125477, 24432, 176777, 124251, 107138, 251318, 55302, 71238, 111401, 4682, 61308, 170779, 1451, 155675, 135803,
       16147, 53992, 160058, 9816, 249526, 152645, 48937, 218830, 34844, 6930, 99463, 253568, 81908, 192032, 42539,
       24926, 135305, 140150, 67366, 121172, 72562, 13510, 194562, 153900, 108492, 27293, 117745, 102230, 200154, 140037,
       50657, 171189, 236277, 119353, 75833, 58796, 24340, 40657, 183002, 106684, 81743, 60782, 71546, 95287, 244390,
       43198, 188406, 13709, 11057, 93444, 65242, 22454, 24106, 235326, 113097, 33399, 144772, 79545, 202282, 201776,
       31076, 154410, 188374, 64992, 112290, 103066, 14134, 96465, 176085, 12955, 126633, 98059, 118982, 138521, 254742,
       60012, 36581, 56856, 47391, 86508, 58574, 124396, 194631, 245537, 52297, 214157, 156450, 44071, 243324, 57822,
       35780, 221099, 17178, 74063, 239610, 92872, 73191, 260348, 134576, 2122, 158082, 89377, 85729, 67351, 141325,
       103324, 259157, 163831, 80735, 184681, 228857, 114017, 256392, 227053, 36230, 116725, 224084, 25163, 32579, 46894,
       91393, 166281, 102775, 24714, 214602, 133227, 11941, 78315, 100201, 12663, 139005, 112504, 100714, 228574, 238355,
       3766, 171862, 188313, 37939, 175431, 36257, 16932, 189038, 99529, 98947, 152767, 99476, 65993, 221698, 100864,
       26934, 79102, 196203, 98357, 224738, 40188, 98352, 10246, 25369, 68553, 163681, 214339, 36156, 48048, 22418,
       76844, 134205, 209689, 122359, 172324, 148560, 6768, 22177, 27659, 34989, 170471, 79302, 37351, 126452, 165646,
       82812, 214530, 164470, 85349, 110047, 225727, 27042, 44943, 145905, 28324, 193340, 223425, 121662, 181661, 245783,
       99129, 156926, 241676, 122456, 156742, 183531, 108745, 153926, 231577, 52706, 106930, 243602, 15978, 177675, 16026,
       82516, 111570, 15751, 46136, 45223, 12426, 55759, 157399, 90430, 55820, 238395, 18208, 122751, 131032, 230869,
       9025, 245106, 221527, 25310, 130081, 256086, 79684, 75494, 200326, 115835, 245684, 126711, 120316, 151851, 21232,
       73228, 261951, 27591, 4530, 2116, 217334, 47563, 142326, 160838, 120433, 83170, 225798, 65528, 175960, 174156,
       95238, 171895, 120339, 35283, 188745, 8299, 3277, 187070, 30947, 75806, 216617, 70658, 109442, 165206, 179635,
       129796, 130715, 42662, 110969, 28384, 157335, 72613, 39074, 183727, 79787, 37360, 149414, 108024, 217326, 75281,
       2596, 164535, 231908, 124733, 243271, 91145, 69628, 60590, 227604, 124787, 102705, 89352, 100206, 242517, 78749,
       19964, 152770, 5832, 21660, 244953, 199694, 46353, 22378, 181622, 34601, 114821, 262102, 57579, 201058, 222825,
       79154, 232826, 183724, 57223, 91267, 51599, 7395, 41649, 28736, 127877, 258752, 35196, 55721, 159481, 158376,
       111552, 26992, 10167, 9693, 88341, 74395, 106176, 215984, 44717, 22728, 129151, 146346, 89050, 252887, 79055,
       86744, 85797, 135095, 119250, 48805, 25685, 42031, 192373, 149460, 14281, 150379, 89541, 113320, 97168, 158775,
       43460, 138927, 39526, 30478, 175321, 219526, 63728, 87868, 49431, 19154, 77899, 8454, 38923, 152204, 114522,
       50499, 131928, 188384, 36340, 106385, 130075, 59016, 108339, 62548, 50416, 244558, 198662, 101527, 51283, 41824,
       120377, 173566, 8931, 13228, 54490, 186953, 107911, 238806, 118321, 122129, 30339, 124228, 89995, 198775, 134505,
       130602, 188689, 249597, 43914, 198194, 135162, 108830, 100837, 54729, 88303, 140166, 147902, 42392, 120060, 205571,
       92363, 93335, 130476, 66797, 40288, 166905, 24769, 48710, 45124, 22790, 198635, 26233, 93506, 160862, 237886,
       93314, 39205, 108068, 69569, 151623, 61401, 65721, 145317, 73277, 23597, 261922, 13283, 56267, 102423, 115601,
       114215, 213877, 39953, 112030, 214293, 108747, 86627, 252260, 155230, 130725, 140114, 161916, 117070, 176228, 57189,
       19035, 168316, 229063, 52315, 159023, 116449, 17293, 81265, 68329, 61091, 78172, 143889, 101762, 13003, 168093,
       20419, 140977, 220311, 115398, 177375, 97175, 74587, 134059, 69854, 98165, 169758, 261553, 5918, 173697, 212786,
       12299, 145342, 18931, 81377, 135639, 123126, 109863, 128558, 106582, 114539, 64057, 56800, 90225, 247516, 192313,
       26337, 115324, 69073, 25561, 232307, 215034, 115521, 256382, 129365, 14841, 259116, 97832, 89924, 178336, 176929,
       69927, 211918, 220532, 55236, 98262, 75410, 57715, 139527, 203650, 123890, 57527, 23179, 112911, 21783, 92671,
       113375, 43255, 135926, 53296, 72059, 118925, 14022, 63174, 132717, 130788, 212383, 51267, 19050, 107251, 182384,
       67578, 106745, 67223, 34684, 43591, 103075, 66944, 23163, 161080, 39968, 53377, 22426, 117556, 190253, 128610,
       126922, 123111, 106967, 53747, 247897, 130880, 9199, 235030, 101957, 86944, 206887, 146909, 49365, 17283, 106377,
       129232, 231649, 186500, 11714, 139168, 216001, 15614, 36918, 261321, 91674, 206155, 257306, 99437, 188921, 226078,
       61747, 143629, 138756, 36341, 164094, 144339, 40607, 110823, 235816, 44298, 207789, 181329, 29528, 42225, 120534,
       111495, 110119, 8328, 8529, 209649, 79397, 53382, 188470, 109896, 97989, 220043, 217713, 501, 108157, 32243,
       115085, 125315, 49616, 92575, 69188, 117760, 9617, 71111, 221119, 117308, 260286, 26561, 63872, 10484, 56380,
       85490, 82305, 207015, 115609, 230284, 81675, 115495, 186343, 69065, 53574, 238315, 98708, 31154, 114342, 73765,
       33740, 198354, 5542, 100393, 129921, 82775, 121822, 77667, 99105, 9467, 109789, 52820, 1968, 174534, 257325,
       107863, 195134, 15038, 50672, 203532, 51682, 36234, 198032, 208026, 24690, 140759, 118968, 45413, 237631, 74337,
       127332, 69572, 118808, 128067, 209769, 258435, 43452, 36949, 246778, 126312, 207404, 63169, 39303, 184047, 46965,
       111998, 143161, 204130, 27787, 213831, 123808, 108329, 99924, 225676, 46364, 39496, 228969, 25653, 228905, 184506,
       122523, 123738, 193781, 28073, 149112, 202856, 130001, 216717, 66522, 14230, 261416, 16750, 1313, 116423, 138916,
       114136, 170831, 197008, 76887, 108266, 260796, 55263, 105556, 95793, 10743, 46044, 235141, 75352, 82266, 65100,
       51606, 104833, 129287, 63389, 76383, 84620, 82626, 189283, 25270, 83877, 98974, 93596, 125907, 174001, 102162,
       85859, 42206, 220521, 44486, 99473, 177589, 43205, 166199, 134244, 62542, 115453, 87164, 33990, 157359, 12058,
       49340, 159839, 245514, 110377, 106231, 225534, 112690, 176373, 96787, 82286, 4116, 94906, 76394, 33541, 19757,
       55980, 217355, 99847, 83348, 142255, 115472, 105651, 6325, 258223, 96711, 23481, 92041, 4647, 196513, 89465,
       95830, 175945, 22485, 94364, 257066, 205783, 12974, 232685, 139389, 19693, 58345, 200247, 103272, 195134, 20038,
       73267, 231210, 260022, 107692, 145504, 22883, 24214, 205324, 102785, 4012, 193577, 133068, 21226, 7777, 93465,
       59319, 68413, 31051, 68589, 7356, 164098, 112420, 157671, 175548, 93873, 219112, 193955, 129812, 126362, 182220,
       10317, 244916, 24477, 17068, 88190, 123744, 11056, 172069, 144717, 70576, 202658, 149205, 34977, 255577, 154186,
       89605, 35841, 126651, 17392, 15763, 49322, 13525, 131890, 205104, 60314, 211938, 247842, 49269, 196335, 23553,
       108680, 79657, 135345, 109779, 232711, 138850, 15391, 160001, 9273, 106472, 202217, 193763, 73946, 60966, 240321,
       66002, 102255, 116681, 12420, 216334, 166018, 96944, 231775, 151137, 7816, 83657, 18028, 36397, 161384, 28096,
       12508, 105414, 143794, 69568, 202416, 89873, 84571, 155780, 112950, 116766, 43452, 223795, 96190, 15841, 13941,
       125973, 229579, 2865, 99739, 56753, 21721, 39069, 9907, 174714, 71773, 9513, 63232, 60023, 16883, 97525,
       74182, 171060, 170407, 74984, 234329, 86967, 92025, 208004, 158478, 10884, 188448, 79240, 97877, 98967, 250456,
       18840, 199982, 200724, 3435, 11500, 100174, 68013, 258787, 131357, 76215, 91275, 97756, 4567, 262003, 17285,
       67550, 189466, 69753, 70067, 48850, 200501, 6880, 160353, 31128, 93268, 237631, 15454, 27563, 24062, 208743,
       104131, 93867, 22056, 40740, 20498, 238243, 62638, 86477, 34524, 116896, 177856, 26997, 105667, 145510, 185405,
       102480, 110879, 174181, 21028, 113023, 90674, 6310, 31171, 107385, 79398, 9747, 120527, 53830, 45865, 220464,
       119154, 151198, 116680, 45821, 232847, 63819, 53811, 103143, 184141, 68943, 247248, 153825, 104385, 217067, 57781,
       35166, 129399, 74829, 123446, 83145, 177472, 70768, 141580, 123598, 110228, 149835, 102211, 68893, 226980, 244775,
       101186, 181443, 131877, 6739, 215186, 12072, 104754, 99195, 17915, 68676, 107579, 187716, 58905, 209708, 155139,
       14628, 236512, 32371, 97198, 22308, 106516, 17191, 231279, 113634, 25207, 125923, 118280, 16570, 143909, 213458,
       861, 230176, 170873, 86758, 95153, 74009, 35500, 18516, 231546, 19591, 102767, 141755, 41939, 113568, 39826,
       65416, 7521, 4669, 65983, 74956, 199074, 48129, 30200, 15748, 64871, 199918, 226378, 56012, 130955, 166648,
       107828, 99418, 218374, 3881, 147311, 9298, 113774, 116820, 136328, 31970, 120689, 21337, 94605, 114947, 84170,
       53089, 92430, 35358, 38578, 212421, 121184, 80654, 212565, 186683, 100779, 57291, 96466, 58974, 18554, 226945,
       61152, 38094, 82538, 7714, 114601, 230069, 121110, 307, 119619, 111004, 116338, 161735, 52165, 186292, 81029,
       100263, 159060, 167239, 41062, 33585, 127234, 95737, 221578, 53581, 67723, 214086, 14136, 60393, 161432, 39739,
       7408, 152645, 147850, 126539, 205032, 22094, 109760, 227672, 10201, 103990, 251880, 80557, 39965, 255815, 143482,
       37957, 43162, 194080, 75129, 148257, 88054, 110916, 43719, 68994, 122503, 161075, 67039, 35249, 17117, 49615,
       79615, 19059, 216569, 94883, 101656, 52986, 29673, 175965, 17261, 53407, 190919, 159865, 24572, 164627, 139333,
       91606, 232352, 48931, 113218, 11905, 225483, 115020, 47951, 85621, 87829, 232897, 114832, 45501, 250125, 111366,
       86643, 231807, 103889, 113281, 44161, 198433, 82032, 46102, 31449, 54118, 150050, 215434, 120560, 101224, 228465,
       109473, 133513, 91688, 115662, 144653, 162015, 118383, 48387, 2534, 51617, 201009, 80395, 112674, 158332, 230483,
       74756, 228618, 81618, 5001, 150203, 185663, 83340, 89894, 234255, 61684, 252613, 206689, 36065, 18740, 107937,
       127190, 15448, 192566, 7218, 64890, 169815, 123978, 10840, 236275, 20875, 118534, 12205, 49412, 155880, 155965,
       54687, 222537, 87930, 95816, 84258, 216328, 28260, 86561, 242396, 129250, 89337, 131282, 98174, 126239, 131797,
       103540, 176216, 187728, 13949, 218129, 81556, 62431, 43964, 73672, 123942, 238232, 201437, 35398, 26248, 155619,
       19055, 190427, 24937, 63621, 163218, 202955, 121948, 125940, 161459, 63804, 162719, 113168, 53062, 115802, 186421,
       85232, 133385, 106745, 122799, 68025, 175782, 6430, 15199, 171222, 20105, 225689, 103745, 17400, 97760, 90477,
       11184, 200449, 251791, 39597, 169922, 120793, 30055, 260463, 113482, 71918, 16159, 199072, 42898, 125589, 28621,
       53111, 106120, 91598, 123452, 23255, 165375, 20402, 25221, 136331, 50915, 230355, 210260, 33696, 60555, 102038,
       71980, 74354, 109594, 96513, 16223, 6049, 107084, 61484, 122301, 67540, 253845, 134192, 112055, 164491, 86002,
       102901, 109305, 206923, 20578, 219241, 151166, 32168, 219755, 238539, 88043, 197417, 249318, 127768, 52888, 256460,
       49300, 18905, 13154, 30121, 97855, 122769, 113918, 139778, 84919, 26163, 141233, 4521, 91410, 182792, 8307,
       4489, 24680, 203091, 2487, 213404, 223830, 59187, 197218, 214695, 86054, 7234, 185604, 18669, 44236, 160491,
       100123, 157517, 10197, 16873, 196142, 24111, 69954, 39267, 112605, 40409, 102689, 185129, 98599, 89520, 194412,
       105397, 50101, 204626, 8662, 186371, 205342, 25245, 17329, 232212, 117000, 170060, 141756, 54475, 53927, 259029,
       62486, 189620, 225421, 22023, 57927, 29371, 130402, 223023, 120249, 120985, 185043, 143624, 265, 99005, 60601,
       72185, 234966, 80855, 114329, 217711, 142681, 56430, 236148, 217686, 57254, 31064, 27995, 49721, 207231, 199227,
       3778, 154021, 136821, 103584, 4560, 137233, 59871, 196654, 233749, 69607, 218983, 206284, 33513, 41846, 17725,
       102775, 256636, 242903, 104038, 54922, 195314, 72472, 114637, 64827, 118571, 102626, 230725, 15189, 46632, 195130,
       103104, 191414, 117060, 73214, 194170, 170842, 30279, 93802, 245230, 17341, 84253, 4154, 39453, 155920, 109773,
       112239, 10490, 83783, 103234, 221092, 117005, 84558, 209011, 215227, 11839, 89539, 3003, 125151, 147223, 86502,
       40034, 170139, 132717, 79560, 183977, 30557, 105264, 44147, 190331, 17413, 178240, 174390, 85484, 191732, 97971,
       4233, 26445, 23733, 13341, 191007, 248516, 94783, 231329, 105181, 20326, 243347, 6994, 58131, 82113, 58135,
       32549, 116416, 253881, 55211, 103326, 204577, 10121, 107829, 33825, 98946, 84963, 28641, 10360, 22335, 146918,
       109827, 33816, 15722, 86849, 122957, 48175, 54602, 184699, 185451, 113572, 32565, 10160, 24396, 157013, 110086,
       34676, 252291, 132502, 17973, 19026, 176290, 50012, 254742, 226817, 129333, 24114, 127575, 21106, 47307, 83089,
       108917, 196596, 80974, 85443, 58917, 262103, 2072, 207022, 89358, 123848, 169703, 217165, 127282, 229196, 152193,
       121228, 153300, 89706, 65764, 5351, 173947, 28885, 4172, 176019, 51283, 221198, 137795, 80503, 82410, 183246,
       49654, 220756, 158220, 92821, 124419, 135513, 104277, 177785, 151902, 27445, 143133, 174169, 53076, 143078, 219068,
       125533, 123431, 177951, 32742, 177485, 244112, 45409, 148170, 93125, 4674, 24526, 111365, 43563, 231142, 190756,
       48618, 188799, 87403, 13085, 169468, 157412, 189, 10116, 37849, 75419, 143562, 110413, 39521, 182108, 169612,
       2336, 54000, 254430, 112714, 162479, 95460, 76599, 195347, 193240, 22435, 99099, 204754, 113409, 158692, 12452,
       33238, 5327, 64744, 29811, 201044, 132153, 117261, 124549, 138560, 23521, 236762, 79586, 115210, 111642, 125399,
       105247, 82979, 95339, 40603, 42423, 45848, 4508, 129557, 11692, 10823, 5722, 67377, 14356, 23360, 121354,
       116758, 205762, 165986, 52957, 210688, 164274, 4263, 194077, 141161, 72947, 241177, 90683, 27261, 251729, 112125,
       30818, 115515, 134939, 21081, 222266, 115446, 99879, 177502, 215135, 80, 87350, 208807, 57538, 139547, 50025,
       11386, 98965, 81873, 72400, 221171, 169043, 45349, 238235, 113828, 3716, 25793, 209005, 60420, 213496, 229971,
       74787, 205095, 54955, 32460, 133493, 186476, 100337, 45972, 249803, 48634, 27218, 120817, 98218, 90780, 251958,
       75892, 196511, 182988, 113934, 193495, 160087, 71686, 137941, 32489, 24330, 138276, 127301, 107818, 176427, 61950,
       102633, 261176, 243067, 127448, 162882, 229360, 12265, 254096, 133775, 77493, 223059, 219552, 64444, 9715, 251251,
       87932, 144158, 74753, 128474, 34879, 26254, 69765, 253150, 75835, 89881, 35221, 154342, 45509, 251788, 37141,
       39186, 172952, 39946, 43947, 259904, 151972, 5060, 108482, 243922, 37321, 137855, 29418, 22668, 112650, 237125,
       59956, 45, 92409, 60401, 58577, 14623, 100300, 53592, 86890, 65836, 97222, 444, 60697, 7849, 216123,
       30359, 189773, 45535, 111736, 68128, 136603, 11927, 175822, 151517, 128751, 130212, 165246, 62400, 26701, 1091,
       24377, 180357, 251236, 46442, 127644, 169656, 2014, 157440, 142171, 21826, 120747, 170760, 43953, 173223, 250605,
       72668, 83733, 36720, 16971, 82121, 174287, 88599, 225747, 58391, 110661, 2122, 73817, 75017, 182825, 138003,
       38915, 122287, 193793, 15911, 35359, 151425, 2036, 55515, 172715, 95918, 208506, 239376, 82376, 12520, 238839,
       62427, 109732, 103641, 13368, 199496, 257850, 27135, 53623, 214343, 106846, 69255, 134445, 62895, 24016, 178419,
       126200, 112348, 166440, 131068, 91566, 223088, 104950, 74571, 82500, 33840, 168327, 82192, 30292, 183585, 115132,
       33244, 93754, 238033, 129339, 234317, 152832, 43953, 195858, 164244, 92595, 101602, 146035, 125700, 96799, 104047,
       107426, 27826, 102423, 78329, 33153, 117817, 22146, 170196, 244466, 22929, 132541, 184851, 64542, 230338, 129218,
       124773, 70507, 25335, 118553, 209109, 130519, 21783, 32792, 66563, 37712, 625, 202183, 77176, 177406, 162843,
       62577, 201714, 188042, 15645, 32021, 12169, 48405, 218002, 179387, 125136, 84304, 211433, 124707, 114106, 128180,
       73325, 18108, 94786, 83264, 254208, 6259, 29085, 183512, 138860, 97249, 59705, 62173, 6880, 204535, 71327,
       28925, 67047, 207202, 771, 48944, 212000, 50554, 166562, 236419, 111445, 114251, 226999, 128779, 23322, 95404,
       87524, 29151, 195191, 97631, 43566, 76435, 34439, 29547, 201246, 68201, 12268, 155298, 96544, 193555, 76208,
       65178, 245644, 248940, 11605, 249746, 122934, 97106, 144579, 90460, 28778, 195027, 195429, 12805, 112492, 152256,
       62660, 3006, 100364, 9779, 42217, 18996, 82502, 115426, 231773, 83948, 28800, 122075, 33646, 115611, 104743,
       126423, 119468, 62670, 108062, 135889, 181365, 14363, 204929, 256814, 98108, 257308, 169451, 46278, 53858, 167049,
       98341, 214200, 97447, 104961, 203167, 181542, 19841, 111296, 234330, 86748, 249727, 259039, 113079, 194348, 169770,
       42385, 59677, 129271, 10528, 207483, 53230, 3574, 820, 174472, 14418, 12027, 120671, 551, 73010, 230886,
       42853, 120209, 25370, 39233, 156416, 118644, 14462, 170560, 244617, 85343, 84546, 88985, 130011, 39356, 242426,
       118086, 59518, 230763, 33141, 166147, 25038, 100923, 8545, 17762, 122796, 141989, 16766, 118798, 255138, 261352,
       115939, 176909, 208538, 103081, 168173, 210163, 38402, 256575, 60218, 10952, 204004, 60472, 63939, 120118, 166225,
       7181, 152977, 96907, 130871, 247143, 250756, 46964, 96148, 216377, 125611, 138879, 118719, 101334, 134912, 137392,
       53908, 190809, 246700, 15507, 82178, 228482, 31089, 97710, 246895, 88217, 78298, 129741, 108781, 69986, 127638,
       128377, 58758, 91572, 17322, 199696, 223965, 20440, 86626, 160048, 5562, 164387, 143724, 34126, 130832, 147762,
       107618, 249388, 10613, 25985, 241886, 245379, 71809, 190971, 116477, 58511, 126945, 20661, 42706, 182776, 61771,
       81047, 236219, 22686, 65840, 221736, 231894, 43878, 20624, 44993, 90289, 16571, 75653, 36695, 259715, 117040,
       84303, 85645, 260783, 125468, 34198, 16951, 95545, 50807, 134398, 54840, 122442, 102405, 97984, 24995, 20561,
       106068, 247309, 183015, 42708, 147243, 198541, 92423, 23532, 227266, 56937, 46717, 35903, 107285, 99282, 92027,
       38715, 191929, 260680, 122914, 9298, 26612, 75338, 124109, 192455, 46308, 45079, 99233, 54967, 217823, 260684,
       45586, 172974, 58552, 19168, 209645, 86642, 8977, 114149, 65709, 42176, 46433, 90985, 60121, 124123, 91521,
       47424, 18320, 34633, 1824, 119848, 58003, 75891, 132820, 95688, 18981, 101096, 112055, 27656, 231701, 168843,
       15826, 197102, 58072, 68214, 41625, 242173, 12472, 188422, 165082, 33601, 67466, 183350, 59206, 95691, 253690,
       21981, 246152, 129617, 58489, 196021, 14428, 44922, 256481, 45397, 112800, 50654, 172738, 104189, 145197, 207276,
       130135, 114285, 90514, 69325, 135964, 120129, 75418, 117400, 90450, 124078, 200436, 107491, 52375, 91950, 144919,
       72834, 115559, 86343, 49687, 129524, 60518, 71547, 14272, 7934, 10586, 57106, 57510, 102733, 120429, 176785,
       129142, 160764, 235600, 8616, 190324, 7891, 104993, 230561, 33229, 31684, 174003, 117974, 25892, 232617, 253345,
       90881, 116612, 207598, 5784, 131617, 261015, 60717, 185525, 92852, 189, 86254, 244301, 72665, 140017, 19488,
       60565, 253847, 237944, 119994, 35710, 670, 94407, 125525, 129510, 16515, 230938, 134653, 46470, 68578, 20489,
       122104, 6179, 22459, 95070, 261449, 187198, 77892, 217021, 142084, 73278, 165556, 109970, 52179, 147374, 88936,
       76703, 137917, 229897, 101143, 156810, 195616, 16716, 162087, 174967, 127117, 168191, 151952, 31374, 8420, 101642,
       58686, 138606, 98297, 2977, 100231, 200142, 72134, 246628, 196357, 50052, 13475, 84518, 32736, 443, 45049,
       129174, 166459, 73447, 56117, 82798, 208643, 54302, 171171, 235957, 60699, 228348, 244593, 15224, 133203, 43982,
       51523, 234174, 188773, 44093, 46936, 196076, 60964, 207895, 167503, 112279, 12997, 41243, 25268, 201126, 58343,
       79657, 159619, 175890, 4933, 44204, 212123, 41522, 164321, 26427, 61952, 47041, 174775, 9735, 240347, 157616,
       71298, 253002, 64178, 40674, 262092, 242163, 130129, 155740, 42570, 82702, 113925, 75202, 32004, 139275, 14461,
       13457, 154042, 254481, 5337, 58437, 159588, 11897, 218446, 194397, 89136, 199839, 99609, 112065, 143549, 216628,
       20543, 84623, 19495, 52708, 148660, 217918, 46430, 87792, 238426, 84478, 72154, 174311, 23943, 250429, 169275,
       124953, 122856, 36349, 95493, 89676, 26122, 125183, 47529, 28991, 36355, 89567, 243106, 77033, 16799, 157865,
       95979, 215758, 101242, 93186, 119021, 105083, 2797, 229623, 140479, 130847, 198505, 31989, 121642, 177406, 38970,
       15696, 37957, 144278, 71246, 100726, 83824, 41229, 142530, 194149, 115198, 103928, 94191, 91425, 76813, 144962,
       29296, 220402, 22092, 4438, 65023, 173258, 38239, 47592, 223435, 4998, 191003, 195653, 18521, 230103, 57479,
       83379, 232099, 204215, 97659, 207106, 115027, 61343, 238844, 81, 78680, 244262, 140004, 20432, 42853, 153689,
       41522, 256007, 196545, 93439, 29263, 62100, 47827, 2193, 128813, 45719, 100846, 78223, 25427, 765, 139806,
       77964, 232300, 99540, 106107, 221293, 161238, 61531, 25897, 12561, 15143, 252031, 152011, 109886, 130032, 173209,
       9358, 42282, 89500, 61830, 65604, 56924, 34219, 243428, 46497, 122725, 24480, 96006, 96671, 68692, 159869,
       74240, 93904, 16439, 87524, 10779, 234571, 69825, 164571, 193449, 19346, 92036, 159495, 92942, 257473, 203217,
       64575, 199300, 185662, 83140, 48447, 12024, 5924, 176292, 15007, 18616, 205607, 164241, 77249, 253498, 221991,
       60218, 69516, 164461, 29736, 205923, 219099, 31557, 4030, 202318, 82792, 188309, 103430, 7728, 242785, 162999,
       56919, 28755, 168522, 68564, 58345, 207133, 40388, 227338, 68461, 107551, 28080, 236964, 7440, 236644, 85468,
       113479, 231008, 158220, 94799, 138150, 230805, 58491, 119001, 188475, 121171, 207033, 117842, 92043, 203947, 143781,
       122033, 255871, 7294, 61943, 75384, 28753, 59372, 23669, 247230, 69565, 130597, 61486, 8575, 159631, 61017,
       119078, 41552, 198929, 87519, 2462, 69819, 80948, 49800, 207047, 121433, 112368, 162684, 130238, 3183, 89683,
       21416, 78250, 22461, 98172, 139671, 198562, 76014, 150447, 53754, 60423, 215876, 90587, 128137, 167489, 224324,
       111445, 176527, 72759, 91324, 108505, 94310, 50158, 34232, 84468, 87299, 78717, 43852, 69690, 55617, 79737,
       32685, 58050, 102993, 59032, 99821, 31202, 27815, 12342, 139775, 65591, 23244, 148895, 94403, 11820, 38287,
       4803, 77030, 157402, 100319, 222628, 95623, 2620, 171054, 88751, 67800, 163337, 74039, 75166, 193713, 215422,
       99777, 184219, 42484, 99749, 149404, 130380, 54716, 188795, 120337, 8699, 151453, 77973, 90898, 118495, 142897,
       66975, 251123, 186752, 43654, 167256, 50865, 30785, 98684, 234677, 15696, 248645, 234654, 38684, 240489, 95905,
       60095, 39883, 195944, 62601, 49516, 208986, 76380, 198500, 68143, 47509, 125913, 164742, 120572, 223744, 85386,
       64994, 163034, 41981, 55538, 128046, 115458, 6313, 123718, 72106, 78514, 27484, 149925, 79019, 62177, 117170,
       76452, 245992, 163177, 116339, 27049, 68605, 99994, 245872, 130383, 113692, 154500, 33743, 7788, 166036, 152780,
       41697, 122612, 58103, 41774, 55544, 27997, 86120, 55000, 240446, 58800, 228501, 113914, 101904, 233060, 7346,
       50388, 21818, 249471, 29046, 143752, 215141, 38135, 141144, 126224, 23916, 176146, 163208, 25938, 50041, 239210,
       28421, 133778, 51921, 2109, 148380, 130200, 93859, 23826, 234973, 52376, 177787, 177263, 2971, 151207, 239531,
       48497, 164854, 8493, 118668, 107782, 107931, 67009, 213677, 33624, 129335, 146703, 251232, 70773, 147496, 174045,
       126195, 259628, 96165, 26450, 111444, 50159, 38002, 88020, 213005, 91746, 126427, 51573, 129344, 179039, 258916,
       108173, 100206, 108402, 72575, 67639, 146764, 11161, 32366, 189669, 47759, 235590, 93746, 11327, 259372, 201839,
       40800, 70952, 148852, 33920, 104390, 148287, 50928, 188701, 245963, 109743, 135581, 184765, 19710, 44842, 229479,
       40116, 108502, 127635, 34225, 41798, 69093, 38815, 230155, 129166, 47267, 167795, 191556, 32022, 112639, 248528,
       123546, 3280, 42755, 55063, 149905, 258788, 14957, 14128, 130111, 61296, 248862, 21309, 24173, 224982, 175358,
       28328, 177097, 171205, 37360, 248694, 83957, 16352, 137323, 230917, 94518, 131263, 173076, 103802, 2185, 59149,
       51679, 186983, 122507, 90307, 165184, 115484, 50981, 4383, 98633, 21505, 247192, 70026, 52057, 160467, 122815,
       73005, 118463, 5997, 5373, 54194, 67508, 85784, 151533, 206081, 97335, 29284, 261170, 112718, 5667, 33475,
       13470, 89882, 25944, 12, 70132, 126639, 9603, 44438, 203119, 121125, 219599, 147605, 100342, 241033, 27085,
       109502, 57958, 3818, 67766, 8499, 70524, 69038, 59611, 63055, 39125, 189968, 68131, 110461, 85990, 120485,
       108759, 146484, 126686, 51402, 178946, 115329, 43157, 181786, 156673, 96780, 16098, 46722, 3429, 238610, 227812,
       112715, 58202, 246832, 58490, 161600, 21244, 57847, 228873, 113977, 87697, 97416, 14552, 84639, 173055, 150267,
       34861, 197338, 96970, 123637, 108331, 61999, 129280, 63714, 100898, 68942, 113267, 172787, 73581, 79685, 249597,
       72655, 147875, 240727, 63673, 33335, 124222, 123887, 146145, 50032, 32080, 50591, 207396, 14150, 77090, 215377,
       121837, 162962, 22573, 27923, 93826, 171700, 98193, 76152, 181565, 26722, 21597, 113727, 125853, 131449, 103969,
       103693, 239254, 4964, 120418, 59835, 208075, 124647, 126442, 255891, 11065, 176395, 94982, 56805, 37777, 197150,
       84947, 211648, 132471, 105179, 138013, 152530, 31650, 48361, 90029, 119879, 23102, 188056, 28963, 212181, 87286,
       113531, 124073, 124179, 67202, 69007, 63944, 67557, 108766, 137900, 49021, 174072, 32513, 13566, 167167, 69599,
       45493, 206766, 241156, 55933, 61526, 214318, 62786, 64991, 241960, 96874, 182951, 134523, 46146, 139858, 202447,
       53292, 246254, 179659, 118764, 40895, 104464, 98640, 131187, 242199, 2995, 196980, 91643, 106442, 25598, 251058,
       129753, 243807, 175513, 123177, 62232, 22191, 109570, 107913, 228523, 82467, 16098, 137006, 36463, 51861, 167002,
       85777, 138699, 7967, 91172, 182542, 11891, 36904, 102572, 101988, 33466, 147988, 71747, 52025, 158350, 112016,
       84036, 108927, 112319, 38412, 67570, 19590, 72832, 84513, 238783, 117864, 221442, 112669, 38679, 102179, 42681,
       126612, 28715, 183703, 62042, 174656, 61167, 13226, 67536, 173728, 7214, 32352, 126220, 44390, 195543, 61326,
       33916, 14149, 161236, 110587, 50652, 78256, 96683, 194818, 18652, 115939, 65775, 63197, 77234, 166334, 259155,
       57076, 66153, 172753, 35463, 230547, 209129, 76429, 63214, 223423, 81005, 194965, 35505, 51504, 110906, 134621,
       122761, 114066, 171892, 83880, 33503, 23725, 109770, 88060, 206358, 81315, 224405, 137708, 41489, 28711, 221554,
       96550, 38341, 149061, 30179, 241663, 54867, 78198, 205177, 65746, 52738, 252002, 61758, 19645, 185997, 115386,
       54164, 70442, 47223, 40669, 33784, 170012, 14709, 45270, 160872, 107980, 213276, 242646, 65350, 55793, 246641,
       45397, 159729, 94838, 66186, 176720, 258687, 98904, 188318, 131168, 2398, 3612, 92562, 71663, 221973, 144965,
       62803, 65920, 120430, 117056, 130060, 188110, 72872, 83167, 254870, 17999, 47085, 155298, 50945, 127505, 60408,
       81404, 210956, 27496, 6020, 166712, 179034, 115952, 190446, 18177, 8884, 96196, 227474, 4009, 167853, 48086,
       264, 48582, 195267, 89619, 198707, 17316, 59758, 93761, 179993, 13476, 136529, 82032, 112224, 252570, 235110,
       26570, 249499, 184637, 42771, 251701, 105795, 23294, 81007, 210280, 121471, 210096, 169106, 99361, 86351, 68822,
       94890, 5139, 84445, 5766, 169778, 139417, 68511, 146218, 45172, 75425, 183969, 203778, 50137, 202257, 143796,
       42173, 61666, 129994, 111665, 224021, 158101, 3016, 217753, 17011, 81966, 133869, 251751, 51674, 191759, 256971,
       87287, 127842, 19621, 25941, 117587, 250117, 31281, 146520, 30787, 76920, 26777, 178188, 128442, 132419, 25792,
       127753, 190470, 260748, 32634, 114166, 89760, 13415, 92863, 180001, 77377, 122914, 155363, 55047, 251764, 136355,
       99835, 209936, 14880, 69203, 231431, 34398, 66923, 166156, 42730, 84732, 206529, 125593, 16569, 240753, 236069,
       88756, 247000, 43413, 64031, 66638, 35406, 107498, 82886, 126449, 18180, 152595, 249363, 39419, 135586, 154058,
       124550, 181596, 82336, 72492, 96582, 220615, 121805, 89296, 175093, 90313, 54797, 76562, 121429, 55539, 20985,
       41658, 33225, 26126, 11866, 115547, 9430, 105151, 113405, 204798, 105443, 86067, 219478, 81110, 226919, 4715,
       75965, 111586, 138716, 119918, 221183, 47871, 23134, 1853, 55805, 80810, 226750, 62136, 6523, 139854, 69916,
       18463, 117700, 56886, 57314, 42272, 19059, 107637, 76630, 15598, 96093, 44051, 52400, 127672, 148861, 242643,
       5878, 105395, 153129, 49984, 156768, 242671, 20813, 7325, 96346, 4844, 154513, 179886, 34655, 30539, 109237,
       32043, 108412, 161275, 55053, 228881, 175341, 18360, 189813, 193409, 64037, 138869, 77728, 120599, 33543, 92218,
       98066, 162435, 144585, 110385, 227260, 222711, 105477, 101235, 203569, 51069, 27045, 100278, 92924, 246664, 78582,
       98861, 229065, 1511, 26954, 185731, 183644, 112756, 80980, 233808, 59997, 227283, 224816, 2144, 79633, 81548,
       84329, 168266, 26423, 88704, 181399, 110104, 72320, 154075, 37431, 27841, 183058, 122764, 63213, 38168, 154547,
       52445, 132424, 76169, 127754, 13912, 55160, 108092, 66007, 247933, 99863, 184821, 125625, 23733, 181508, 107621,
       43390, 20227, 244099, 49769, 154589, 102614, 64569, 177186, 188205, 3961, 153942, 228080, 77726, 237382, 119187,
       46904, 255048, 41487, 73620, 38484, 31333, 1176, 213590, 7293, 42130, 231838, 199201, 100750, 156576, 253947,
       65677, 199557, 225535, 103401, 10459, 206213, 91614, 35800, 128972, 112056, 39223, 159293, 975, 169355, 45017,
       34252, 119240, 173616, 71932, 141533, 241127, 123341, 31809, 85867, 89101, 120190, 128355, 59846, 1414, 106688,
       17057, 231859, 28156, 64646, 189524, 143226, 57814, 39755, 32416, 102032, 30644, 165925, 54178, 113510, 60262,
       41790, 195073, 7898, 11759, 193520, 23258, 6094, 258854, 81067, 57558, 59686, 13194, 45463, 234193, 131503,
       72787, 117845, 232973, 93313, 231764, 3376, 5243, 202655, 87352, 65040, 44303, 29856, 112980, 99644, 173592,
       59659, 155917, 167095, 68320, 67914, 164226, 63804, 204510, 184056, 51090, 245736, 206866, 14433, 153679, 56569,
       16561, 199728, 5818, 23473, 153378, 165321, 103883, 8548, 254619, 36088, 93139, 146802, 124272, 125914, 73882,
       106190, 163595, 198590, 89724, 30005, 147478, 94423, 113716, 3037, 6243, 65236, 20480, 74499, 244084, 212554,
       123346, 55390, 81049, 5126, 65524, 233598, 38144, 30700, 233693, 6751, 187248, 174931, 74677, 44064, 223595,
       15230, 170027, 203657, 62816, 72476, 181792, 94365, 55726, 54786, 21553, 75405, 262116, 99007, 33422, 131330,
       7891, 31257, 48426, 19611, 152011, 20549, 36714, 163977, 27960, 104346, 77847, 75527, 111429, 37311, 69594,
       28885, 163323, 55657, 12554, 151408, 246994, 111142, 261661, 159274, 85113, 232985, 251182, 20690, 112134, 163881,
       73101, 14277, 58176, 114343, 122801, 174130, 9111, 121237, 148179, 10973, 133572, 290, 35862, 82943, 215011,
       85493, 85862, 228870, 23331, 244148, 180202, 107002, 231264, 145062, 98360, 100698, 33244, 73532, 7385, 219033,
       15213, 59283, 36533, 129527, 248862, 229899, 64229, 180327, 78668, 59254, 34507, 240623, 130491, 60400, 167645,
       113228, 246685, 76965, 59817, 8292, 240834, 54893, 90432, 133036, 12571, 9068, 9978, 121439, 195984, 211693,
       110595, 67329, 34258, 40632, 169540, 204871, 98739, 85931, 238047, 99972, 123564, 90907, 29872, 187047, 44491,
       80433, 13043, 48560, 33427, 35473, 143573, 103531, 247621, 13207, 20160, 38095, 202597, 87674, 222051, 178415,
       42731, 1853, 67731, 4742, 119182, 138346, 16214, 56393, 260260, 85838, 246373, 109306, 31446, 12465, 117528,
       82711, 17918, 252370, 54371, 149669, 13444, 90795, 88902, 204172, 64611, 199703, 41727, 40441, 232028, 173988,
       19112, 212740, 247342, 44708, 112758, 256170, 83216, 219304, 250568, 97055, 89987, 5182, 21016, 10973, 134288,
       87067, 134526, 124996, 23498, 137334, 96808, 29074, 79951, 72707, 69640, 213206, 112488, 37906, 84967, 84216,
       86716, 167162, 91015, 125275, 145147, 49677, 19515, 156922, 259115, 74777, 261046, 68545, 121018, 175760, 10261,
       23138, 1580, 31505, 48083, 231108, 96514, 16202, 185020, 33899, 84153, 43991, 171691, 87705, 236406, 101574,
       87055, 184804, 120558, 71057, 177335, 257066, 97813, 237099, 211835, 4702, 133428, 253571, 125503, 54480, 118482,
       29110, 155756, 256249, 15933, 97087, 195903, 123356, 152940, 47076, 108847, 7209, 81972, 100253, 25060, 74603,
       13729, 60178, 82336, 105844, 122970, 112676, 79825, 244110, 150408, 95932, 190175, 171253, 128197, 164552, 20058,
       25485, 208133, 194101, 66110, 92371, 69081, 98743, 90787, 94040, 56840, 53794, 35963, 7163, 128158, 19465,
       14606, 136145, 99855, 78917, 104602, 36867, 37356, 16639, 204883, 18067, 12929, 207847, 44550, 84908, 84294,
       26342, 254994, 4094, 3137, 208080, 46853, 19898, 147615, 201948, 115746, 208271, 177775, 1577, 196789, 119283,
       101430, 28047, 128581, 98757, 171460, 55459, 73955, 199829, 99612, 27321, 174469, 35069, 115088, 256546, 148108,
       62269, 27512, 206746, 22702, 127625, 206588, 56232, 222623, 233542, 25548, 50036, 185701, 49284, 26149, 141746,
       65101, 225318, 129192, 47172, 243640, 150172, 86120, 28073, 86637, 122672, 162114, 113200, 45632, 165490, 36580,
       46627, 128334, 152349, 96770, 204846, 89614, 69545, 161107, 130515, 56208, 220995, 65116, 106667, 122389, 26599,
       116789, 230529, 38944, 77409, 96371, 111756, 24261, 224438, 246345, 61117, 6302, 209256, 66108, 228439, 237191,
       56650, 74111, 14123, 34397, 123529, 62200, 61908, 42986, 233948, 58529, 182779, 82248, 27458, 192720, 204198,
       118414, 121231, 235605, 116043, 107245, 156067, 99564, 116525, 156462, 52552, 228018, 79428, 48541, 119157, 230617,
       93908, 144165, 14607, 79707, 106003, 66520, 78721, 163451, 18326, 16267, 143165, 46167, 81039, 181312, 33974,
       118208, 259153, 255727, 11248, 35767, 236254, 44455, 225578, 1818, 66717, 136631, 182008, 89916, 166856, 97974,
       11748, 165016, 48995, 114400, 118847, 98232, 5314, 103693, 50417, 112419, 26216, 113757, 3624, 97240, 247982,
       20122, 159002, 20653, 104900, 11710, 177386, 112743, 124023, 204417, 128747, 143334, 26546, 15166, 255323, 48945,
       69003, 180, 108973, 10112, 253885, 123354, 20500, 173106, 230130, 22871, 67880, 127300, 8308, 111383, 193769,
       117044, 170163, 158618, 16561, 175756, 85594, 82488, 252438, 52430, 82017, 240974, 244722, 26036, 216100, 115522,
       130863, 199447, 190406, 45530, 49484, 127249, 118632, 138776, 170859, 124293, 151106, 159282, 124385, 225933, 130051,
       98675, 243343, 155052, 33266, 191275, 2251, 15814, 141104, 235788, 74695, 252634, 228778, 47191, 12842, 192763,
       108925, 247819, 186073, 97647, 88126, 176721, 36237, 66195, 148153, 2230, 57857, 222681, 31105, 118268, 41075,
       74332, 255290, 256833, 10354, 93500, 251156, 86281, 27837, 22565, 88040, 150847, 139944, 22202, 209765, 108724,
       78160, 163467, 63749, 79556, 251397, 157116, 62649, 144598, 90940, 124943, 218755, 22282, 14177, 43088, 28117,
       53297, 62822, 90538, 115726, 50190, 76317, 50634, 249271, 210544, 55658, 95114, 29655, 87591, 260585, 257375,
       87236, 195446, 218059, 3001, 211156, 18557, 59729, 45360, 55602, 43714, 16910, 122263, 82273, 71154, 209891,
       72837, 3649, 204805, 85309, 192725, 104184, 85690, 156993, 230013, 33406, 148007, 234743, 32304, 165051, 138388,
       48533, 171463, 71295, 31713, 256727, 252932, 89497, 5341, 106530, 79018, 222587, 178673, 28362, 72806, 119412,
       115881, 101056, 65026, 60379, 254353, 199988, 16653, 31479, 29554, 27913, 216416, 56103, 70759, 76810, 255888,
       44357, 239254, 225960, 111571, 94810, 127983, 64845, 251479, 189912, 119969, 136336, 135498, 13346, 157419, 255855,
       87633, 219972, 89474, 116101, 155233, 46112, 38394, 257764, 41919, 17784, 221413, 46163, 59853, 88892, 14365,
       126003, 262068, 215123, 83029, 31850, 100558, 84407, 91631, 161517, 88015, 3259, 119223, 5211, 158078, 145342,
       58412, 55249, 67451, 10167, 135935, 119775, 41400, 65138, 116152, 107688, 164447, 162313, 86018, 161179, 105182,
       130491, 184750, 227832, 22564, 163764, 88820, 52042, 181625, 62186, 106121, 42581, 17551, 28271, 34002, 108196,
       20148, 165109, 82480, 56048, 8669, 47016, 50295, 209326, 178960, 128477, 144988, 52017, 59801, 209823, 93239,
       112845, 251417, 235136, 116387, 109192, 178709, 20692, 147143, 259942, 93756, 112960, 71078, 36386, 137088, 102963,
       12417, 164114, 198759, 114649, 84438, 171763, 38329, 205401, 172853, 45267, 201621, 11852, 42465, 233568, 237219,
       26253, 31896, 258393, 56951, 59582, 134919, 56137, 51539, 174204, 53575, 234116, 244032, 120100, 256459, 127895,
       44531, 242608, 23582, 3981, 216078, 160085, 23388, 24977, 157878, 94568, 16992, 89501, 77445, 5045, 117366,
       124745, 205572, 69983, 91020, 261716, 165880, 25459, 168982, 37284, 15813, 20715, 169326, 68257, 6624, 100634,
       87197, 83191, 217763, 21710, 88740, 190810, 78865, 27854, 158468, 113381, 10396, 167352, 95363, 239741, 252500,
       87056, 223701, 120071, 103459, 52422, 183121, 13642, 86203, 188445, 26716, 156388, 220514, 4993, 203757, 198838,
       19002, 143985, 260452, 119692, 166728, 105448, 29116, 256899, 4482, 86782, 106519, 216254, 90645, 26864, 44322,
       84584, 25851, 227134, 72603, 141479, 24233, 63718, 20159, 4559, 55039, 226642, 225455, 120179, 195549, 200401,
       1247, 17382, 125160, 7010, 260115, 180086, 64554, 155681, 170296, 43320, 161858, 204040, 53507, 144308, 36874,
       130790, 302, 246770, 101598, 119352, 89261, 115003, 161377, 198461, 48309, 211100, 151757, 31399, 174585, 245156,
       100662, 12232, 177482, 105850, 160910, 242666, 72076, 75788, 168524, 117432, 221828, 81531, 126789, 67124, 64437,
       61737, 163148, 214349, 29185, 95808, 57759, 67779, 12888, 248176, 129700, 25871, 246023, 38394, 133523, 175761,
       80949, 256523, 186850, 90961, 216745, 28675, 28040, 19643, 22386, 77130, 134780, 113349, 41223, 16328, 477,
       111962, 252151, 170922, 93684, 47191, 14016, 108300, 103070, 115388, 26172, 202066, 229461, 4531, 203377, 132830,
       111480, 26885, 86857, 50692, 169491, 8800, 23556, 150988, 43871, 12044, 238371, 214012, 67698, 208050, 257626,
       19677, 149685, 123197, 74277, 119807, 8872, 95329, 137138, 19025, 70131, 37920, 251368, 118449, 193440, 103458,
       20390, 215430, 47333, 64743, 123114, 223355, 21389, 183472, 177842, 114806, 56964, 191501, 122190, 122271, 209389,
       52428, 68209, 137821, 40075, 9346, 39915, 36610, 136120, 241253, 112686, 47892, 14849, 89449, 7325, 137863,
       115421, 24342, 153006, 15403, 43482, 235839, 62393, 244465, 70942, 88628, 38343, 191850, 117583, 125879, 213941,
       50072, 5873, 157107, 41037, 89655, 247266, 119664, 63290, 152367, 6230, 73595, 36682, 62861, 141569, 238690,
       60113, 26359, 15176, 19143, 237576, 67273, 51766, 236184, 158509, 94712, 155482, 161826, 48086, 47386, 94183,
       40587, 214534, 79016, 102484, 159043, 46962, 129592, 237595, 81556, 102151, 71920, 189822, 110931, 237886, 172723,
       123142, 63512, 25630, 105089, 241349, 10118, 128496, 261482, 12723, 97948, 10967, 256507, 86707, 21974, 167333,
       90878, 152318, 12968, 117975, 137677, 204459, 89523, 64054, 215710, 99772, 179350, 34285, 28312, 223878, 188748,
       119622, 212354, 25308, 58617, 35147, 257610, 21111, 109365, 208680, 104829, 185271, 137652, 46713, 38170, 13370,
       24132, 226572, 183945, 33587, 92257, 156859, 4580, 218302, 116633, 11878, 35550, 90295, 77676, 133514, 71432,
       113536, 236759, 5950, 58789, 204038, 124400, 82058, 181620, 150624, 106133, 88354, 38657, 46762, 108693, 46054,
       85762, 66539, 202635, 45931, 230401, 220399, 84241, 258731, 16934, 28522, 73162, 220601, 128167, 104638, 153932,
       9984, 202501, 15961, 66221, 230700, 134793, 37525, 116248, 43575, 78753, 4373, 229710, 56139, 13754, 243043,
       40195, 71276, 195579, 32772, 244665, 145302, 23920, 120156, 92436, 102613, 146205, 252870, 29124, 49847, 242152,
       101387, 164000, 70947, 63574, 257052, 241669, 9467, 18668, 167061, 21684, 236623, 21948, 117034, 209063, 160142,
       79012, 72200, 49051, 24160, 240753, 109802, 92243, 229366, 229961, 107906, 147682, 248040, 43339, 96824, 174298,
       72954, 12513, 15038, 38463, 19531, 6806, 10493, 222682, 45092, 52364, 118970, 178806, 98491, 182874, 32890,
       60120, 37097, 42590, 53119, 109948, 60686, 47973, 77137, 86424, 60151, 38215, 157176, 41710, 237296, 105167,
       80240, 54210, 51572, 8331, 188761, 150514, 105825, 257601, 17595, 22697, 88630, 45603, 83026, 227390, 154694,
       58967, 540, 107668, 101383, 90748, 24156, 108283, 215050, 134866, 26764, 249346, 248446, 88759, 59038, 59397,
       24891, 145942, 170578, 16252, 183512, 97952, 121935, 202011, 84559, 21546, 210826, 242028, 29901, 185772, 243514,
       17081, 217146, 174013, 61642, 25827, 103710, 120534, 202107, 61616, 34610, 82256, 189186, 71021, 168422, 180597,
       53930, 188635, 192702, 44041, 111541, 174224, 74993, 51786, 95291, 73255, 55139, 234048, 47102, 235696, 149878,
       111485, 8495, 113452, 6969, 98174, 196291, 11172, 96188, 224630, 129863, 178600, 98175, 98000, 77240, 79395,
       105372, 149220, 86854, 78997, 61687, 231049, 55031, 247925, 90748, 82474, 6671, 93153, 12135, 68821, 155630,
       99322, 83998, 52239, 70876, 71480, 46598, 125400, 199847, 55277, 83555, 41150, 238085, 19882, 168881, 217499,
       62593, 117616, 66585, 7578, 230123, 6597, 97704, 247253, 11074, 65776, 16041, 236648, 48451, 54128, 239959,
       126949, 184694, 193839, 123286, 33837, 12441, 124889, 156103, 158460, 28963, 3037, 179994, 95495, 19411, 205548,
       123913, 33420, 14961, 74825, 27862, 134462, 28070, 111306, 90350, 107192, 82645, 22015, 115332, 168955, 98286,
       92174, 122831, 94374, 38476, 147525, 77760, 24994, 165330, 36937, 81824, 76384, 42621, 63281, 165252, 38065,
       87658, 180683, 230235, 14640, 183121, 20977, 17814, 120838, 177546, 47564, 172983, 221511, 33916, 59878, 250760,
       81177, 249837, 141411, 48174, 71372, 136578, 89649, 109807, 103958, 100767, 247506, 23058, 24532, 112135, 184904,
       120563, 39257, 134162, 103174, 161110, 11329, 82153, 108344, 27806, 119135, 32204, 71271, 34847, 248709, 37486,
       55274, 207830, 23614, 11244, 71065, 247835, 59792, 173975, 51378, 66374, 250722, 89654, 80749, 32458, 36267,
       8393, 196014, 228449, 4255, 101206, 188867, 55035, 221182, 93000, 24790, 21366, 124265, 99455, 237393, 12344,
       87652, 157872, 19666, 42706, 207929, 10145, 6000, 237012, 169052, 23913, 65710, 45370, 90659, 208350, 193129,
       129782, 234068, 62167, 42789, 214490, 192136, 105119, 67456, 62487, 113652, 18703, 37750, 6315, 42801, 185422,
       120090, 261431, 188268, 61106, 31684, 158777, 126385, 40500, 27, 70589, 154511, 223036, 30820, 191399, 13306,
       127751, 189894, 28177, 31890, 121032, 176510, 115668, 48823, 185227, 22692, 78134, 150746, 88443, 35467, 33592,
       53908, 213322, 74294, 127404, 95942, 111404, 24218, 135871, 134154, 53581, 140346, 207035, 83856, 199844, 48165,
       128138, 174094, 251014, 39827, 246724, 196187, 52018, 178887, 191818, 60527, 261976, 218903, 33121, 251342, 105296,
       107132, 82651, 189837, 12058, 12592, 171651, 92378, 59225, 217355, 69983, 36162, 219323, 31709, 222815, 219082,
       64596, 72306, 106814, 108783, 22914, 144703, 58384, 241672, 258617, 15977, 100622, 32135, 5347, 260775, 194003,
       101947, 82801, 89599, 43310, 139798, 255020, 122060, 27490, 229338, 80890, 187513, 190498, 57184, 157858, 186401,
       73985, 143134, 76676, 59917, 76030, 175611, 118726, 123257, 137525, 60033, 220846, 74026, 13639, 247272, 132081,
       78261, 137224, 38477, 81655, 97433, 248485, 100313, 89994, 86787, 122327, 109838, 182489, 58075, 157873, 108816,
       46147, 100920, 136390, 64326, 88755, 178699, 117990, 228188, 218383, 128448, 65733, 39926, 127301, 187377, 23836,
       30106, 170460, 76344, 65129, 18043, 141252, 34009, 204345, 175600, 48232, 62718, 15839, 4152, 235688, 218014,
       21050, 83301, 95387, 52045, 141435, 70799, 47802, 148256, 205037, 36547, 36737, 92998, 30187, 35884, 86537,
       98167, 32349, 165372, 38607, 57213, 233921, 92608, 22770, 166848, 48316, 112799, 241547, 105117, 5983, 53447,
       21919, 159772, 249262, 20657, 119487, 73473, 89086, 887, 134831, 119919, 202001, 117367, 18741, 145064, 41917,
       9660, 160345, 164358, 122504, 201319, 103853, 15378, 72662, 195711, 32816, 24355, 39559, 121830, 172887, 35642,
       105240, 14173, 25964, 44925, 249600, 223429, 125111, 224728, 105959, 74455, 66773, 220205, 9469, 189865, 112746,
       92152, 100070, 33784, 70422, 4677, 225174, 75050, 68408, 126183, 130299, 60689, 141905, 19990, 92311, 145563,
       86087, 144767, 17562, 60128, 29647, 120968, 35637, 150907, 54914, 90904, 79412, 7463, 87583, 259279, 67321,
       112262, 138100, 156334, 115195, 38900, 181544, 73638, 209544, 216185, 42673, 117277, 232041, 69413, 44249, 226035,
       47088, 75488, 228867, 36353, 161650, 7988, 72296, 23046, 171497, 86236, 196103, 159700, 77407, 94297, 234411,
       125097, 177079, 93178, 39142, 218452, 196415, 48803, 149249, 256602, 87509, 73433, 61389, 78690, 54007, 260965,
       244, 62296, 175788, 40931, 230930, 185369, 33261, 19274, 157653, 110089, 84940, 142993, 113540, 249994, 214487,
       37210, 115810, 78728, 13378, 175701, 147347, 26896, 60189, 141846, 23143, 45398, 239998, 31121, 33400, 91163,
       30755, 98732, 84964, 62893, 107843, 24132, 41896, 9189, 191101, 73376, 250748, 28503, 45106, 108391, 189079,
       106781, 87704, 13672, 124622, 71210, 238991, 52942, 104731, 74937, 6483, 246360, 187258, 31402, 10, 58444,
       13350, 197472, 173355, 45188, 234667, 235988, 84556, 108239, 236797, 68014, 77972, 109931, 31834, 52656, 256970,
       100566, 46805, 73721, 17233, 115909, 241514, 29910, 26961, 239958, 88610, 223378, 208720, 25851, 237379, 210346,
       88966, 206227, 141937, 128049, 172141, 14772, 108967, 36191, 114449, 20972, 236334, 260143, 68222, 201615, 212016,
       55354, 139450, 184782, 129980, 24466, 64907, 126405, 243473, 189275, 16660, 217836, 164548, 119109, 45313, 106354,
       25351, 190946, 150687, 41871, 38596, 30086, 46321, 233496, 188393, 37594, 88892, 146926, 111836, 97113, 87975,
       43244, 236009, 9707, 107051, 141050, 225734, 130334, 251158, 82595, 110200, 77669, 161120, 45369, 169254, 56663,
       93225, 71751, 73337, 69982, 108539, 40369, 103090, 120316, 3430, 20066, 204920, 227360, 83641, 151342, 231608,
       101406, 13452, 9636, 99776, 29778, 25011, 126300, 16365, 204654, 7656, 25297, 121336, 45321, 260431, 16570,
       62462, 217860, 180126, 40601, 85247, 131190, 40604, 191662, 245382, 23085, 138604, 258538, 106555, 43593, 221423,
       119022, 111617, 34775, 10790, 212775, 108425, 20302, 238593, 131874, 29943, 207512, 257324, 66714, 1961, 213877,
       103700, 131268, 78594, 9365, 214575, 228546, 83468, 92184, 149040, 19573, 182694, 135667, 127330, 215167, 255038,
       117804, 8160, 46029, 124463, 189576, 135293, 13915, 29297, 229174, 63967, 237180, 245135, 21659, 51912, 71921,
       78689, 210436, 179865, 30505, 152299, 16286, 101008, 37814, 218207, 84410, 185826, 166244, 74921, 93685, 172318,
       108164, 45625, 224642, 65571, 206228, 14481, 35370, 1916, 111986, 81357, 29065, 165279, 125444, 29708, 27795,
       78795, 41961, 256995, 82525, 125940, 104634, 122519, 168111, 102714, 67538, 36162, 31214, 130594, 148169, 137585,
       20927, 58555, 25349, 70390, 232339, 24934, 27905, 88875, 152387, 59418, 103219, 131543, 22357, 121494, 232695,
       29167, 76320, 256677, 27629, 257977, 85456, 41947, 38710, 111574, 17642, 249321, 21713, 106082, 25574, 86411,
       28924, 102731, 42621, 54600, 139285, 90972, 2104, 168092, 136956, 13747, 8818, 208169, 117476, 39460, 206956,
       109728, 68744, 15533, 110221, 101630, 36020, 53916, 239889, 172917, 18550, 190019, 146071, 14141, 249225, 232064,
       79377, 146891, 26342, 108552, 248068, 210461, 117979, 211131, 153763, 37844, 166435, 212385, 42077, 155860, 171428,
       13222, 27569, 51659, 101503, 115316, 227254, 36135, 72146, 85280, 63036, 101563, 173136, 121752, 112066, 92039,
       98594, 110154, 67863, 6912, 120990, 149743, 1068, 219940, 32282, 103207, 34514, 36793, 72417, 81542, 221769,
       94415, 176083, 44620, 20554, 25654, 14722, 114301, 14625, 96318, 101361, 65968, 98567, 116764, 9998, 248975,
       44708, 38206, 120691, 36137, 60648, 165332, 19887, 194849, 258484, 121908, 147040, 37305, 23177, 93682, 18146,
       15639, 38917, 31673, 25254, 188274, 175, 101106, 143049, 87440, 116592, 98536, 183234, 106288, 12732, 80659,
       73824, 210659, 112271, 130270, 103944, 209261, 9024, 220185, 148976, 113664, 143548, 224920, 56061, 81600, 223355,
       59653, 208794, 248903, 16724, 30906, 249242, 4382, 33243, 173434, 41501, 28299, 168695, 22918, 105458, 135013,
       63352, 46513, 190012, 19310, 237688, 216901, 18078, 121707, 238194, 114947, 102080, 11193, 120755, 246177, 104888,
       126381, 195793, 69599, 89194, 213959, 244444, 101058, 177030, 51351, 109547, 256754, 26124, 86366, 60852, 75985,
       43285, 163635, 108772, 20497, 250782, 87219, 31099, 232499, 174100, 110154, 196751, 17149, 91238, 224714, 58515,
       59742, 16336, 358, 3854, 47782, 160223, 34891, 246216, 137987, 95538, 13688, 233917, 67159, 162444, 253728,
       57086, 30177, 47025, 41114, 153726, 59938, 79551, 201561, 219636, 126666, 17100, 7889, 118112, 20492, 241504,
       3997, 111605, 88970, 63039, 151895, 14860, 43184, 52385, 47641, 66925, 255407, 124923, 79457, 167971, 24120,
       26218, 20690, 170976, 102441, 180882, 120826, 62268, 31315, 248964, 130024, 57049, 203314, 3293, 130208, 5394,
       24866, 228553, 41736, 90391, 41214, 8205, 91118, 157217, 91949, 76308, 150719, 235064, 127396, 195265, 252648,
       54436, 44255, 241317, 54661, 222568, 121832, 119337, 251102, 165343, 70574, 168099, 212365, 46363, 207633, 158774,
       94232, 167688, 17901, 81221, 122491, 68227, 40161, 203977, 45353, 39050, 32354, 95229, 51853, 199386, 18096,
       9387, 100989, 257749, 123550, 178950, 191325, 23988, 210425, 67700, 25404, 246141, 89289, 84808, 161958, 113982,
       94928, 133427, 4728, 96578, 130380, 30579, 49161, 218491, 256070, 114468, 254939, 48348, 71303, 11802, 26288,
       57486, 143559, 201054, 106218, 255380, 82261, 31924, 15743, 239680, 112746, 59360, 106562, 70625, 117022, 62587,
       117972, 110845, 165953, 26425, 198618, 206087, 122691, 172883, 101883, 90161, 99699, 158222, 81045, 145926, 105079,
       55321, 61319, 17531, 125346, 31372, 56678, 58185, 113645, 53316, 65345, 5731, 80995, 102432, 136338, 20498,
       37334, 227261, 156772, 38206, 229019, 204526, 101619, 214567, 257035, 16853, 55083, 258134, 107867, 158755, 108766,
       81942, 246071, 193623, 70658, 206420, 13742, 30029, 216253, 93022, 103070, 222479, 156501, 105506, 212690, 8889,
       63300, 41027, 49906, 51009, 40861, 9559, 32264, 242317, 133352, 98858, 251943, 112641, 83814, 63561, 143674,
       27083, 142155, 198117, 104132, 136351, 183649, 115632, 108745, 224428, 7765, 172287, 13076, 101242, 188184, 144098,
       111778, 119280, 78301, 129958, 242063, 196786, 31142, 236891, 87178, 48628, 34632, 223121, 126640, 156981, 134839,
       12322, 211342, 160198, 68643, 113906, 47273, 66420, 6702, 165651, 79501, 111471, 172691, 43357, 170292, 48528,
       121361, 245292, 252019, 35397, 123101, 232237, 85156, 233539, 16360, 65002, 38463, 126036, 34953, 110824, 237719,
       24753, 116578, 216612, 125378, 133890, 60678, 73569, 155832, 163453, 79192, 134020, 93080, 102615, 176582, 46566,
       10646, 141713, 260940, 93554, 133721, 242327, 21645, 65041, 10605, 97056, 88285, 178199, 18524, 60725, 3583,
       109116, 161016, 174347, 89262, 42814, 244796, 50579, 107987, 189035, 47033, 38857, 241052, 19522, 206966, 121442,
       118496, 21350, 219202, 15535, 227764, 9039, 61876, 33415, 81118, 31000, 248225, 204809, 130590, 167544, 98345,
       76787, 197006, 165566, 19606, 89136, 110732, 87498, 248590, 47570, 129972, 46427, 30532, 79304, 61047, 68330,
       59949, 155367, 247353, 38439, 131433, 253890, 12074, 209775, 21810, 29916, 183212, 198401, 72564, 47924, 245698,
       98800, 52191, 36631, 115072, 41325, 124804, 104033, 118510, 73785, 16444, 255557, 116577, 101378, 244855, 50240,
       76232, 18631, 54857, 61486, 226958, 83167, 75073, 88745, 73098, 1058, 117831, 224986, 8877, 141140, 22427,
       68924, 30593, 248788, 22756, 163123, 218848, 71505, 37664, 87655, 46427, 126168, 3516, 118936, 80838, 95082,
       124476, 237550, 159010, 128422, 69014, 41225, 117825, 157547, 154117, 129222, 179738, 97879, 92556, 30425, 188657,
       125900, 51828, 210332, 84121, 5775, 170461, 106065, 85072, 68674, 17289, 185222, 29221, 89469, 181704, 33709,
       122041, 150198, 88734, 70785, 53245, 43043, 24486, 218494, 232295, 69060, 88455, 158107, 92660, 44557, 130511,
       100897, 188259, 178781, 68642, 175596, 15389, 28490, 225881, 189243, 121462, 249796, 32670, 101399, 152570, 69586,
       35479, 175648, 124058, 106405, 247125, 131654, 45595, 13945, 115289, 40951, 316, 201325, 113125, 47107, 48158,
       114456, 179575, 252355, 52229, 197769, 97974, 1169, 138912, 29155, 24453, 138707, 201081, 119183, 75584, 204181,
       117800, 228879, 163901, 59420, 210454, 261548, 39861, 48511, 88298, 39681, 216044, 24258, 117597, 30715, 116908,
       42563, 116532, 129271, 67053, 222246, 236886, 95815, 21082, 128131, 27457, 25974, 198116, 33271, 51406, 226679,
       46931, 232902, 78471, 85750, 96492, 53089, 107150, 35291, 176629, 71657, 214384, 86736, 17423, 61700, 228024,
       58490, 76860, 148616, 16736, 177820, 45596, 11573, 75136, 100285, 77282, 65341, 126096, 125332, 166177, 180722,
       109787, 120119, 78408, 101511, 130370, 129682, 95296, 178142, 6922, 117588, 89781, 216807, 98675, 157325, 104099,
       82166, 17669, 94608, 47799, 91090, 59315, 13230, 240525, 112902, 60428, 148128, 157063, 121213, 83728, 211170,
       76428, 30928, 157709, 24183, 86996, 261933, 85068, 205282, 35534, 61009, 17287, 50045, 122077, 223076, 229478,
       21094, 187666, 183464, 93324, 210737, 166350, 89338, 261689, 195463, 128914, 199696, 12748, 74044, 42535, 136326,
       114238, 249571, 5689, 3239, 80011, 163330, 16107, 182467, 186061, 45342, 225606, 106456, 81176, 125986, 119831,
       58861, 190815, 144960, 26567, 210379, 1103, 77228, 29516, 30622, 74278, 99380, 94616, 68740, 99589, 192324,
       11869, 97183, 195786, 121507, 22383, 149519, 77628, 22850, 63370, 34601, 242821, 14958, 90101, 72627, 94304,
       41668, 219199, 92144, 66303, 147099, 221584, 44712, 215874, 157058, 115395, 1532, 153401, 130283, 6075, 128951,
       21126, 119450, 73527, 3090, 141612, 30586, 28747, 10390, 30627, 77326, 48844, 240322, 22800, 32444, 183366,
       106362, 232391, 45731, 53565, 70737, 93505, 80023, 195924, 9299, 59718, 194441, 250162, 118400, 261447, 88200,
       4605, 67868, 244150, 95591, 15222, 12373, 85481, 132608, 129129, 85133, 61378, 197689, 54262, 109503, 241133,
       2054, 152973, 76143, 90340, 41919, 102357, 108720, 118175, 230486, 11171, 80562, 143801, 57883, 180752, 144675,
       21311, 165857, 158323, 80076, 219556, 221879, 102970, 210332, 84276, 87386, 147555, 35045, 41688, 201735, 53127,
       18315, 11750, 202952, 104106, 82428, 86585, 42456, 112846, 207980, 2901, 239082, 65542, 74897, 84254, 252996,
       32332, 128032, 246638, 110258, 144865, 46975, 18776, 195598, 189141, 56990, 56855, 225470, 33178, 73937, 29605,
       90387, 121486, 153489, 71897, 11364, 73958, 103676, 89741, 178991, 60111, 70112, 251503, 630, 65729, 216497,
       28206, 61105, 13494, 130961, 136442, 21682, 53129, 99205, 119152, 81295, 119553, 162257, 118611, 51309, 218213,
       2690, 38168, 189377, 86456, 15901, 212905, 37798, 38465, 66750, 36601, 164449, 165151, 29471, 189563, 75888,
       107836, 200235, 124239, 48883, 1359, 209824, 8797, 25926, 208166, 12694, 124509, 131949, 19479, 47643, 169235,
       117824, 62053, 188556, 56025, 226701, 239527, 120068, 109848, 214622, 107148, 175493, 83146, 109822, 249281, 134661,
       37595, 162306, 28668, 35561, 189452, 43836, 73409, 74103, 109423, 54778, 68319, 112998, 66723, 157951, 113747,
       6973, 152343, 238240, 127348, 70660, 182332, 7624, 79162, 148137, 23439, 203383, 176260, 88893, 26002, 99550,
       20381, 235769, 55610, 14007, 171747, 117101, 20135, 86671, 235213, 8116, 2652, 156957, 32940, 222802, 66076,
       35536, 38034, 155167, 65355, 103352, 174673, 57504, 62331, 80334, 62090, 148045, 242768, 80745, 138908, 254366,
       30272, 151182, 218404, 17655, 246381, 106507, 115196, 87487, 151802, 83091, 251464, 65172, 7951, 67964, 36909,
       125966, 252144, 190557, 90841, 229305, 11572, 19884, 60515, 84096, 127026, 101771, 215351, 47894, 175975, 210597,
       129041, 184860, 212937, 13536, 142421, 195015, 20967, 127196, 71681, 86169, 77430, 17750, 2902, 101781, 174902,
       2449, 180526, 118061, 103806, 202843, 51175, 21991, 79597, 229762, 120427, 168272, 117138, 55823, 16192, 37652,
       114511, 94734, 81357, 54757, 28440, 233593, 69498, 80533, 185092, 41486, 37800, 253859, 86255, 102820, 64121,
       41707, 69002, 51460, 29251, 92029, 180526, 10623, 8722, 122703, 7558, 219351, 57148, 40104, 175747, 91402,
       96531, 8993, 201891, 26951, 8738, 203806, 39220, 89219, 83065, 118642, 164670, 160329, 83775, 170732, 6038,
       120549, 223615, 191607, 119436, 57338, 124555, 8311, 95675, 247628, 125174, 257487, 141273, 6707, 261475, 144955,
       121322, 189474, 81086, 71661, 116656, 147393, 69886, 58984, 55109, 93488, 248306, 239534, 115239, 256817, 149383,
       80872, 5536, 100894, 55758, 2525, 186558, 14665, 146791, 32567, 103443, 63476, 36414, 16815, 179475, 160915,
       95206, 59286, 66320, 69196, 46791, 2883, 50572, 75059, 173688, 80345, 92174, 212731, 101234, 67348, 118957,
       123357, 13649, 189447, 34694, 91705, 34591, 124142, 64057, 82805, 125953, 100213, 99973, 106644, 46869, 194785,
       115531, 192254, 222340, 90757, 225202, 33227, 5124, 144391, 197944, 75376, 182193, 33414, 97937, 156362, 185574,
       123430, 239408, 218925, 74770, 69335, 29061, 104097, 123548, 160390, 92410, 218834, 36455, 36805, 103863, 124145,
       20280, 135860, 100905, 98422, 173864, 133616, 30640, 127568, 221250, 32072, 55429, 249252, 84403, 84252, 212842,
       103424, 204922, 129556, 76327, 113266, 513, 115996, 134203, 97615, 27714, 76595, 33490, 33084, 121663, 85926,
       83487, 8346, 237851, 108706, 248170, 59718, 70693, 241001, 255204, 1360, 192302, 137285, 88728, 75977, 148299,
       106637, 229811, 77889, 36247, 33133, 221044, 7103, 228132, 105825, 67889, 438, 252555, 5525, 96742, 27302,
       54528, 38445, 166475, 2335, 110234, 73680, 29486, 219756, 163329, 50963, 193046, 114948, 14641, 134841, 212786,
       14962, 168466, 56016, 108404, 166835, 202181, 5429, 133447, 255627, 90304, 48272, 212047, 106755, 207401, 19971,
       17134, 10590, 248931, 25607, 165914, 169583, 84081, 212343, 165079, 41372, 113462, 157920, 62445, 190000, 28888,
       109576, 143387, 112989, 18085, 191427, 249326, 81219, 24995, 187980, 123521, 250152, 43887, 7532, 69752, 246919,
       7865, 54185, 48879, 72711, 50400, 205935, 125839, 14351, 65659, 28897, 241500, 199980, 43357, 148125, 179314,
       12929, 258819, 261636, 47480, 122942, 89854, 5810, 195774, 182068, 50999, 86107, 17972, 72808, 234261, 165321,
       127795, 218272, 107060, 107267, 196416, 3542, 107749, 198579, 163433, 29903, 87270, 116593, 11434, 7047, 34582,
       79046, 54425, 99831, 68306, 163971, 180334, 67699, 51409, 69514, 14287, 234557, 230410, 64734, 126054, 208462,
       19707, 112101, 33566, 55327, 105913, 66422, 8147, 204625, 246933, 112314, 164309, 40334, 1727, 141629, 36437,
       123118, 252322, 91727, 113100, 250868, 223603, 98645, 221587, 33032, 128784, 228044, 173947, 7054, 77244, 70849,
       84095, 109021, 163730, 111319, 189688, 951, 16595, 250629, 186918, 76647, 164103, 35300, 51632, 34712, 45117,
       57124, 191732, 75185, 119606, 93564, 87783, 70602, 32214, 257836, 12224, 11204, 153192, 122842, 209279, 144856,
       24275, 261763, 97547, 116999, 181615, 163722, 127260, 136512, 147553, 115059, 239067, 217668, 88753, 73013, 170381,
       97458, 216040, 44999, 91732, 261980, 23663, 60361, 223494, 205340, 35968, 194347, 27466, 37355, 230115, 74223,
       95835, 166176, 231159, 82055, 222653, 33045, 76661, 241198, 209796, 85538, 195455, 190531, 101552, 204852, 139721,
       98086, 141653, 76114, 13814, 135711, 250213, 47583, 191374, 88233, 34598, 183645, 170722, 70548, 4701, 147837,
       8049, 243465, 229372, 99937, 180258, 222525, 13962, 196789, 33503, 35573, 54090, 218625, 102595, 129649, 44486,
       6758, 18371, 90537, 86533, 229233, 224894, 121173, 56633, 198157, 80955, 6284, 197920, 93409, 115917, 28504,
       103844, 921, 133253, 29130, 70763, 148478, 76148, 26912, 41910, 40508, 178751, 175786, 32701, 225010, 54115,
       25225, 169669, 152793, 76733, 147222, 109681, 104140, 232961, 107934, 114804, 139308, 237856, 56175, 161777, 166731,
       48876, 161940, 128440, 90086, 180950, 182687, 102283, 64631, 25586, 33203, 18899, 162229, 38966, 133896, 178940,
       69912, 243565, 69672, 58246, 136544, 174112, 92509, 2555, 72320, 66123, 224588, 241641, 14627, 135786, 191552,
       21751, 214210, 66326, 118214, 261089, 121255, 29805, 146400, 227376, 6564, 231780, 260776, 95873, 55538, 217597,
       89654, 185767, 78190, 78653, 42969, 233491, 65831, 188397, 33284, 127084, 219195, 210116, 15706, 172671, 208355,
       66868, 14742, 124808, 73930, 130765, 111162, 2948, 50278, 183086, 54000, 175925, 229372, 102603, 115390, 70265,
       61747, 224407, 167150, 114724, 130277, 252845, 84515, 22439, 180269, 100412, 89348, 80664, 105444, 215031, 121309,
       90374, 45975, 219240, 98222, 215448, 142758, 91135, 194792, 202091, 72150, 100777, 245120, 74256, 159610, 185132,
       24888, 151579, 121908, 108454, 30198, 84643, 40912, 121108, 24318, 70220, 27435, 156433, 32708, 114129, 210091,
       91208, 108669, 142544, 127817, 90413, 166915, 105111, 238665, 67488, 81146, 21758, 122600, 74384, 56725, 133471,
       64195, 78182, 213133, 26866, 4064, 81702, 45614, 97914, 210342, 53266, 231758, 217966, 123806, 146218, 10729,
       55781, 261054, 153123, 76833, 37272, 165966, 120904, 7703, 168460, 67951, 48791, 120539, 32958, 6696, 214805,
       49939, 60923, 83955, 49222, 176706, 127278, 93679, 120754, 47223, 38813, 35751, 248391, 95720, 100784, 258466,
       116554, 215150, 20630, 44049, 199699, 7586, 17739, 112378, 231181, 83696, 156209, 8025, 47297, 240325, 12686,
       69990, 166435, 57361, 83121, 93767, 258588, 53443, 179087, 86764, 121201, 144489, 222339, 52378, 76533, 82896,
       40288, 43993, 1942, 116087, 58347, 256463, 17865, 88996, 4802, 16280, 81976, 11120, 122643, 219012, 192899,
       27389, 238019, 255996, 19455, 258832, 148862, 70145, 152028, 251126, 6132, 172449, 164058, 81266, 158905, 61419,
       59366, 143025, 193890, 83940, 20185, 7122, 37216, 46614, 106263, 118682, 14176, 137167, 35465, 145536, 175596,
       83566, 230283, 243501, 123875, 20721, 77102, 52534, 229386, 228260, 21158, 130525, 208851, 8963, 7309, 75149,
       126224, 182157, 258162, 100099, 230994, 1195, 120448, 231844, 201003, 91597, 116901, 126290, 44885, 107568, 120391,
       16124, 7853, 82187, 121806, 28484, 72566, 64175, 91056, 86346, 51971, 59548, 172335, 75732, 94647, 74372,
       13966, 247301, 11311, 40527, 252448, 24536, 83607, 182743, 23951, 13123, 82529, 121937, 17726, 141270, 52402,
       66923, 202512, 11694, 81717, 202436, 251413, 24510, 180245, 116486, 4336, 122999, 233732, 125615, 17136, 4942,
       3603, 135699, 232151, 268, 253017, 201721, 42380, 234628, 182777, 29157, 100070, 68438, 75181, 29269, 38650,
       117205, 195534, 157981, 63059, 195255, 223424, 101358, 35662, 159710, 119174, 54103, 65061, 24824, 259888, 235698,
       64003, 231857, 104429, 84157, 104592, 40425, 43500, 157223, 175043, 96960, 206750, 193459, 92447, 11647, 171523,
       55193, 175639, 184294, 11528, 71924, 38818, 1516, 90069, 182839, 48411, 101138, 47756, 10756, 243182, 106061,
       102449, 20714, 175511, 43820, 196362, 209414, 87306, 218419, 151679, 45400, 153779, 214052, 104325, 62959, 65754,
       116446, 722, 188053, 109774, 171592, 43476, 63500, 240904, 146871, 11003, 184953, 15513, 48720, 240663, 142136,
       55634, 77630, 208623, 125862, 108451, 226714, 74120, 226174, 190015, 83996, 261472, 115377, 102498, 202734, 18443,
       74475, 113713, 104684, 78444, 150652, 208255, 32155, 158610, 213586, 7715, 200274, 109356, 94553, 128436, 145789,
       111238, 209886, 6118, 54001, 180362, 162163, 71947, 82632, 5834, 40276, 128271, 158906, 59011, 82215, 96557,
       27379, 155766, 73016, 99599, 231659, 204756, 64475, 225928, 22914, 71716, 236910, 175464, 4861, 54681, 164505,
       81579, 543, 226294, 26562, 131751, 89716, 50252, 79384, 18196, 54095, 123795, 172776, 58816, 73142, 231696,
       29810, 142185, 90678, 111425, 169705, 50095, 56079, 45862, 241225, 80233, 180267, 200636, 80470, 5764, 86530,
       79558, 182254, 132061, 73310, 243812, 4939, 107823, 52973, 41515, 106511, 115889, 138824, 54675, 255176, 87592,
       83341, 160752, 24877, 13478, 9106, 135280, 11897, 198308, 68983, 62903, 158100, 58078, 117991, 142024, 242166,
       85196, 199493, 260049, 87715, 140233, 194051, 20666, 145846, 175028, 59415, 136346, 33801, 52532, 123401, 243973,
       102626, 140998, 74254, 18064, 230689, 236203, 70672, 221174, 69418, 119452, 174100, 226029, 116976, 131768, 102379,
       111717, 138844, 70510, 49150, 19644, 88274, 123351, 248964, 223318, 105552, 91297, 40196, 111560, 208403, 81737,
       122205, 124919, 109745, 122814, 165120, 258132, 31465, 208368, 245581, 16736, 74385, 123744, 90554, 94530, 30712,
       73821, 151971, 67714, 42916, 117164, 68594, 89712, 43450, 252943, 8126, 14340, 54543, 6187, 180475, 155266,
       46440, 51614, 48683, 25407, 226656, 170201, 94182, 151698, 22674, 124259, 31021, 177205, 86720, 217151, 78705,
       85823, 235029, 251541, 864, 129761, 21971, 67145, 43840, 107381, 107099, 27325, 95913, 85736, 226630, 51082,
       29855, 234021, 97804, 111211, 91163, 178893, 126402, 206044, 58341, 36568, 39454, 171079, 27144, 70678, 81314,
       44371, 104450, 103501, 8278, 74077, 211983, 114482, 148721, 85962, 121805, 37096, 161051, 83008, 77597, 118880,
       100182, 233987, 52074, 87641, 100032, 67613, 49460, 150350, 120110, 82843, 14805, 177551, 109618, 41271, 39304,
       106156, 48254, 1416, 10624, 97544, 113819, 60634, 8677, 12319, 52077, 188461, 147286, 98567, 76107, 116385,
       65716, 91002, 210580, 45836, 6213, 116607, 92582, 177162, 73883, 62072, 231687, 116929, 33636, 58868, 140140,
       116708, 190547, 85736, 14817, 106837, 158400, 2370, 207596, 68784, 18862, 185302, 14507, 21449, 12719, 224670,
       70522, 70056, 151381, 81902, 97229, 20433, 58800, 93995, 60847, 26761, 34986, 14251, 17326, 137753, 49817,
       64507, 89888, 101517, 74118, 261950, 38158, 39840, 216245, 186061, 28893, 132324, 128862, 10563, 117936, 220539,
       3439, 240490, 171834, 13859, 22403, 130356, 97265, 218294, 93167, 45091, 55709, 43, 3593, 223367, 142524,
       66606, 62524, 162234, 70263, 107165, 246938, 56189, 25092, 204224, 14507, 109455, 97994, 98955, 22738, 29029,
       90319, 79150, 4231, 51737, 245789, 62355, 49914, 60408, 99667, 20438, 190679, 242906, 98769, 57677, 81866,
       78587, 91957, 103449, 11245, 31061, 134762, 49553, 139886, 103177, 118431, 141522, 51701, 59293, 168765, 61906,
       42588, 235192, 140597, 84382, 17389, 235534, 26603, 260961, 40665, 68655, 251398, 175114, 87755, 179923, 228013,
       112050, 163509, 92784, 90767, 242214, 42433, 50385, 94616, 211765, 100637, 27347, 40111, 117755, 19758, 90215,
       62621, 113721, 16483, 589, 242995, 171986, 115463, 180223, 94476, 21684, 213050, 198583, 16557, 193092, 86798,
       40328, 11788, 70509, 49805, 60155, 188555, 104775, 236607, 44319, 51011, 11705, 172933, 6399, 23046, 196698,
       83356, 201672, 144484, 87978, 73920, 40969, 106721, 147989, 142376, 52280, 45855, 101206, 11281, 133195, 143648,
       72490, 256602, 208402, 15859, 96712, 150976, 2238, 25359, 174162, 102050, 129190, 120934, 52875, 218682, 132301,
       68813, 125281, 239108, 86880, 254464, 147904, 52563, 130634, 138321, 6701, 241195, 226103, 33127, 161665, 4423,
       25472, 180520, 130347, 128108, 259285, 254098, 96928, 120290, 6253, 59185, 147160, 103324, 8305, 181243, 89528,
       15184, 199146, 39185, 106548, 97607, 164024, 123921, 236880, 131602, 4109, 34440, 94587, 119327, 149858, 143958,
       49881, 64760, 77915, 28001, 68182, 241163, 13399, 209597, 120871, 101154, 177555, 76702, 61461, 9204, 225197,
       109107, 117950, 156371, 29642, 228173, 192239, 88941, 70706, 117833, 15482, 117466, 205068, 11763, 210153, 57592,
       17484, 258260, 199264, 106024, 81596, 206330, 85933, 102226, 95129, 21753, 57473, 98441, 50432, 226282, 110086,
       100097, 223522, 139919, 37443, 239486, 183321, 120751, 229979, 2724, 119878, 214189, 114643, 72469, 214178, 84377,
       82834, 34447, 98220, 85618, 166727, 152463, 33877, 256296, 221475, 47883, 106184, 207256, 17818, 19197, 232736,
       121224, 193067, 75518, 94876, 103187, 105598, 6076, 2238, 237790, 72009, 81752, 7097, 44967, 94518, 138652,
       106861, 108166, 113290, 45062, 148140, 224112, 84430, 11831, 354, 21723, 240382, 155428, 73237, 52308, 6656,
       38520, 50000, 164619, 21612, 66924, 75555, 81167, 140222, 190709, 83707, 256735, 145193, 128890, 38482, 246531,
       87701, 18206, 104683, 67595, 34881, 149288, 119619, 10261, 150885, 108564, 111009, 96518, 71925, 71357, 162062,
       67023, 143213, 233893, 123465, 205811, 240001, 80888, 19898, 64513, 93556, 121441, 50507, 11361, 51226, 43711,
       94149, 197758, 101777, 34692, 99200, 257398, 15143, 206220, 249105, 111367, 114350, 185353, 90595, 209219, 178774,
       53420, 70656, 166729, 56546, 171216, 23135, 25836, 160978, 216372, 1251, 227561, 98349, 45791, 52728, 19236,
       19452, 253480, 196054, 55276, 150618, 154965, 109291, 31961, 248503, 15041, 21999, 27222, 12026, 86019, 188628,
       118240, 89699, 54708, 97666, 244509, 7022, 6955, 255177, 221594, 10429, 121279, 69568, 89774, 101825, 26605,
       48541, 197987, 235982, 94918, 220775, 261980, 53012, 158275, 9792, 126849, 193116, 101907, 91018, 150523, 175341,
       6110, 5643, 241592, 43319, 138578, 247972, 73872, 259530, 57744, 18595, 173409, 230836, 330, 89331, 51383,
       10395, 19797, 7575, 68716, 68825, 141069, 82870, 246224, 174137, 12177, 8194, 93625, 87183, 103783, 43308,
       80887, 182855, 221027, 123194, 46458, 204416, 110189, 4726, 123048, 123632, 156647, 213791, 126629, 172590, 261311,
       57777, 172078, 168015, 63951, 112411, 174348, 36912, 197821, 24826, 66641, 66026, 254867, 19754, 125022, 88343,
       88005, 209423, 216677, 3267, 250919, 246810, 30884, 52762, 55144, 27272, 97943, 167522, 122930, 261192, 70318,
       18992, 147429, 195715, 116755, 188713, 142705, 16299, 230894, 31440, 85288, 75093, 47485, 41928, 24542, 7936,
       41419, 16370, 247187, 130845, 102140, 133451, 29627, 233165, 188718, 26549, 249882, 8324, 77245, 74510, 46387,
       97091, 235453, 97158, 128778, 218341, 168339, 91935, 185130, 133843, 73645, 147952, 239407, 53625, 186780, 57229,
       78002, 164127, 195659, 78752, 169002, 199391, 28535, 230928, 231893, 87976, 170020, 173831, 26794, 61627, 111077,
       64219, 94008, 1097, 34061, 161679, 205379, 40999, 119480, 156449, 80462, 23269, 50093, 8452, 50583, 5578,
       1577, 112017, 222207, 17120, 164073, 178965, 22112, 199499, 129931, 25935, 158772, 38694, 101440, 181727, 114233,
       58570, 148755, 20415, 61595, 122928, 146439, 84454, 43881, 73604, 95565, 195164, 125868, 459, 221876, 199112,
       112292, 184343, 131745, 129556, 34682, 39951, 15965, 142542, 259538, 85338, 113838, 245352, 316, 98465, 184067,
       6426, 102973, 72384, 37355, 171364, 201844, 110939, 229678, 69524, 85524, 156802, 74662, 58434, 168085, 143413,
       57487, 256673, 152665, 61086, 150496, 64138, 40767, 191759, 217168, 115043, 208995, 106954, 74431, 194711, 75629,
       63432, 75921, 249416, 60958, 136453, 145818, 122660, 169520, 121404, 94851, 213976, 133867, 18981, 34947, 246495,
       57274, 145257, 228350, 37797, 136934, 116619, 129350, 222483, 49212, 54446, 195564, 29218, 8895, 228103, 29498,
       53898, 99472, 11427, 42120, 6286, 27085, 78588, 130211, 157673, 29632, 135943, 153177, 4715, 36231, 213080,
       12567, 60957, 22333, 37112, 188967, 243964, 45655, 90167, 34300, 109373, 26524, 255152, 35398, 150371, 226150,
       4127, 224789, 221873, 102332, 78409, 258839, 113890, 200211, 161234, 64527, 147626, 4360, 37345, 257422, 186410,
       101205, 240744, 96379, 1166, 87021, 127207, 121114, 59780, 208043, 113446, 252643, 54815, 71412, 99220, 64427,
       36383, 31840, 120319, 4305, 11657, 257739, 131048, 235558, 229841, 99886, 138156, 193167, 44395, 99835, 111698,
       2526, 4159, 90218, 83793, 64338, 193618, 129355, 126311, 251507, 92677, 113787, 202255, 10972, 161208, 23689,
       52727, 112930, 259083, 14310, 234573, 113030, 119558, 185481, 235837, 43308, 22422, 244269, 96125, 33673, 98916,
       11100, 140143, 127181, 16831, 149686, 36074, 89061, 211508, 90578, 110556, 158280, 99165, 26404, 117617, 206509,
       54832, 78514, 12781, 81188, 60181, 21446, 104369, 139549, 160372, 82338, 258504, 77734, 12507, 174658, 210886,
       71148, 108790, 171079, 115947, 43766, 31368, 113773, 158639, 157788, 76679, 43447, 136195, 130507, 234150, 171981,
       13778, 203565, 103997, 62730, 118144, 30578, 101597, 1483, 3185, 18486, 38854, 83255, 127500, 67302, 22358,
       46405, 154342, 158422, 45893, 135746, 246486, 27943, 210616, 199347, 37751, 6566, 194779, 75705, 191970, 202512,
       56276, 85294, 254134, 25346, 121789, 101423, 106055, 154732, 97785, 8157, 217700, 259074, 109399, 158473, 42596,
       36036, 201462, 35092, 64999, 10924, 261291, 49946, 233623, 57615, 74789, 251712, 78236, 104332, 168, 147330,
       129672, 32498, 19481, 40115, 205609, 210151, 72588, 66043, 224134, 61080, 141933, 110601, 130931, 134138, 111844,
       106025, 243106, 70803, 52046, 150866, 254630, 62505, 128863, 224829, 32238, 5962, 100148, 98991, 203605, 184266,
       110783, 157093, 134527, 126482, 197380, 65773, 74164, 85239, 187059, 87907, 199876, 194820, 58465, 215792, 235504,
       79839, 181431, 181147, 45711, 61051, 37910, 96690, 101680, 149482, 2975, 100228, 46744, 3729, 234934, 50871,
       93863, 104154, 175838, 121986, 119634, 256261, 82870, 34690, 179066, 95227, 135582, 187459, 107994, 187542, 178195,
       47405, 96781, 106805, 14170, 176507, 196298, 122302, 71375, 29363, 123020, 84173, 102179, 57912, 242561, 217160,
       28464, 225779, 210562, 116962, 176595, 134991, 92854, 236988, 198099, 1078, 132739, 260518, 14119, 9623, 55874,
       128869, 247353, 38851, 4997, 140680, 77640, 37035, 13190, 173430, 71892, 134451, 237814, 24163, 225267, 129490,
       30415, 207934, 172110, 46264, 40474, 178507, 35331, 4471, 145321, 105297, 133039, 166415, 65571, 255793, 251364,
       36519, 78638, 215022, 41038, 32322, 245472, 5225, 47181, 129932, 6473, 240703, 7133, 94097, 152184, 130772,
       14799, 117764, 177040, 62363, 166422, 105977, 110410, 144058, 188037, 48293, 245865, 146544, 45318, 114268, 63229,
       114432, 48130, 176649, 113357, 175948, 90118, 115361, 76242, 58644, 74961, 237655, 35132, 124820, 111606, 184948,
       107343, 63587, 217445, 54478, 9334, 214171, 82517, 13517, 75713, 15963, 36347, 171500, 72264, 55647, 33759,
       34491, 124958, 184456, 37165, 26757, 236629, 16478, 36759, 128655, 46949, 232949, 162753, 63096, 207977, 252749,
       78689, 172311, 64870, 39959, 218534, 167586, 103841, 146949, 106090, 68283, 69228, 237785, 83630, 200808, 227944,
       36456, 219969, 61259, 106710, 109558, 226261, 81824, 236135, 71448, 113029, 203237, 11802, 20965, 45443, 227619,
       49894, 77522, 15010, 14813, 67443, 146060, 28249, 156157, 218502, 51714, 34211, 222151, 117254, 167719, 241810,
       73012, 113921, 169421, 43303, 91373, 209320, 97897, 148655, 215223, 2579, 223259, 55158, 48508, 190398, 87204,
       78752, 55610, 39332, 76446, 20943, 42724, 79633, 216732, 36753, 27721, 217119, 172216, 44181, 167442, 42723,
       122102, 38519, 85513, 127660, 241391, 221439, 40899, 128656, 143122, 84476, 102082, 86997, 31627, 65912, 48540,
       48303, 206946, 85100, 103852, 234194, 127171, 65690, 130678, 164352, 111357, 119332, 61586, 82410, 63302, 72678,
       82433, 251023, 187211, 4440, 189543, 15662, 98260, 207965, 208819, 128170, 241579, 53383, 62000, 209570, 235411,
       20785, 104784, 102415, 128054, 109404, 3463, 38027, 99264, 138676, 53634, 103403, 222723, 10140, 149586, 261875,
       14527, 159818, 188916, 28385, 182339, 238992, 71888, 142628, 59183, 73110, 143200, 145909, 79461, 154756, 25576,
       76522, 14729, 152807, 64911, 183984, 236916, 105132, 176909, 118821, 122408, 26511, 188910, 35358, 41281, 72659,
       17064, 195645, 56522, 55717, 10954, 44522, 3463, 61223, 76067, 115778, 97364, 65441, 31418, 204195, 61713,
       71997, 106916, 150885, 15085, 191500, 81398, 72516, 143122, 150750, 5110, 248999, 202635, 100769, 8180, 1749,
       125229, 511, 161689, 40235, 253436, 183531, 33844, 184922, 1188, 58719, 156477, 236827, 81261, 49177, 66646,
       24767, 180307, 107916, 105291, 48710, 229253, 26022, 93075, 172970, 717, 135518, 107239, 68714, 150075, 71213,
       15092, 236700, 212729, 91519, 143186, 184896, 21950, 164442, 139429, 107135, 179097, 52632, 61652, 24094, 69193,
       74223, 46534, 54469, 24456, 23799, 39638, 19226, 183421, 170814, 82744, 200847, 84904, 33483, 192354, 122838,
       50584, 9460, 241138, 62842, 94242, 8859, 30098, 140496, 68575, 104257, 207014, 133434, 123132, 61898, 163327,
       56609, 26355, 83270, 120264, 236415, 3929, 115695, 585, 213011, 21764, 37319, 145484, 22725, 135896, 55063,
       62574, 114351, 178609, 68925, 39897, 90285, 44712, 145594, 252652, 41015, 46837, 29646, 56540, 45458, 24731,
       90502, 131169, 105170, 11061, 168366, 55900, 93137, 106001, 181737, 121404, 42879, 154146, 100074, 92101, 259661,
       25123, 122923, 66780, 11466, 87654, 132177, 64275, 36953, 176526, 125358, 15445, 197151, 107355, 193702, 146907,
       73758, 163455, 94108, 18740, 225740, 29548, 93564, 3854, 212191, 106561, 79988, 52628, 122561, 100099, 153006,
       80231, 78392, 141587, 67432, 16582, 130081, 81157, 112411, 39069, 123633, 260123, 7417, 82329, 228966, 201388,
       33763, 20678, 235157, 83381, 167075, 87518, 115309, 230856, 33908, 74318, 23564, 179410, 65889, 194192, 82255,
       96124, 45684, 11251, 86637, 28901, 99997, 7430, 41148, 198931, 95067, 257388, 165493, 53418, 83597, 205881,
       123325, 109932, 198528, 127245, 23408, 244742, 58817, 24738, 85218, 126981, 230199, 113483, 40739, 227157, 77349,
       89475, 149319, 121814, 9837, 149709, 1419, 19004, 11505, 36054, 113315, 36458, 15978, 117150, 16147, 193435,
       69810, 108567, 248788, 44534, 205158, 77272, 59116, 159589, 30415, 113983, 110373, 109061, 27655, 86478, 163471,
       38649, 60544, 9043, 102949, 151067, 240995, 122587, 166937, 71401, 12180, 45170, 43753, 105352, 11293, 238586,
       84550, 103055, 174642, 30247, 180322, 147849, 99066, 123627, 114460, 95409, 108651, 63173, 18616, 34461, 77102,
       65831, 13263, 185247, 99390, 191053, 140585, 25106, 18819, 11391, 60655, 175134, 251825, 15825, 204654, 206822,
       40217, 122464, 55118, 28566, 124269, 161586, 66200, 178971, 130291, 18509, 98661, 259673, 50220, 88030, 206650,
       36066, 39919, 232286, 97786, 32317, 231263, 91707, 30540, 243356, 12442, 192514, 117037, 124975, 10525, 154329,
       97607, 20824, 91915, 80734, 245935, 101669, 62613, 76106, 210838, 23320, 169747, 79087, 126093, 93883, 26776,
       1030, 3447, 128957, 90764, 232580, 239726, 66511, 194643, 121220, 118303, 55964, 246235, 49898, 197604, 10357,
       67979, 199565, 199797, 97299, 238230, 105948, 6234, 168287, 165676, 7140, 46869, 40234, 27744, 97133, 185233,
       19192, 42732, 185509, 844, 146350, 35403, 81656, 136829, 130092, 104325, 47518, 248019, 125450, 255374, 258322,
       57789, 179945, 150785, 36663, 143161, 79962, 113233, 110563, 132041, 110676, 162992, 65154, 81899, 117792, 184309,
       35802, 50015, 54420, 119081, 57199, 181539, 23383, 110101, 60557, 5720, 218765, 229375, 104414, 92226, 104115,
       73879, 241269, 73583, 32305, 7792, 85091, 87935, 166789, 143808, 100495, 17880, 164903, 110696, 85703, 229341,
       36978, 215263, 128020, 3353, 209298, 136560, 66851, 211869, 169371, 112207, 244846, 53617, 27239, 146359, 159406,
       55197, 198708, 118803, 33609, 151673, 169611, 1751, 123062, 217139, 117771, 91847, 35914, 17701, 182591, 124555,
       100501, 183342, 124903, 45429, 256585, 226680, 36396, 84715, 146755, 123342, 141089, 14373, 86140, 118259, 260141,
       90036, 85758, 176167, 99569, 59592, 147257, 44686, 213442, 175157, 73880, 165364, 10840, 35418, 187210, 98839,
       109385, 6689, 5097, 78552, 109266, 187091, 31903, 214827, 198729, 117933, 35083, 163823, 76131, 225586, 77107,
       64884, 167280, 27285, 4520, 93566, 195606, 119249, 149008, 113, 124816, 117105, 133419, 73740, 243098, 184220,
       58001, 28910, 142202, 47128, 239162, 50806, 35133, 153398, 2207, 75304, 185955, 181618, 16789, 176891, 213793,
       120477, 242006, 19279, 23063, 69131, 60337, 97715, 239683, 261463, 40224, 103310, 242537, 29631, 154217, 160220,
       73121, 7622, 52717, 100286, 120987, 120986, 95254, 217231, 57945, 30638, 239186, 179949, 43319, 158349, 71456,
       113879, 149917, 154985, 94797, 1069, 229747, 93414, 56508, 100188, 35245, 242788, 154886, 103809, 154302, 5919,
       46978, 140845, 129475, 52611, 15272, 18171, 37691, 54278, 231240, 15910, 226088, 182253, 55101, 216292, 33279,
       2220, 77174, 35866, 59757, 17538, 3377, 95028, 11496, 89108, 125926, 202620, 37474, 10303, 257447, 150646,
       36869, 87864, 215088, 64766, 195348, 231401, 22333, 23386, 120075, 15312, 248524, 121095, 59286, 62578, 102328,
       76117, 134187, 12187, 107506, 70027, 142893, 130784, 23619, 142378, 101485, 57586, 90953, 29011, 140435, 214338,
       98038, 257275, 167347, 70405, 209675, 6981, 59088, 134402, 251462, 122647, 211066, 35774, 92024, 178140, 176126,
       89350, 229254, 65058, 1540, 230112, 79634, 113386, 170529, 111388, 103979, 125875, 7283, 39182, 238504, 243427,
       38287, 233099, 133886, 7009, 138599, 185290, 6665, 223653, 170261, 87634, 5260, 215908, 24410, 140613, 207660,
       121051, 69146, 204878, 110415, 165986, 257440, 45729, 19843, 48141, 49816, 90498, 47169, 42896, 207980, 248799,
       12110, 101203, 210481, 4119, 160857, 190443, 59261, 261444, 14782, 123606, 40340, 119672, 120225, 184281, 149732,
       106147, 48097, 52577, 82391, 50942, 103176, 112226, 205334, 193325, 67511, 15926, 222852, 23613, 248762, 244576,
       89675, 150949, 47598, 120670, 240418, 70680, 2569, 178081, 141719, 32957, 72040, 14217, 34791, 134900, 250617,
       12981, 81370, 246981, 29555, 256530, 196614, 50329, 78359, 9789, 123186, 28522, 200944, 112756, 197890, 37491,
       123994, 243224, 42742, 15803, 153070, 195163, 3676, 96458, 226112, 14402, 158892, 55967, 119838, 146132, 141749,
       20642, 91968, 3681, 75056, 167353, 195334, 29829, 177309, 153404, 2704, 190425, 66516, 11091, 128072, 96464,
       93034, 135107, 134019, 23903, 35546, 73075, 30033, 192396, 143067, 49447, 200297, 243537, 86145, 253170, 224148,
       61521, 151595, 67166, 123811, 249097, 74946, 56909, 33581, 225419, 26100, 127918, 252763, 70273, 82377, 254321,
       59099, 951, 133131, 103171, 208747, 127359, 122568, 55031, 183193, 109614, 232817, 194325, 50992, 56315, 56115,
       28326, 202475, 9912, 119863, 234344, 60025, 50585, 231209, 57202, 100952, 136982, 261718, 129699, 85896, 15096,
       75686, 148675, 99939, 62898, 234029, 17880, 91733, 121425, 121110, 25418, 241569, 109066, 63994, 146549, 257498,
       40937, 214170, 154704, 21525, 177069, 39348, 79971, 214369, 120047, 75458, 248521, 54361, 99772, 125363, 244701,
       114421, 246448, 3572, 28885, 31782, 70197, 102197, 48761, 105988, 48153, 237971, 198250, 82418, 211769, 250313,
       111442, 173250, 50639, 33578, 182302, 261267, 78769, 51750, 95294, 62956, 93289, 212268, 103622, 143394, 169939,
       91388, 212738, 257124, 100877, 48233, 83596, 37741, 73894, 7693, 92321, 101758, 198024, 79404, 49165, 93848,
       59858, 5435, 133988, 49590, 69254, 61144, 43463, 125628, 249495, 1268, 9931, 63633, 22224, 99204, 251220,
       7730, 102821, 107119, 111195, 241127, 72048, 112733, 149008, 181109, 110912, 66329, 101757, 107206, 99445, 55622,
       29010, 59036, 24135, 64459, 104193, 48850, 118992, 235635, 223444, 99586, 31276, 59451, 238, 154277, 38479,
       60217, 251716, 141638, 1398, 147942, 234923, 36786, 210960, 90425, 57116, 66767, 41090, 117034, 25188, 114256,
       85771, 119771, 113537, 47511, 151248, 176000, 64311, 31293, 67876, 107136, 229388, 247817, 39276, 120242, 14019,
       80613, 219700, 85198, 34373, 58606, 55002, 62909, 201233, 55322, 3232, 10322, 246125, 111709, 112899, 62428,
       6337, 46673, 41161, 29407, 99466, 147383, 43714, 18087, 169034, 81941, 30905, 253508, 94376, 59349, 95223,
       10544, 230428, 94565, 5697, 28355, 10327, 104725, 53063, 68788, 93345, 24099, 102546, 108992, 253764, 2022,
       88675, 58587, 169404, 98436, 178336, 160503, 49681, 83608, 243705, 77356, 167573, 174863, 105564, 100968, 159554,
       22559, 206954, 197438, 55420, 65829, 254557, 97057, 124501, 39040, 69813, 194179, 21031, 89346, 53915, 36839,
       38386, 249362, 89001, 4239, 49749, 119386, 3820, 51286, 233758, 123572, 56195, 224911, 123802, 197301, 201545,
       27693, 52130, 162413, 19328, 162194, 38433, 2377, 163658, 158119, 30311, 78294, 209309, 43824, 29385, 9148,
       31620, 40495, 1277, 104514, 192423, 187087, 98229, 92904, 27151, 10618, 179823, 134723, 91399, 88556, 194231,
       68234, 34821, 163244, 17323, 72324, 41271, 96932, 101697, 158630, 11278, 43075, 29437, 23219, 128992, 170939,
       19559, 108367, 194999, 123080, 258565, 255012, 91508, 184458, 42022, 53908, 18168, 141803, 107767, 247060, 65128,
       28306, 60745, 76748, 122040, 67704, 50544, 91356, 218324, 158048, 73345, 92740, 219455, 104156, 42327, 257798,
       84512, 192098, 112908, 116275, 48993, 48846, 108678, 182835, 75598, 25930, 10474, 107601, 31413, 56010, 258221,
       8532, 117497, 200422, 28861, 239198, 255432, 45021, 202507, 156132, 3778, 120349, 148970, 41282, 202075, 135215,
       101128, 14825, 60924, 110143, 109819, 41338, 1163, 10450, 113052, 936, 203581, 9678, 19176, 200616, 231487,
       114370, 110232, 191748, 61509, 55762, 197290, 128830, 246658, 129979, 116304, 81233, 115669, 116670, 228612, 245122,
       16839, 173771, 138072, 62289, 68487, 194922, 130231, 237704, 197124, 19535, 137717, 2085, 75265, 243068, 124316,
       45125, 122448, 221548, 50837, 89686, 261755, 116757, 250371, 1888, 77057, 148255, 84374, 99454, 88843, 56372,
       88242, 46910, 71984, 69339, 37904, 144440, 103771, 44628, 200740, 127235, 236832, 75800, 126722, 254954, 258808,
       103475, 13808, 59318, 63875, 74906, 127101, 21385, 149710, 53704, 5828, 219821, 95968, 30335, 250319, 168788,
       44598, 77731, 207262, 17019, 170094, 33968, 29460, 115679, 178557, 10950, 123504, 38009, 68639, 101733, 112826,
       16556, 203935, 220747, 97356, 44528, 28977, 43601, 18801, 53458, 88088, 158355, 48722, 115673, 153982, 9745,
       11274, 94440, 233733, 129630, 81581, 64676, 84573, 87915, 108758, 6994, 204443, 96227, 41156, 236071, 249339,
       116161, 242263, 140937, 78149, 139196, 121213, 37646, 212367, 255039, 123272, 132688, 118971, 103186, 201564, 196152,
       96408, 131535, 79792, 116447, 241034, 122171, 100896, 156477, 31862, 37583, 96843, 257977, 76531, 30327, 203994,
       110400, 34755, 75082, 23704, 32255, 90374, 21367, 206383, 145406, 20837, 87745, 68637, 25461, 112030, 2148,
       13530, 175495, 258319, 109789, 186359, 108266, 107258, 158802, 163816, 19840, 61997, 80328, 92476, 44256, 174292,
       82178, 246545, 153187, 36201, 87761, 47877, 29801, 166550, 221358, 32844, 206889, 258210, 95765, 56378, 53664,
       41853, 138023, 234669, 36432, 177847, 234531, 2946, 168485, 186556, 119044, 97966, 112969, 98658, 114720, 211412,
       61968, 184013, 99679, 123591, 83179, 102141, 38473, 223887, 48202, 88434, 246263, 89945, 39996, 175715, 245722,
       41231, 166974, 162064, 110717, 188717, 101703, 103156, 141946, 161118, 38549, 65313, 123524, 10667, 232416, 53058,
       46869, 70344, 235922, 99622, 68495, 236535, 13178, 144312, 182064, 88093, 158476, 209064, 116623, 13108, 26359,
       23491, 173471, 7928, 113010, 221562, 60868, 6732, 96154, 205385, 87409, 86294, 203443, 103683, 13991, 5288,
       58296, 100813, 190254, 26703, 33419, 221890, 121206, 37979, 130075, 2617, 94252, 186083, 72754, 77635, 244027,
       48870, 30853, 201434, 60431, 180545, 108151, 70328, 171719, 40385, 70090, 149793, 190238, 26689, 94596, 53637,
       89089, 247166, 253583, 2509, 210979, 145862, 2776, 168190, 187910, 62716, 76754, 189440, 71028, 77154, 249642,
       36030, 82351, 88099, 72309, 56503, 116598, 67647, 123046, 181936, 45773, 9582, 187666, 85429, 106210, 154271,
       125558, 195781, 135568, 64330, 128650, 198471, 103029, 64256, 171985, 32452, 256057, 48183, 99870, 101762, 67994,
       85053, 105190, 32987, 83846, 122528, 242997, 117051, 243306, 255000, 30585, 179468, 69590, 48293, 129432, 236909,
       10887, 214361, 207764, 95173, 261513, 148994, 110607, 97732, 54807, 53193, 107213, 198582, 46770, 1245, 66906,
       86330, 213922, 217038, 9907, 207847, 219724, 38514, 116656, 209917, 48000, 63944, 178784, 67972, 174511, 126733,
       62464, 230879, 51678, 27352, 42041, 15678, 70882, 38850, 139222, 121355, 120861, 260066, 3550, 121623, 144302,
       89169, 37501, 224237, 81881, 225868, 225630, 121166, 128400, 57593, 84586, 170925, 131041, 81899, 100666, 26,
       100899, 253619, 47466, 35101, 225790, 219552, 78083, 214722, 143755, 68081, 147756, 128278, 57471, 122786, 59252,
       10418, 142082, 112224, 38355, 117880, 64972, 36697, 200072, 138000, 94929, 5624, 243440, 120672, 63164, 189943,
       30249, 194740, 190270, 9781, 28552, 77484, 131066, 93827, 97795, 90597, 174333, 255116, 116191, 132869, 116551,
       18858, 147533, 162715, 104958, 70434, 65184, 106603, 254288, 165888, 19855, 250742, 180000, 21155, 149079, 140164,
       38725, 100086, 118622, 28414, 200366, 60429, 127848, 243130, 99484, 47571, 202942, 7027, 99785, 250086, 52981,
       105519, 162244, 160645, 50586, 11524, 38910, 89467, 223810, 240467, 14129, 152061, 55239, 52030, 159910, 247429,
       126787, 89873, 114855, 22089, 170359, 120423, 50555, 249595, 24542, 103615, 61694, 43663, 87218, 93550, 185174,
       82774, 106468, 162940, 111838, 42391, 144187, 3813, 101762, 108504, 101078, 14697, 119872, 115677, 122596, 101001,
       2120, 5535, 2209, 73264, 102741, 118540, 45690, 49789, 245027, 6653, 149361, 179384, 54755, 21363, 129880,
       84414, 83535, 202403, 120456, 250274, 9716, 81334, 45069, 97719, 112295, 7650, 224868, 15934, 162666, 89554,
       27593, 112845, 5450, 127178, 59322, 196582, 116313, 100472, 208147, 30831, 174898, 228040, 81392, 75663, 242795,
       47531, 242, 185204, 61420, 37679, 146210, 112837, 5441, 141344, 96431, 84734, 54892, 31253, 37604, 130592,
       41417, 221324, 179506, 37972, 243633, 223803, 102323, 8305, 111137, 64236, 227943, 117368, 124613, 88177, 119540,
       107044, 215402, 23760, 27681, 177324, 246961, 103015, 24660, 156472, 66332, 218155, 188418, 33254, 76980, 231025,
       47622, 162056, 3189, 127418, 134840, 224, 63433, 208195, 102337, 94320, 46640, 184742, 62532, 137313, 3383,
       48700, 197918, 20968, 104388, 95586, 112549, 111191, 149274, 50950, 9422, 172155, 202667, 36566, 39469, 26071,
       66567, 176673, 73171, 41483, 260244, 66077, 102705, 207520, 16445, 15038, 86785, 108131, 104569, 4451, 64335,
       80987, 159507, 250808, 37928, 1469, 24374, 45148, 95662, 123173, 23972, 251148, 191537, 33105, 78832, 251697,
       94013, 226805, 196568, 49267, 232277, 177192, 90109, 241441, 114512, 67385, 27165, 71269, 19044, 122327, 58839,
       65414, 49269, 143051, 99152, 4098, 113812, 39016, 242156, 233343, 84945, 94359, 194184, 26087, 159408, 194413,
       17786, 87506, 217529, 47215, 146641, 145790, 51013, 181779, 106442, 99747, 14226, 246946, 60303, 115890, 62554,
       10647, 162581, 240866, 83099, 152632, 245008, 61505, 252517, 86114, 43469, 36066, 249145, 105148, 111065, 199793,
       20235, 137160, 57243, 119696, 148989, 133913, 43786, 28222, 31484, 60416, 135543, 199384, 121796, 111986, 94657,
       99777, 59565, 211806, 9738, 253913, 167573, 75798, 137853, 228271, 40679, 231293, 218140, 66648, 149915, 191197,
       97382, 114878, 19263, 65034, 98611, 139723, 9308, 256758, 61877, 69465, 158999, 148292, 3162, 189701, 239499,
       45666, 186459, 222979, 62656, 109235, 148725, 84498, 171258, 101499, 66349, 140526, 206222, 19915, 254896, 66266,
       122187, 162671, 198103, 85236, 20632, 137693, 41545, 157687, 255922, 126607, 169795, 253826, 115681, 55674, 115307,
       18807, 139697, 100357, 85908, 105474, 166858, 73409, 110945, 158052, 25271, 223121, 101062, 30602, 14054, 166482,
       73894, 250621, 249404, 42111, 235406, 109850, 109423, 6641, 213006, 12810, 229913, 107995, 119803, 220595, 137712,
       110172, 236902, 142060, 96812, 224704, 65327, 34415, 56286, 35973, 93710, 250637, 197503, 57510, 113391, 126150,
       83067, 239889, 117436, 40967, 34752, 228060, 109557, 146961, 178745, 5318, 102364, 154831, 90631, 3124, 124585,
       108610, 92783, 31982, 84728, 164078, 196857, 25164, 195786, 201650, 37353, 201, 41540, 67489, 174787, 108133,
       43181, 143761, 203262, 644, 106227, 148397, 5331, 199636, 235600, 100632, 247408, 187106, 10971, 175038, 24725,
       121637, 178431, 135138, 58030, 92126, 255883, 99377, 10240, 82073, 16450, 36284, 235631, 121439, 47333, 224842,
       4431, 102483, 237153, 5523, 506, 62368, 7154, 174950, 192056, 13553, 239723, 215297, 63809, 261417, 48039,
       103320, 254232, 190896, 37348, 178825, 96599, 97750, 120474, 81404, 101457, 188765, 242616, 119049, 190363, 76548,
       19575, 224101, 9368, 17764, 204254, 66940, 16003, 63732, 46851, 47095, 146839, 248098, 64148, 77783, 163123,
       60504, 16090, 146230, 33691, 233654, 189595, 81524, 29745, 39972, 44338, 52775, 174102, 47983, 60139, 101703,
       13832, 9539, 224315, 77624, 247871, 15911, 85888, 238378, 138662, 99346, 13447, 7401, 118490, 77485, 81620,
       100401, 192941, 25516, 30899, 103234, 217446, 30887, 207896, 69485, 119942, 80975, 108430, 103564, 101504, 230504,
       102530, 158364, 205688, 94334, 80965, 71747, 35022, 183342, 232928, 111071, 201431, 116229, 18728, 47323, 164898,
       45877, 133191, 175324, 45413, 29071, 101944, 73417, 167792, 156126, 60744, 124196, 90073, 60267, 254704, 207113,
       72557, 221698, 132233, 54449, 190768, 5125, 32765, 210264, 121797, 87047, 165339, 66605, 103629, 235465, 234707,
       62782, 248468, 118048, 85129, 15793, 242578, 70171, 35671, 71662, 7732, 204784, 204114, 55454, 144902, 224800,
       1291, 101401, 219608, 86753, 220396, 246882, 66605, 194033, 244637, 16624, 16509, 153662, 71066, 33683, 150460,
       117758, 129255, 13026, 44628, 211162, 125617, 128761, 10204, 172931, 125747, 221023, 46429, 102932, 34516, 162593,
       106666, 102417, 194907, 53811, 380, 173776, 52761, 227132, 203469, 125094, 201993, 43052, 47998, 19614, 1567,
       12697, 84755, 131610, 20014, 219422, 199429, 93113, 108308, 242940, 50198, 20217, 160477, 26128, 69386, 11823,
       106664, 150853, 15113, 64051, 107942, 238973, 74401, 227538, 206072, 20178, 117915, 183527, 25264, 177913, 258067,
       16496, 53078, 118830, 67442, 40312, 218472, 101666, 240082, 66366, 95982, 23982, 134881, 34240, 12086, 210021,
       111614, 101247, 172737, 13849, 46841, 221665, 14948, 198620, 244824, 111320, 2865, 26652, 32036, 146990, 6603,
       92814, 41940, 18087, 1190, 21042, 240384, 12268, 126323, 239621, 79860, 180782, 71882, 23909, 163587, 197576,
       3698, 6368, 27088, 61203, 169159, 111447, 43321, 257656, 123374, 105153, 110120, 223405, 107325, 145102, 116112,
       80533, 174939, 261625, 38408, 136105, 120320, 60506, 86097, 19340, 92046, 26734, 174456, 9084, 107657, 21178,
       43581, 15299, 19966, 107789, 168149, 2505, 53218, 255089, 143646, 81876, 127291, 172562, 12626, 193575, 87615,
       101848, 254295, 60674, 13168, 55757, 67258, 112921, 219718, 36529, 13972, 108044, 43282, 116771, 25232, 119191,
       47680, 11784, 158620, 81858, 128994, 141776, 110959, 19373, 152956, 1342, 95297, 197240, 34824, 244856, 22917,
       119057, 188861, 62785, 50879, 3306, 108805, 92586, 27615, 225486, 18351, 173073, 209733, 88915, 136980, 202420,
       9589, 93849, 4526, 94021, 63103, 26999, 42441, 200010, 260018, 61059, 153081, 236011, 21792, 14271, 11631,
       82293, 111791, 249893, 44245, 174126, 110205, 50249, 191048, 179911, 85484, 60570, 231940, 23443, 198091, 176342,
       111674, 133614, 92130, 96899, 196018, 162026, 75724, 59499, 44849, 16820, 228528, 240106, 90060, 220689, 185830,
       2372, 84121, 162843, 105433, 200933, 6282, 39819, 97443, 15285, 15363, 39937, 243875, 21559, 234929, 208901,
       126239, 249529, 254200, 101427, 131210, 145401, 31178, 93136, 240801, 126283, 117299, 206193, 18365, 131944, 183130,
       96144, 230350, 194516, 86080, 46234, 142760, 107672, 158206, 146146, 50030, 3857, 191802, 52669, 98878, 142514,
       81863, 65074, 255876, 52193, 163833, 250717, 5419, 247518, 139261, 95644, 76322, 20873, 84010, 21594, 150418,
       55536, 232205, 121866, 39692, 124833, 245690, 42038, 46420, 206004, 97128, 27201, 245485, 95572, 150661, 240648,
       107337, 72139, 173330, 99900, 134503, 105619, 99345, 68801, 237742, 33000, 110450, 55013, 13318, 146998, 240554,
       99844, 103026, 59948, 12926, 16009, 194498, 128727, 80246, 43075, 114699, 183622, 59511, 69921, 230447, 101229,
       46161, 105970, 110038, 69054, 97100, 41020, 96246, 107444, 150633, 99133, 179031, 57085, 9655, 144120, 59929,
       105493, 219132, 261977, 84082, 80083, 58894, 5318, 223124, 224716, 41046, 174474, 201650, 66930, 205908, 56130,
       24700, 187167, 62734, 20347, 179988, 62823, 1871, 225655, 40517, 119478, 200442, 149399, 7354, 47679, 52624,
       47973, 222569, 53429, 26970, 235940, 53318, 97128, 181081, 228678, 92692, 28160, 243588, 105673, 48229, 113137,
       80846, 78029, 259052, 77549, 42737, 171376, 53360, 213830, 110950, 83408, 211691, 246752, 15100, 59357, 259530,
       89720, 122728, 31799, 13618, 22785, 51778, 112949, 254936, 75559, 66280, 224585, 108466, 69514, 246465, 132897,
       76658, 119442, 80668, 101718, 197432, 195590, 62714, 26533, 246990, 56044, 216003, 209479, 37792, 116089, 120051,
       16782, 97983, 121905, 24948, 151399, 176368, 69, 48634, 247569, 113956, 218685, 102492, 100264, 164295, 34290,
       28663, 37567, 235438, 313, 71815, 140871, 64502, 175193, 179986, 54076, 208242, 30026, 101712, 193953, 39002,
       52808, 83847, 201721, 113260, 260546, 250159, 12561, 185692, 87698, 47953, 196891, 119204, 122413, 131457, 113347,
       1537, 111426, 80480, 51221, 144541, 225273, 34039, 216453, 53127, 69712, 12743, 94275, 36538, 136851, 67677,
       114020, 153966, 71943, 122832, 153374, 179079, 111297, 191518, 198230, 52241, 22179, 243756, 129752, 156897, 123953,
       96342, 178282, 48663, 46610, 98183, 231222, 12280, 132503, 91856, 87431, 28282, 49333, 95494, 207631, 65086,
       16050, 252566, 214870, 72055, 11299, 25749, 129379, 156302, 74927, 42761, 53702, 130176, 39569, 258049, 103466,
       118397, 162926, 52936, 15389, 250558, 235068, 122359, 83079, 80024, 102168, 243260, 62532, 51228, 61362, 151324,
       10950, 197576, 149140, 2513, 64348, 211408, 49260, 248140, 35275, 92452, 27531, 145585, 63901, 112477, 143733,
       96816, 152277, 262105, 87893, 16327, 114512, 75092, 23887, 221066, 126812, 10356, 258608, 95470, 210915, 185834,
       119880, 56101, 190950, 31740, 123073, 21866, 93538, 45393, 26686, 78355, 56862, 153646, 121149, 88605, 248142,
       66906, 25670, 191249, 36653, 40588, 80838, 50441, 160488, 110052, 28682, 120653, 148552, 28832, 78899, 608,
       61659, 25722, 140424, 116990, 205096, 25422, 25148, 183109, 144925, 37731, 183036, 151414, 111802, 225422, 225692,
       44466, 261832, 178493, 126145, 117814, 58560, 35247, 240773, 36046, 57952, 163202, 182302, 12531, 206032, 11263,
       130046, 122117, 136912, 116672, 183004, 74134, 107159, 136212, 98645, 20623, 50410, 170043, 127055, 183332, 148615,
       121785, 188040, 66329, 57104, 85785, 116405, 89343, 138610, 126086, 130083, 133964, 161318, 53706, 32875, 142702,
       14817, 32651, 138562, 113741, 139893, 161557, 62453, 224773, 243710, 129364, 15837, 11535, 72206, 164888, 80828,
       3863, 180475, 10646, 64451, 166873, 245776, 94117, 220047, 186663, 3411, 211774, 201714, 54191, 144150, 20713,
       20389, 153771, 259469, 84291, 258611, 153722, 125481, 61627, 184652, 81865, 155349, 32012, 91079, 2813, 45894,
       51978, 76673, 20756, 73811, 262137, 135272, 71284, 135718, 59203, 99563, 32214, 20770, 112317, 32348, 28655,
       86885, 206173, 102743, 128425, 130884, 202836, 108565, 109100, 103047, 16337, 183153, 54351, 66515, 213756, 195405,
       118388, 251476, 119590, 123723, 113014, 9681, 49834, 92474, 130315, 95119, 126550, 79367, 53811, 4622, 30446,
       16208, 85748, 195257, 115947, 202626, 133526, 122152, 251579, 166591, 66158, 173443, 105413, 2399, 155077, 44669,
       106959, 131976, 190616, 62516, 39091, 156090, 9834, 30639, 81017, 24823, 241288, 155220, 19938, 153659, 7942,
       89951, 247350, 61087, 39244, 52703, 215511, 16736, 170782, 234819, 120278, 17551, 43484, 125374, 115072, 170122,
       18163, 109260, 102347, 30177, 124194, 173151, 77610, 117167, 248601, 19727, 95643, 25661, 20786, 243891, 132725,
       44115, 182175, 8853, 124409, 171408, 3179, 126149, 58605, 32681, 110334, 227929, 67197, 91188, 126767, 73409,
       94460, 26059, 163569, 61547, 223265, 52694, 69488, 112046, 2356, 83158, 256652, 180200, 95851, 52992, 86125,
       12693, 215357, 106099, 29476, 102270, 249403, 126214, 233300, 106698, 43927, 201069, 74526, 35189, 118425, 242517,
       55300, 199099, 23942, 38131, 148006, 185888, 11951, 44616, 111570, 27257, 231074, 246825, 83907, 6550, 167984,
       29252, 257980, 165971, 84891, 9123, 254421, 13117, 210516, 135931, 5488, 214143, 210861, 112927, 104674, 129471,
       99618, 40239, 167505, 87297, 152160, 117091, 4050, 6359, 126503, 31372, 157021, 61268, 106471, 173929, 138840,
       18961, 230737, 189018, 106542, 85478, 73016, 76576, 172969, 213740, 97041, 147509, 117284, 84476, 218047, 237596,
       54655, 172553, 225441, 38270, 14437, 125980, 88175, 251368, 236206, 105763, 179632, 153374, 5863, 51403, 8521,
       49795, 111086, 109228, 45970, 223942, 74763, 73330, 252182, 177602, 14932, 100923, 11651, 122345, 39039, 261757,
       71894, 88579, 143548, 121078, 33439, 235131, 107078, 21160, 66749, 25118, 128178, 76233, 17345, 246158, 69611,
       112885, 207475, 212101, 70267, 190939, 5330, 2587, 189124, 114602, 122450, 253852, 200213, 62000, 204043, 204342,
       39444, 84657, 169297, 67711, 135310, 233101, 107861, 146609, 139787, 14456, 75855, 188981, 47046, 14022, 238099,
       41794, 129130, 260029, 110054, 142052, 257931, 102035, 68890, 164276, 52442, 114300, 11695, 87095, 212788, 175333,
       51700, 198772, 23142, 74883, 64858, 147756, 129920, 149709, 178031, 70198, 214058, 208492, 129574, 122521, 71228,
       97936, 231016, 15734, 15823, 81796, 164426, 104328, 230070, 232598, 21140, 8283, 109550, 69773, 98397, 253111,
       80379, 73235, 173404, 116946, 112781, 78317, 27580, 189290, 190706, 114811, 125647, 248000, 122485, 253808, 118393,
       11729, 75000, 137385, 116036, 23851, 256139, 33971, 64836, 96393, 10616, 250724, 86470, 125642, 67627, 164557,
       51406, 234744, 239381, 81655, 181924, 22508, 72466, 48642, 227266, 27942, 47508, 25829, 87761, 83655, 262083,
       6044, 100621, 34818, 26620, 15251, 248599, 123818, 253535, 215967, 124978, 36244, 224937, 63262, 152384, 174881,
       22160, 149674, 131134, 55262, 153259, 225755, 114959, 112266, 29728, 9210, 251884, 126084, 16759, 259560, 216727,
       117395, 2572, 44271, 54445, 34890, 55792, 10939, 22621, 65606, 18246, 108046, 38988, 115664, 64902, 13415,
       64238, 217350, 76781, 21363, 259501, 153513, 117186, 52480, 180419, 110792, 103432, 46076, 3017, 187861, 115556,
       76151, 140352, 175108, 32025, 181780, 208301, 69879, 46438, 69057, 36604, 67853, 11238, 41402, 140480, 27526,
       78886, 3966, 131517, 70629, 91789, 77257, 51798, 172480, 202145, 14099, 39112, 215317, 127064, 86306, 231254,
       22885, 235591, 197022, 82983, 247340, 254417, 10845, 136717, 218602, 90218, 141449, 158453, 12430, 220223, 248694,
       30082, 30759, 109872, 84801, 168834, 156683, 37084, 231074, 80700, 69841, 215493, 172538, 16319, 44804, 125387,
       26529, 11398, 191062, 96177, 124740, 97044, 4605, 188925, 222095, 14653, 229928, 46082, 28174, 187504, 23204,
       2646, 109304, 85652, 12501, 124982, 144934, 36882, 142542, 148316, 12178, 229694, 57168, 113524, 1555, 70121,
       8660, 111114, 247811, 112850, 224242, 229933, 107853, 240438, 131258, 13207, 6218, 194111, 3301, 229623, 138659,
       6552, 145064, 76584, 77382, 8828, 251789, 87864, 154735, 122668, 81350, 73740, 113363, 70972, 118998, 201818,
       22896, 50627, 21298, 110225, 133399, 57296, 42933, 73562, 127148, 129260, 91362, 174309, 50444, 21308, 138676,
       34472, 149660, 124743, 117211, 63612, 238968, 74372, 28625, 141966, 94614, 99849, 60213, 53529, 169168, 244751,
       116249, 206882, 195063, 120288, 20739, 225067, 57248, 46488, 117494, 31552, 40514, 55605, 84891, 153013, 150732,
       125119, 72824, 69335, 81585, 79259, 3710, 125071, 221104, 148064, 45063, 156653, 76951, 119941, 63954, 187762,
       14754, 94334, 196260, 47033, 38000, 34620, 64811, 87463, 156520, 85604, 125371, 205713, 38553, 109868, 52247,
       121141, 234248, 85529, 118423, 14452, 102532, 104770, 170009, 120586, 14989, 190021, 214900, 10261, 197013, 181754,
       65291, 22566, 202301, 100315, 35847, 77127, 16152, 203149, 256325, 84074, 128887, 92865, 69187, 16206, 108418,
       95156, 232056, 2403, 57065, 131502, 257371, 90871, 202267, 237027, 20920, 59713, 119668, 28127, 78795, 133660,
       118401, 210347, 144548, 43171, 222788, 42179, 129172, 57189, 242886, 6056, 33822, 171943, 64995, 113984, 209890,
       42596, 188119, 87784, 130543, 33904, 195329, 129765, 219043, 239853, 30833, 212008, 234308, 35029, 234286, 242810,
       98261, 9712, 229587, 116611, 106711, 106692, 86992, 24010, 85111, 113339, 34644, 98333, 8295, 227728, 17178,
       83955, 91518, 10305, 91772, 209396, 208417, 24945, 131133, 90810, 101970, 29170, 128880, 123766, 189876, 250009,
       117698, 69225, 237249, 32108, 96836, 48980, 42466, 95169, 231331, 65485, 16082, 175988, 20756, 187995, 138152,
       125036, 143916, 329, 21180, 207998, 3830, 99801, 60279, 245523, 44751, 175801, 184303, 75198, 191993, 35474,
       6183, 43912, 2160, 26871, 82363, 83922, 58247, 65113, 196186, 88760, 211609, 128747, 101916, 156445, 137350,
       3950, 151504, 163348, 19987, 51800, 38535, 95655, 68884, 128603, 106568, 209917, 153017, 31007, 236774, 224863,
       30101, 22066, 142327, 11538, 51036, 256815, 19699, 87023, 209644, 1050, 172747, 225484, 77310, 94440, 10886,
       118474, 221840, 3340, 19605, 62526, 62325, 98493, 58682, 32952, 75190, 155014, 149832, 123197, 115948, 142604,
       104611, 135073, 179900, 111768, 235528, 210757, 83773, 167823, 126297, 106343, 117403, 199456, 45989, 43924, 230185,
       27396, 92848, 239992, 119605, 214347, 36580, 96250, 228644, 210742, 11888, 159936, 3263, 113627, 148274, 69832,
       45731, 140829, 58902, 39095, 227164, 146, 81698, 250581, 48510, 74527, 94485, 5171, 70550, 100914, 16700,
       33407, 68729, 174692, 125799, 121929, 167149, 124534, 65464, 195354, 545, 143276, 203167, 44279, 194775, 179356,
       5970, 40500, 48195, 111443, 211366, 32296, 116197, 188358, 87040, 67934, 102928, 11215, 110058, 73225, 111849,
       92190, 221071, 44599, 65480, 40854, 128665, 47685, 127844, 146549, 34894, 169481, 61543, 34003, 234854, 233828,
       73670, 236708, 98216, 21863, 253363, 178621, 22910, 84094, 40532, 1362, 72326, 106533, 80390, 35500, 53638,
       130330, 178547, 5612, 116551, 199747, 120540, 92496, 45625, 21047, 102960, 97472, 184744, 54637, 188540, 212979,
       39069, 231583, 200806, 48316, 221816, 158094, 10672, 40657, 163152, 83072, 210815, 50573, 22919, 238076, 246935,
       99991, 255038, 27992, 24900, 155939, 121328, 29900, 176223, 167957, 125475, 252907, 46161, 13814, 118746, 50338,
       65384, 75839, 84504, 8216, 116889, 136990, 11847, 190870, 201476, 83034, 41803, 28732, 82670, 179260, 67557,
       25312, 173411, 223521, 114358, 144841, 232367, 92037, 14129, 20722, 39401, 165234, 27577, 32556, 137083, 82530,
       98865, 177392, 109033, 96157, 145485, 183959, 19507, 182533, 7739, 45768, 196529, 156027, 28400, 83905, 126517,
       38554, 17843, 255929, 37691, 153011, 102020, 127929, 99195, 185130, 98331, 184836, 203729, 102242, 257466, 225182,
       36362, 107247, 196390, 69, 22568, 76259, 7622, 197905, 101200, 72482, 205891, 233977, 37418, 153049, 143452,
       25290, 247835, 45528, 6506, 140215, 21786, 114803, 149776, 30026, 78659, 233736, 103281, 14073, 163044, 45424,
       100454, 28101, 69053, 99067, 149913, 62330, 37932, 187180, 8070, 24697, 128327, 100990, 106690, 60940, 116064,
       43196, 185765, 55807, 111074, 24495, 167240, 5721, 132179, 173812, 65442, 210006, 166350, 23539, 239265, 4791,
       88086, 67570, 23639, 130706, 210277, 11957, 54068, 169342, 94146, 13147, 236978, 198875, 41638, 13399, 166242,
       116851, 141534, 112126, 100369, 217304, 163178, 30436, 117164, 161596, 124990, 23945, 118604, 81551, 109307, 204828,
       22026, 149683, 212182, 75015, 106916, 174590, 59149, 199648, 121999, 107439, 108430, 20345, 45109, 194878, 49395,
       114685, 41507, 70701, 106426, 152696, 153152, 88421, 163460, 1956, 33896, 43475, 233235, 127183, 10019, 184935,
       71914, 223406, 103530, 118949, 176205, 224525, 28276, 39152, 102692, 128893, 94584, 112162, 106962, 135071, 87541,
       124417, 17318, 112118, 27835, 52759, 77935, 56447, 56538, 42450, 12797, 19242, 11671, 17952, 230757, 193802,
       37219, 7852, 46216, 124731, 125454, 35728, 87450, 38804, 154273, 41239, 127336, 246029, 125117, 218640, 90771,
       96958, 19641, 250642, 118879, 145024, 89482, 121532, 179277, 178437, 98404, 234005, 154118, 31867, 258188, 40211,
       130624, 237902, 85575, 42610, 80370, 92055, 88041, 213911, 112234, 110731, 41544, 256027, 22957, 102535, 85516,
       79828, 81546, 29050, 49174, 169402, 13361, 32019, 119782, 252653, 1542, 250358, 111140, 114291, 100791, 204482,
       17810, 69771, 197601, 115096, 150073, 152728, 78733, 188263, 46014, 81402, 260477, 34073, 108613, 12576, 226234,
       66773, 123201, 167608, 46830, 764, 5208, 18193, 175553, 186817, 74765, 127099, 103210, 72504, 186681, 226580,
       38521, 157330, 210397, 78650, 173371, 94383, 57588, 182577, 114253, 105582, 117528, 428, 73332, 257624, 141132,
       122379, 31370, 178555, 67893, 16680, 206535, 116325, 205619, 81653, 68226, 71012, 34509, 73142, 193405, 83912,
       48078, 67523, 37878, 52450, 253585, 14892, 122303, 125342, 34465, 29266, 18610, 60260, 15919, 185203, 118392,
       108817, 106071, 220760, 75616, 223436, 237950, 37309, 76756, 13114, 56675, 147239, 109947, 68800, 99060, 16409,
       77613, 2030, 15786, 107616, 209630, 247652, 51688, 143724, 52574, 88670, 161495, 156676, 109414, 151200, 205256,
       110595, 19508, 152319, 33324, 112070, 97007, 45897, 231015, 251741, 77975, 137290, 208176, 116099, 251360, 220936,
       103605, 91612, 194768, 76541, 48605, 73282, 128939, 244956, 9969, 57538, 244877, 231380, 110421, 178589, 244214,
       107271, 261106, 238441, 119018, 104225, 29184, 129456, 256206, 105621, 64971, 251014, 189934, 25641, 149242, 123817,
       60410, 124835, 168107, 111920, 104489, 160251, 109590, 44240, 200721, 44036, 64940, 53456, 6200, 156710, 32902,
       66826, 6146, 79165, 62141, 93579, 45536, 11241, 67133, 215275, 104187, 213982, 3623, 37170, 195136, 62407,
       84640, 4777, 181187, 13302, 56920, 92617, 112814, 22617, 178630, 96898, 49198, 142763, 50911, 89472, 182651,
       82508, 98452, 76953, 24569, 250772, 193855, 129161, 77787, 76598, 104347, 124071, 237, 103407, 247485, 131304,
       20103, 223314, 210433, 2324, 96619, 182326, 76725, 208644, 179020, 18890, 46356, 66057, 102292, 255330, 154829,
       54535, 244277, 181360, 44380, 59088, 30829, 9653, 93357, 47327, 130556, 63480, 104386, 125306, 64227, 21153,
       17248, 175610, 73720, 43622, 74077, 133807, 51221, 79740, 88, 38902, 81503, 102810, 122482, 173814, 226037,
       94547, 187751, 24490, 125293, 229405, 233582, 114623, 45120, 34218, 98899, 69740, 197646, 91352, 228762, 96065,
       113529, 170398, 60329, 89672, 234690, 65170, 24735, 231077, 223845, 84951, 62589, 218288, 67502, 77319, 189770,
       128698, 235697, 243077, 66842, 53525, 229971, 5040, 97400, 4118, 34627, 222181, 125155, 120243, 16280, 209976,
       126137, 254002, 245098, 95485, 200654, 219493, 7453, 69452, 237171, 3085, 161683, 204822, 62861, 124834, 203767,
       131029, 12731, 43804, 113940, 121104, 166602, 122304, 73946, 181504, 81728, 218141, 38189, 112607, 51480, 52608,
       41903, 132468, 252299, 3586, 171615, 73004, 120356, 248077, 257189, 28630, 36394, 130058, 95484, 42864, 114987,
       86372, 42964, 63564, 20730, 213023, 14135, 25661, 37914, 199170, 43132, 49358, 9522, 99212, 108670, 8591,
       5143, 215388, 58669, 53355, 82294, 27926, 87177, 188265, 46334, 22475, 10440, 43229, 15652, 68354, 101660,
       51145, 235630, 232940, 37559, 233256, 174796, 85078, 69966, 241480, 127083, 75292, 187649, 585, 197229, 80990,
       118276, 193956, 179189, 56783, 107433, 96434, 87032, 215243, 253334, 111545, 213712, 168537, 75164, 97945, 5181,
       12754, 224346, 106535, 18428, 23821, 35851, 103452, 134665, 47898, 30028, 95260, 260926, 74584, 235515, 225665,
       56109, 96713, 55108, 39798, 149095, 169684, 103149, 108151, 91094, 95842, 7612, 201752, 84686, 205443, 179978,
       48846, 204892, 69876, 29683, 240729, 127802, 67619, 100405, 175181, 107099, 122850, 187844, 75453, 146538, 6128,
       127158, 37568, 158574, 2023, 110738, 231498, 130855, 81089, 12576, 90624, 96082, 40093, 109140, 65216, 134805,
       43902, 229834, 60786, 66629, 82458, 182373, 104462, 255511, 108718, 99699, 222204, 75210, 43782, 146974, 51439,
       42521, 25775, 83692, 86875, 259519, 115392, 122376, 151056, 67834, 57512, 146111, 27996, 46260, 206443, 103763,
       117268, 109894, 82980, 89529, 137386, 85103, 50892, 28629, 73366, 7507, 81298, 166564, 94567, 10974, 230861,
       46253, 141061, 189563, 9249, 66237, 21712, 80253, 250411, 96215, 42337, 41033, 61586, 44362, 44946, 130183,
       62805, 206406, 67619, 94040, 223531, 12422, 36219, 49378, 180235, 10609, 194792, 31772, 55630, 86025, 81548,
       7199, 48512, 8129, 91392, 99124, 37166, 125729, 251613, 8559, 86344, 218742, 106284, 36095, 256122, 127187,
       23816, 24992, 165937, 30511, 107022, 62852, 29046, 227104, 154221, 41134, 102783, 153774, 12759, 111095, 125034,
       117403, 180439, 252451, 116014, 134627, 177328, 80640, 64547, 29278, 8116, 6901, 106881, 105381, 258234, 230185,
       8098, 197459, 98401, 13948, 220893, 79585, 42637, 65215, 81611, 56553, 177596, 143261, 46384, 244668, 16474,
       21656, 261581, 4857, 14697, 17394, 215866, 112645, 71459, 10265, 47602, 233215, 230094, 28652, 67551, 83608,
       63830, 244081, 14828, 4826, 135464, 79716, 78680, 14452, 44519, 32570, 7111, 85093, 78406, 209818, 59791,
       80494, 160839, 148120, 106066, 165992, 36555, 30134, 19956, 78775, 60747, 62157, 203984, 126076, 130335, 199690,
       95305, 185483, 162618, 127840, 69102, 87065, 121551, 177928, 205271, 80052, 10506, 233865, 34593, 230583, 126767,
       99211, 147603, 89045, 91503, 232203, 203387, 77187, 1534, 256958, 91465, 228756, 132224, 80423, 261757, 244846,
       68076, 12402, 160023, 54520, 30643, 98327, 5860, 4213, 88971, 113467, 117160, 189701, 113448, 35453, 3554,
       77862, 254364, 90111, 35112, 34510, 33462, 3687, 50385, 51126, 187, 72409, 93413, 9556, 30771, 251723,
       47171, 5391, 169527, 24693, 113622, 13487, 34741, 181770, 217120, 91705, 231990, 171345, 125717, 178054, 185307,
       27102, 137178, 259773, 61032, 231141, 150996, 129955, 49312, 204725, 122116, 111863, 128509, 46178, 210362, 226857,
       41902, 74119, 25545, 31741, 207138, 104561, 20368, 252269, 201612, 60299, 248018, 136120, 44711, 91208, 160873,
       97627, 92564, 9807, 31046, 148475, 199028, 96512, 141356, 171056, 37767, 248857, 255081, 77690, 38603, 176357,
       83680, 81158, 99610, 88051, 192676, 176559, 22982, 8277, 249225, 37055, 142777, 77682, 32258, 229406, 205733,
       75518, 130388, 128778, 9928, 60932, 94751, 67928, 238396, 48049, 11464, 126331, 187227, 44178, 157997, 122954,
       90007, 246681, 134169, 54075, 156190, 64365, 36744, 253118, 203745, 80721, 165611, 248035, 97028, 144994, 208907,
       33368, 250759, 57869, 39242, 247421, 15576, 83924, 158409, 16053, 126513, 194814, 134454, 28032, 149436, 87978,
       85753, 143158, 241103, 118828, 142514, 51516, 60550, 237981, 166614, 41529, 106549, 207274, 87408, 32573, 179891,
       4119, 217511, 29733, 47206, 252622, 210128, 33813, 44995, 45990, 29441, 161435, 63293, 23561, 106480, 2837,
       96608, 94651, 38707, 125186, 220298, 191492, 50432, 172496, 248638, 6436, 17994, 95393, 94229, 54851, 119050,
       70543, 135928, 181535, 94849, 143347, 40463, 84922, 24801, 108039, 118677, 79926, 230290, 18407, 203670, 117540,
       22172, 99976, 255019, 44770, 42291, 261035, 64407, 82546, 166139, 121335, 41079, 20273, 118877, 161341, 157127,
       114278, 5876, 117831, 29167, 13182, 35399, 95640, 37254, 97600, 50265, 7833, 61917, 122052, 2275, 15682,
       28119, 168072, 138223, 18514, 252298, 127725, 110413, 28733, 128317, 93966, 134298, 84200, 107665, 100193, 150544,
       20701, 250533, 151011, 115971, 143436, 259802, 88817, 14519, 59365, 85401, 98974, 115110, 76360, 113273, 122656,
       100253, 233496, 196121, 54474, 160672, 132081, 17409, 38363, 255698, 70682, 137515, 208416, 98055, 57621, 180403,
       20138, 230410, 33976, 29362, 219400, 38167, 91297, 164567, 149345, 35343, 180154, 70628, 22274, 128051, 206667,
       116574, 104426, 205019, 21088, 229666, 169605, 45108, 63583, 205956, 56155, 56435, 193914, 62408, 162579, 112541,
       47357, 161112, 249926, 119608, 64538, 21353, 86327, 85194, 47774, 47119, 178955, 258997, 46887, 10244, 101439,
       65922, 259515, 136226, 4412, 79559, 235187, 121456, 243838, 231023, 29269, 159057, 98404, 91434, 223548, 139460,
       101937, 177181, 251433, 108446, 195707, 252424, 21711, 18045, 188433, 70345, 113780, 190304, 10967, 95943, 61662,
       105485, 194585, 142311, 63760, 45995, 136987, 20773, 125286, 210038, 94198, 180029, 179089, 43407, 24750, 127950,
       15008, 159794, 158739, 60433, 227643, 30081, 30834, 63487, 164544, 124547, 124899, 130860, 47364, 103602, 122582,
       75032, 143440, 218959, 124303, 150153, 104830, 51605, 215840, 108434, 46940, 106325, 128867, 21286, 218129, 104977,
       122985, 85148, 63305, 104955, 57563, 136029, 28968, 92367, 64260, 43604, 79323, 41105, 119919, 82988, 182852,
       70422, 81574, 110535, 72919, 222196, 242735, 84953, 155592, 134295, 99898, 88064, 227524, 123114, 9185, 228194,
       105149, 64180, 178163, 122493, 60959, 64981, 107558, 252240, 88757, 6086, 53790, 21965, 15405, 130490, 217969,
       115984, 179712, 236484, 3630, 60022, 240563, 104094, 15615, 249324, 111390, 188121, 233155, 54455, 202134, 86182,
       46511, 136881, 169644, 25480, 248986, 139337, 6411, 234447, 151142, 97698, 218850, 212891, 9663, 145860, 64919,
       123819, 193326, 152674, 38894, 199007, 95807, 104103, 50120, 211944, 7822, 189906, 192272, 70291, 31392, 255197,
       45757, 45750, 215266, 3932, 79916, 176064, 85956, 244575, 105498, 123622, 58760, 227249, 1409, 101371, 217409,
       35446, 185804, 157074, 92223, 3121, 81437, 114196, 253786, 56642, 25005, 211767, 137878, 9268, 259622, 256462,
       1132, 169246, 187407, 28207, 140535, 57666, 9347, 183528, 25740, 47104, 243579, 186261, 57688, 43404, 112047,
       62904, 150230, 180204, 18655, 101542, 26901, 60815, 220603, 146912, 1186, 109258, 139544, 31381, 105083, 171799,
       48376, 221945, 143387, 15512, 151456, 225819, 106693, 55202, 45147, 26373, 81444, 28194, 98944, 237052, 225634,
       62114, 28434, 31073, 62880, 232444, 84647, 84566, 239081, 27470, 5803, 148955, 63855, 10323, 37804, 115675,
       42840, 7835, 227454, 54633, 198911, 35317, 56353, 52473, 90008, 88720, 249039, 217388, 92, 106774, 62006,
       125711, 215647, 71998, 22870, 108509, 177607, 32588, 170675, 221564, 118702, 96031, 61099, 719, 201561, 39747,
       129932, 123396, 255047, 4712, 262116, 146181, 15800, 37311, 61172, 31471, 69999, 152143, 57504, 32194, 172845,
       67954, 125678, 250631, 13725, 172871, 170989, 9656, 153417, 44331, 4175, 216955, 146480, 33652, 217012, 253310,
       120787, 44542, 57038, 51097, 114985, 186240, 100139, 256087, 153801, 24928, 90973, 10652, 8477, 166585, 212582,
       72650, 146914, 254026, 107753, 77359, 13514, 117762, 245942, 182056, 71592, 34024, 226292, 38539, 104735, 13550,
       14353, 242082, 150825, 87532, 229939, 212420, 36757, 108656, 244337, 110619, 220960, 121382, 79314, 114095, 1707,
       112574, 244070, 197157, 74272, 90001, 56803, 101153, 213638, 7034, 38575, 43185, 173043, 65936, 241637, 70269,
       2543, 165703, 161436, 79669, 189336, 95080, 69958, 74386, 231785, 98996, 95568, 177524, 95545, 187775, 234371,
       82263, 4106, 93326, 7429, 228205, 77297, 118359, 75589, 66816, 2361, 212701, 46600, 105285, 235611, 155889,
       62828, 231985, 53920, 107216, 13703, 156194, 60957, 167375, 159094, 84795, 113242, 166648, 47613, 245464, 206722,
       97475, 120403, 128232, 33315, 99516, 82076, 94287, 109597, 132199, 25347, 13327, 242048, 94655, 252348, 214809,
       38492, 22366, 81249, 36520, 215908, 159066, 106364, 34962, 257707, 106652, 84220, 167447, 90623, 128811, 237635,
       121098, 144716, 199922, 20472, 162470, 17861, 35300, 126899, 117075, 38537, 3764, 202686, 40014, 128664, 111083,
       42995, 211862, 157461, 91358, 101413, 239961, 35488, 212693, 174088, 37476, 101890, 72699, 74765, 99690, 235871,
       25343, 244279, 37950, 47826, 140314, 186389, 7594, 95057, 207000, 124852, 66728, 62900, 41590, 39807, 66381,
       111416, 189407, 163216, 69461, 7577, 136177, 29912, 58688, 210321, 25352, 246147, 235028, 91089, 234554, 55250,
       126467, 74541, 192953, 23995, 82420, 127206, 15128, 128375, 214015, 50737, 232102, 185931, 51617, 140511, 156935,
       105677, 49746, 125168, 61458, 67529, 259643, 8186, 239305, 246335, 120673, 198098, 248262, 48914, 126768, 131838,
       87625, 207350, 127690, 87489, 5958, 90180, 7384, 227782, 226645, 472, 123177, 144260, 11539, 49644, 157843,
       125374, 117613, 138515, 104070, 63915, 45949, 17303, 29657, 170159, 80592, 58440, 76270, 80212, 163427, 152824,
       73, 73808, 59673, 56238, 81736, 108750, 93293, 218754, 167030, 24483, 81803, 253419, 111529, 174867, 174751,
       86547, 126636, 95151, 907, 152427, 136402, 112055, 81635, 188615, 2542, 209890, 181859, 116382, 158392, 90112,
       43741, 51930, 149027, 91573, 127468, 42888, 103210, 39827, 208716, 36866, 122360, 211819, 46718, 232948, 152596,
       66786, 171804, 34068, 76374, 142725, 216344, 38278, 135453, 79605, 130075, 64431, 36226, 96600, 177347, 238708,
       35933, 170978, 125189, 83942, 190886, 105497, 57064, 255348, 58235, 112765, 7463, 241138, 43116, 37664, 6978,
       24622, 104316, 86724, 6047, 45013, 34658, 129015, 99520, 48233, 47083, 236769, 127205, 28903, 208847, 160823,
       64457, 20276, 157139, 38225, 196403, 74199, 30526, 176501, 65904, 80790, 196400, 245332, 9810, 139055, 260417,
       66714, 189764, 144548, 50781, 103685, 203738, 69799, 178322, 69133, 42000, 207973, 139286, 74753, 27196, 202723,
       10724, 31522, 94717, 49303, 237684, 182889, 31129, 109466, 26567, 57421, 77305, 41680, 52210, 186176, 256615,
       82730, 132358, 194441, 82412, 139708, 110065, 54180, 142652, 53323, 23805, 186235, 254672, 76272, 153550, 237410,
       126683, 26889, 122178, 24306, 91428, 60012, 9051, 189977, 34883, 34676, 147771, 218615, 54122, 77100, 77637,
       40132, 191057, 13124, 109407, 18623, 14149, 64622, 32266, 220200, 32260, 124178, 231618, 124544, 128656, 122395,
       16392, 61317, 48889, 16110, 65145, 95215, 32149, 256132, 19054, 10062, 177085, 252170, 98520, 162707, 127190,
       41000, 194420, 258244, 95661, 85268, 243336, 99973, 137721, 141926, 31132, 8253, 70625, 67942, 251358, 132232,
       68103, 258401, 4795, 114211, 124847, 23001, 3359, 127604, 67425, 41523, 171610, 174499, 115669, 169885, 68706,
       31038, 71305, 63764, 17941, 35131, 131778, 75515, 184406, 20421, 40091, 230408, 209835, 61249, 58673, 146121,
       107480, 186965, 255131, 68248, 208120, 226244, 67618, 184966, 245043, 36461, 251571, 105862, 103922, 124588, 115787,
       96968, 257531, 28130, 30686, 168846, 65617, 41943, 165781, 232409, 103367, 19532, 214424, 46886, 206496, 75016,
       52895, 95937, 256233, 47764, 64282, 113473, 21185, 130682, 239057, 44681, 259692, 1691, 105242, 88093, 20350,
       64366, 59991, 96907, 60059, 126345, 1502, 20493, 68518, 96091, 23274, 113737, 250862, 5629, 147833, 244500,
       1829, 47035, 242311, 63964, 255852, 25014, 53638, 236784, 219655, 36094, 75783, 225647, 129767, 99650, 162051,
       52166, 41250, 38838, 103395, 194186, 149530, 27596, 165677, 106854, 32380, 48573, 238852, 74500, 50667, 25586,
       527, 260405, 11301, 2283, 259560, 34434, 18640, 233889, 191191, 29244, 241458, 57589, 69186, 76476, 145658,
       89945, 121623, 69117, 40878, 146865, 49793, 31335, 132572, 126588, 107847, 132851, 77663, 21335, 132365, 251649,
       88909, 162063, 224266, 122071, 92654, 48143, 30436, 91338, 35572, 11398, 189894, 55677, 128418, 251070, 29140,
       35490, 226231, 166823, 36131, 190876, 258226, 63409, 464, 16109, 30285, 49672, 196118, 130137, 200637, 135617,
       5631, 163733, 59475, 59175, 125672, 81140, 71872, 236783, 186568, 61204, 47933, 204632, 68225, 258762, 26681,
       129443, 255220, 259961, 114937, 64068, 68754, 40428, 86489, 230082, 72283, 52374, 39739, 40, 200549, 31134,
       53683, 7378, 221251, 21479, 84446, 208813, 93239, 119368, 93738, 28978, 171211, 100274, 98159, 65548, 186997,
       41046, 127338, 241597, 121350, 54801, 226761, 58381, 169035, 58175, 110037, 69875, 76919, 82334, 255420, 24323,
       128109, 141249, 113633, 97350, 40994, 112332, 95381, 138900, 37641, 34716, 134755, 142047, 66172, 256187, 249068,
       38025, 204840, 56083, 2528, 217416, 45046, 93137, 220390, 9078, 30911, 147243, 121525, 52078, 14497, 235267,
       37308, 45904, 177964, 26166, 175892, 252348, 8797, 121657, 68863, 44287, 237534, 149104, 10714, 123369, 26395,
       70820, 186219, 125147, 2572, 44702, 249204, 123210, 74885, 64883, 126677, 213319, 157726, 39931, 154456, 70150,
       34104, 60806, 227028, 13684, 156850, 3324, 118609, 139865, 147634, 76921, 112306, 241751, 79970, 77046, 2906,
       117421, 183046, 75138, 119378, 169513, 247012, 108572, 104682, 148223, 101376, 139538, 84369, 114981, 199619, 223338,
       114815, 57503, 193575, 48319, 4876, 55425, 127584, 87552, 48819, 92947, 98944, 134160, 48524, 23838, 10598,
       57940, 82399, 75283, 90063, 168315, 20529, 47329, 250684, 4627, 108338, 150059, 15846, 19406, 260821, 251078,
       118960, 52407, 261389, 39478, 146871, 209314, 20016, 97045, 219814, 112462, 251295, 229784, 31386, 242654, 154020,
       110545, 148420, 18497, 38831, 253726, 65040, 122403, 120563, 4068, 28714, 247569, 223346, 9129, 42894, 148767,
       122753, 3313, 242000, 21708, 235218, 130474, 123749, 89262, 76604, 108000, 94171, 58714, 10738, 32684, 94376,
       58344, 199438, 17536, 9620, 167769, 215801, 43225, 205677, 90011, 46072, 55435, 228741, 78595, 36666, 206556,
       127912, 153057, 152080, 22251, 61242, 143489, 43142, 124584, 90171, 76952, 183008, 107873, 22468, 124347, 157323,
       93154, 35874, 214757, 52908, 127475, 145990, 124462, 89111, 139105, 82558, 116531, 56941, 47589, 187427, 169405,
       94302, 204714, 191565, 109937, 62926, 182708, 104920, 126780, 244334, 34441, 14330, 180253, 54654, 220707, 169452,
       59267, 217680, 226057, 50906, 49277, 136095, 40745, 134095, 17034, 98664, 41824, 103517, 1602, 67118, 14015,
       38475, 112503, 6208, 18562, 14969, 257633, 16878, 13572, 38936, 36301, 137989, 91076, 99896, 243783, 19800,
       127064, 16573, 197271, 67452, 18781, 181801, 44429, 187190, 17910, 108681, 8220, 241567, 8795, 99655, 213304,
       12211, 185723, 65127, 45267, 223767, 237278, 58773, 209411, 215767, 104574, 53792, 154822, 121276, 51132, 241895,
       69635, 125303, 98380, 64965, 36209, 252396, 27919, 204549, 14856, 59137, 70070, 468, 121063, 235059, 180532,
       51498, 33559, 68569, 27614, 150743, 146911, 44209, 244860, 82742, 67448, 247743, 190544, 78457, 193234, 105521,
       56679, 117750, 246925, 99422, 223903, 174868, 76605, 124177, 125613, 87169, 49550, 201373, 113104, 133506, 114765,
       113467, 139534, 193025, 26674, 63310, 108351, 81703, 11113, 135677, 93931, 144425, 54967, 19117, 62466, 63695,
       110463, 138433, 206157, 23654, 143066, 4825, 104763, 39994, 170399, 21163, 167680, 255036, 97226, 103907, 215969,
       19418, 13602, 77006, 49653, 239975, 59435, 18810, 248157, 180187, 35483, 44330, 13347, 129042, 84121, 77464,
       14113, 69099, 38476, 53276, 41347, 134525, 88725, 45049, 17189, 12399, 58672, 219564, 14291, 45017, 56781,
       18777, 196929, 201449, 84539, 171584, 36339, 119188, 159518, 33819, 108264, 23517, 23605, 128851, 4281, 161227,
       75777, 180567, 121673, 126022, 197465, 118149, 39968, 86744, 70102, 55247, 117997, 120828, 51909, 244890, 57942,
       6207, 62824, 39550, 108751, 33805, 158536, 3239, 226080, 105026, 95666, 89124, 78035, 53354, 208454, 225878,
       818, 236097, 209753, 38003, 241290, 256298, 45367, 170225, 180766, 126445, 126428, 153412, 86648, 251522, 90630,
       71247, 4100, 112290, 16652, 202257, 133724, 51262, 217052, 65492, 4687, 184904, 159720, 99835, 165457, 113022,
       21335, 122659, 205266, 77913, 229689, 30679, 91670, 169791, 73445, 48039, 22121, 130004, 82915, 65439, 137691,
       100169, 138842, 106943, 24133, 124275, 43252, 78755, 252974, 148484, 96191, 139022, 114233, 46799, 1881, 39200,
       21298, 10767, 261571, 37501, 209484, 190933, 122299, 252374, 111487, 46851, 109661, 244920, 14116, 139313, 124521,
       10843, 33766, 243608, 23657, 222627, 176536, 16713, 77820, 260167, 64886, 95052, 226587, 45554, 68915, 77196,
       110284, 189260, 71489, 115484, 190159, 261631, 62033, 177190, 207435, 116461, 6461, 187707, 59042, 238003, 162014,
       84143, 68028, 243298, 21303, 200693, 121473, 6892, 26618, 240865, 20982, 179369, 226483, 33009, 225116, 229486,
       98432, 183155, 254706, 22741, 178032, 118629, 17125, 45155, 44239, 121583, 161622, 154868, 90282, 186410, 257552,
       62037, 28765, 193125, 12447, 182776, 32194, 111645, 245985, 218110, 14189, 170142, 9337, 80091, 23857, 93934,
       87513, 181728, 245936, 52446, 260431, 219596, 119434, 261771, 184289, 6645, 112873, 109960, 107232, 57429, 178432,
       72586, 246249, 213841, 80111, 182076, 50556, 129345, 52461, 196082, 76368, 213083, 214528, 104468, 13663, 235381,
       20123, 153229, 149429, 106075, 53848, 219880, 99755, 91251, 51248, 126892, 32384, 88850, 122645, 121725, 183764,
       28047, 168950, 11539, 60939, 187464, 36134, 119469, 241992, 223444, 83986, 94166, 133156, 60778, 36196, 92868,
       14278, 215314, 193585, 46105, 148859, 52695, 87194, 86668, 225077, 101831, 192670, 33905, 58611, 16188, 48201,
       7319, 170233, 40479, 82991, 37820, 177386, 120794, 44984, 93328, 65065, 144095, 119367, 121690, 126470, 180527,
       46412, 180892, 252814, 116177, 192465, 96009, 103067, 32520, 209630, 126057, 101825, 150287, 103680, 192765, 95026,
       42136, 260503, 239350, 118039, 49004, 189071, 87782, 259956, 32438, 21242, 196781, 248271, 6024, 192657, 238203,
       47952, 30153, 161999, 103135, 224875, 246209, 81030, 163434, 218919, 69091, 160190, 253529, 488, 154277, 66264,
       57081, 248519, 50619, 20673, 31459, 29861, 59581, 15171, 113218, 129993, 83792, 170179, 115282, 239238, 235769,
       40714, 255470, 51357, 77792, 52693, 178284, 65810, 164215, 241724, 17045, 136594, 188333, 129735, 241078, 92115,
       55728, 146309, 211314, 66277, 194329, 53181, 84882, 35930, 78805, 25106, 32780, 49477, 29127, 179627, 127279,
       25239, 4694, 79610, 50392, 175037, 5465, 26172, 15214, 1520, 121424, 150027, 175796, 93626, 149601, 47632,
       117681, 27191, 258423, 111212, 134198, 225032, 92163, 139616, 175143, 31817, 59898, 118367, 80651, 19445, 203877,
       24418, 147917, 179380, 17363, 236094, 220100, 82912, 236483, 148334, 81870, 242691, 244591, 20528, 203790, 111505,
       46193, 105685, 248404, 8687, 158864, 116541, 93812, 149599, 148573, 129433, 7869, 146103, 96980, 256797, 72593,
       110644, 186953, 102690, 62435, 68538, 70200, 12528, 103989, 9232, 95237, 201881, 200412, 33622, 161394, 157756,
       50894, 121907, 211062, 92156, 163811, 111666, 118591, 240495, 129775, 63733, 166553, 79438, 126039, 148288, 203852,
       68144, 208472, 205014, 16057, 180748, 141521, 67952, 38779, 184252, 112804, 51032, 73556, 70522, 170836, 85816,
       98009, 206819, 216395, 71821, 235956, 49989, 71572, 121461, 17332, 37324, 47410, 2597, 26379, 161017, 39940,
       36558, 116499, 36677, 57781, 132130, 221025, 106114, 155973, 53035, 108657, 136948, 94177, 21414, 67399, 103237,
       72463, 209533, 211062, 54529, 153538, 224964, 74833, 180205, 228464, 84885, 76698, 236727, 36649, 79458, 98307,
       120486, 245756, 76077, 122611, 15878, 182880, 13809, 117973, 9523, 92146, 10055, 5776, 4355, 207825, 70166,
       6103, 55081, 134930, 125540, 196696, 205917, 91075, 207118, 86156, 42538, 84019, 27078, 87802, 53914, 82532,
       110865, 76482, 247601, 114151, 15849, 71843, 2689, 149022, 167640, 107246, 204835, 258644, 111830, 258544, 85600,
       78062, 151492, 23465, 62901, 250762, 46235, 14548, 222842, 10943, 31406, 174376, 98376, 64288, 226913, 26513,
       113387, 190815, 101402, 105268, 111781, 256036, 65002, 126361, 83799, 102973, 184847, 74979, 100366, 53721, 55290,
       75892, 183536, 3203, 28878, 130503, 192242, 45613, 144173, 174693, 21504, 70444, 19685, 937, 60601, 231922,
       10554, 164976, 225996, 99565, 170695, 97986, 4389, 25363, 84574, 52409, 127159, 106886, 129208, 52332, 149045,
       104233, 155911, 244352, 98384, 249227, 146915, 36006, 164530, 249869, 84112, 226183, 60115, 65367, 41759, 119869,
       81765, 239056, 228782, 57123, 76113, 45538, 69594, 101611, 234284, 129551, 19176, 41973, 43163, 182067, 76752,
       28370, 235385, 248915, 58785, 16675, 43404, 68723, 193453, 131918, 11223, 142298, 23786, 105640, 95653, 257835,
       55319, 79426, 178667, 54157, 58899, 140659, 86355, 119569, 191543, 101350, 178588, 104225, 129229, 42740, 13663,
       22743, 150449, 259840, 45292, 176827, 10564, 22053, 214100, 78875, 115455, 112790, 6781, 71892, 27729, 13001,
       111731, 7398, 216643, 129135, 117793, 242110, 72116, 180897, 209262, 15486, 103611, 25238, 47352, 21682, 213245,
       4743, 105793, 228869, 111319, 150396, 111181, 2344, 125097, 214116, 77618, 228334, 84264, 13911, 26751, 239326,
       990, 162892, 243861, 33574, 39522, 248868, 72332, 97162, 151433, 9841, 241913, 248474, 80594, 153248, 223580,
       88079, 95527, 160551, 127100, 70615, 221481, 117904, 32558, 118091, 74290, 116233, 240917, 103987, 239129, 171376,
       47663, 42953, 64794, 76770, 123622, 232074, 52868, 114756, 173023, 44176, 193407, 135292, 95373, 42648, 233070,
       38885, 52843, 48430, 49879, 195856, 189516, 48125, 239118, 131884, 114085, 135792, 191217, 22335, 66764, 66615,
       50000, 208405, 174381, 116374, 227892, 171175, 2005, 257349, 15879, 124238, 215695, 35719, 117820, 177163, 15252,
       54768, 50396, 44815, 85593, 86392, 132653, 129901, 23420, 57546, 72738, 50771, 154367, 12700, 184886, 71477,
       111888, 114013, 26028, 17583, 136425, 217698, 33721, 28952, 32267, 114493, 105999, 143266, 33558, 68381, 78528,
       97659, 236742, 237567, 58677, 126988, 103444, 99581, 213333, 76100, 30454, 228972, 200255, 54993, 76673, 215073,
       41702, 11264, 214698, 32642, 183676, 160412, 41212, 249393, 236096, 42335, 61209, 14814, 125223, 86664, 137323,
       69891, 148414, 131647, 60562, 27375, 77563, 65970, 254697, 167990, 130564, 230502, 37522, 85667, 60596, 62595,
       92207, 105138, 20650, 41107, 10601, 130822, 61805, 102425, 37188, 24125, 214625, 208216, 89809, 39934, 11434,
       45153, 153742, 23298, 98079, 171095, 103834, 27939, 125630, 109204, 52887, 248751, 183344, 61759, 19348, 45292,
       21826, 212643, 47906, 9121, 116373, 195062, 41558, 182772, 211529, 71420, 27010, 88679, 85547, 245143, 23297,
       55741, 43384, 194947, 65572, 101529, 172200, 71197, 102116, 13549, 67097, 45910, 256159, 11839, 142718, 249334,
       53084, 77426, 221355, 26782, 33637, 231259, 69957, 220626, 48636, 99362, 149563, 99080, 75954, 112255, 256641,
       29074, 166124, 185181, 27231, 28969, 73724, 4849, 109825, 49542, 55886, 155971, 235204, 56736, 7148, 29283,
       30990, 48406, 113210, 100172, 232227, 23868, 50657, 153170, 1826, 87739, 204485, 11568, 83895, 78272, 85950,
       79264, 141846, 76019, 119022, 12527, 16679, 2082, 196413, 36075, 8917, 206151, 220991, 94652, 109922, 241941,
       46337, 91554, 112760, 129305, 121477, 119333, 28365, 169965, 190163, 24041, 26256, 142314, 77099, 107739, 105245,
       36624, 217620, 5288, 44629, 25307, 29072, 120720, 131122, 161105, 3439, 178012, 213385, 69633, 61521, 233564,
       43895, 245846, 90196, 45349, 225515, 47805, 32480, 208753, 12581, 17675, 18500, 157251, 4519, 152139, 96183,
       129459, 59085, 171476, 86555, 129930, 3476, 101869, 223859, 18681, 8519, 257261, 69299, 1944, 201710, 21488,
       78681, 10177, 148444, 94874, 7300, 159820, 51755, 238877, 223498, 50823, 219573, 61645, 50394, 131024, 175310,
       20022, 3802, 32156, 98816, 249492, 251005, 28205, 194461, 238762, 42521, 34741, 151645, 87983, 93407, 190262,
       13, 189963, 164762, 100434, 225936, 48448, 117846, 38494, 128090, 6765, 155349, 75697, 77545, 82722, 67017,
       53537, 140008, 231616, 10284, 92703, 195478, 89421, 99606, 227445, 80257, 216664, 184495, 84234, 203006, 170235,
       106626, 121762, 66452, 37607, 11526, 201398, 88744, 174655, 212781, 97428, 35878, 48847, 22126, 239872, 67393,
       125444, 175491, 216226, 44561, 260961, 147734, 93547, 43164, 262076, 98830, 242743, 102037, 66064, 89300, 196500,
       16871, 61538, 23532, 36131, 181371, 163473, 30703, 56763, 135371, 67979, 127786, 141104, 34245, 8771, 41918,
       71666, 78631, 161614, 37775, 219076, 164860, 128, 88344, 253122, 47612, 206205, 48433, 79541, 40639, 256079,
       101409, 257921, 258744, 3717, 206210, 58008, 33857, 157712, 78835, 129166, 128712, 108126, 34316, 174746, 164093,
       101868, 223146, 231563, 66764, 162244, 11716, 16013, 154255, 135831, 84331, 194434, 54391, 126660, 59817, 201929,
       116238, 119270, 105405, 90478, 14755, 119351, 67128, 78025, 212433, 41855, 161402, 248923, 46788, 86422, 243903,
       45378, 2606, 31013, 120859, 33917, 15891, 27697, 38438, 30361, 49549, 33399, 146142, 56618, 74768, 164529,
       53595, 123539, 133454, 550, 71497, 105978, 35517, 12759, 120802, 65348, 98912, 84807, 99679, 99562, 249024,
       74642, 24697, 15528, 50444, 165849, 81655, 87181, 90444, 26606, 87279, 250227, 159945, 32495, 257954, 57245,
       13601, 232002, 56263, 105274, 227752, 72365, 69439, 166729, 231264, 23137, 118907, 256619, 34350, 46853, 257600,
       100456, 207380, 3846, 85625, 188218, 36150, 123884, 228558, 121165, 60941, 154025, 15297, 6840, 53988, 189456,
       91805, 216551, 158858, 33411, 173663, 240092, 42448, 69214, 23045, 25775, 20949, 249094, 40492, 204653, 44427,
       108721, 174299, 116269, 75590, 253313, 135800, 14306, 261996, 190463, 76887, 83015, 115839, 83042, 109088, 99780,
       115975, 160134, 165410, 112675, 117331, 67536, 8241, 43839, 224577, 113599, 223531, 113509, 6669, 147811, 127733,
       20201, 20110, 79541, 14621, 21462, 73045, 23815, 110289, 253923, 105285, 40922, 234942, 89931, 9107, 135215,
       90041, 141711, 64167, 120865, 29159, 187765, 51360, 183113, 227543, 430, 233765, 61693, 83855, 191509, 49896,
       113780, 64481, 143504, 127960, 98143, 45598, 47696, 38783, 176665, 107761, 34509, 152927, 111309, 255583, 139203,
       18931, 198366, 51489, 82771, 204114, 92970, 22693, 214715, 128411, 58540, 208298, 221958, 115247, 71731, 142764,
       103477, 8735, 228442, 74755, 139804, 146275, 105999, 33446, 166184, 20031, 106755, 82209, 25548, 123561, 34758,
       27376, 85448, 48034, 101713, 170061, 116029, 116780, 165310, 235753, 73772, 21546, 88837, 125563, 67317, 232176,
       95424, 99899, 107202, 73883, 43901, 5623, 80162, 103163, 1849, 111350, 36840, 59591, 11820, 43432, 215765,
       22022, 101726, 134570, 34903, 213939, 58356, 117280, 15989, 217587, 123855, 216859, 226238, 46683, 258507, 201926,
       121091, 213471, 34749, 71676, 114024, 91062, 62032, 245418, 111656, 109152, 34567, 202594, 71576, 65074, 130033,
       59569, 236945, 258884, 2092, 96582, 43293, 1690, 136945, 198463, 82259, 173014, 74264, 9622, 236967, 178674,
       96592, 234751, 184284, 81571, 141630, 71161, 59995, 137707, 77731, 93035, 100429, 254489, 130163, 222104, 190908,
       32290, 124527, 51905, 73014, 106097, 121355, 110474, 212163, 53101, 2211, 216920, 254572, 26674, 63873, 243077,
       68283, 24374, 52083, 72383, 259779, 117629, 11315, 229005, 77194, 53402, 158017, 77668, 68129, 59716, 20809,
       55440, 70987, 38119, 91828, 144819, 4912, 101104, 54424, 90060, 60327, 107730, 129732, 55792, 18834, 81699,
       92453, 111950, 131928, 72784, 154870, 129701, 114090, 62690, 220902, 63064, 206663, 99163, 75278, 65769, 170236,
       16882, 198072, 92230, 109575, 217706, 42365, 55350, 176759, 136436, 94249, 16754, 71742, 56293, 42699, 261371,
       132, 176940, 243551, 52482, 150031, 4975, 19333, 106879, 158656, 52247, 72266, 90400, 42119, 50576, 95584,
       26548, 76026, 109546, 16223, 14763, 233794, 95493, 255989, 146772, 98941, 12987, 106432, 34733, 197395, 113835,
       64905, 150243, 173283, 60826, 185394, 242068, 46563, 2525, 101206, 36390, 120767, 200632, 24383, 144854, 179856,
       114411, 204864, 240279, 109223, 244942, 181819, 54680, 141468, 65568, 94529, 76308, 251525, 65317, 100323, 161945,
       11191, 93152, 121551, 107792, 96658, 112651, 28740, 94323, 228543, 92643, 258150, 141567, 69127, 27802, 78838,
       90510, 119255, 123952, 61761, 138128, 230026, 92086, 24865, 50034, 4300, 211534, 99434, 5354, 177323, 18658,
       117485, 18853, 153914, 98263, 234372, 219655, 108588, 234557, 147417, 59845, 146757, 70360, 60246, 218491, 253729,
       69992, 256100, 259795, 31937, 71248, 230646, 96141, 167636, 89464, 108718, 64897, 7547, 118911, 177280, 205940,
       67768, 173165, 152650, 54339, 97454, 81558, 108912, 21548, 253314, 98653, 107249, 146419, 113675, 61722, 204693,
       85947, 257205, 219346, 115777, 168116, 79032, 11670, 227869, 44058, 89071, 129790, 57395, 11638, 144136, 205613,
       98160, 215645, 94537, 82371, 103532, 194297, 2096, 27853, 135890, 78546, 88071, 166002, 19173, 49038, 156542,
       18666, 39220, 58788, 19721, 127890, 152757, 63415, 190629, 121845, 15141, 123400, 194019, 16469, 249105, 71027,
       33576, 118037, 214289, 112, 128218, 47979, 36148, 82925, 59453, 81055, 247152, 14943, 78849, 14815, 248473,
       127078, 187257, 238500, 15680, 40294, 180441, 113452, 43399, 261805, 51274, 6346, 75371, 50729, 162617, 74463,
       45719, 89165, 63791, 16349, 122329, 81752, 62718, 160490, 128442, 103203, 53791, 128587, 114744, 177332, 121466,
       126203, 232962, 121311, 102929, 224575, 6272, 81669, 229649, 149088, 65212, 195971, 246470, 114674, 139607, 237563,
       96929, 138275, 58301, 21136, 113152, 21530, 89463, 67683, 111968, 56497, 23883, 100861, 78092, 171787, 249653,
       117748, 245210, 13851, 85533, 190569, 41717, 123040, 123078, 90389, 113556, 211308, 11211, 16895, 90385, 74428,
       1527, 62820, 244148, 50385, 149986, 222795, 113420, 139521, 259453, 30163, 19429, 51819, 90623, 44712, 32064,
       62389, 174334, 231265, 97789, 237034, 137919, 21623, 222686, 118439, 31338, 36873, 157944, 31788, 43847, 194895,
       71888, 133983, 244947, 37961, 172211, 40522, 106394, 19622, 13642, 45455, 3115, 250120, 86619, 21436, 165138,
       124322, 10279, 220401, 79550, 184948, 222009, 31739, 143252, 41239, 108849, 161758, 234539, 1643, 255137, 162120,
       33624, 219892, 115341, 50789, 40190, 154759, 25687, 89474, 67776, 79169, 225293, 46879, 73138, 67335, 65441,
       53280, 83419, 12040, 38584, 236671, 252085, 56873, 23645, 235715, 38168, 121160, 215157, 29000, 208456, 36214,
       46041, 177938, 168267, 78949, 86349, 148416, 84985, 232357, 18450, 38973, 232546, 160889, 124177, 93170, 168128,
       34335, 136363, 13534, 93340, 152029, 46668, 10679, 197661, 58991, 87142, 132211, 87048, 60286, 105482, 159459,
       74594, 27109, 32363, 24126, 202277, 156857, 56828, 25294, 49256, 100437, 149740, 129926, 100543, 89969, 32350,
       31136, 245091, 177312, 46215, 233881, 165185, 499, 222909, 137490, 11791, 136869, 72386, 16610, 209920, 77488,
       38489, 122313, 52279, 99485, 177701, 191715, 66879, 132467, 30706, 103888, 192328, 74267, 98947, 237, 142689,
       76957, 99456, 141479, 65517, 177285, 176448, 122070, 23059, 129397, 74615, 101349, 189902, 63284, 184893, 50079,
       113917, 105577, 255099, 9363, 161276, 61711, 85986, 178717, 41198, 14814, 185527, 247236, 107455, 173122, 155820,
       103896, 89707, 122228, 66007, 226411, 15044, 86644, 99310, 170823, 101269, 18434, 171117, 63347, 158558, 1112,
       118745, 187610, 57772, 57282, 104169, 23886, 116919, 45903, 183265, 76381, 112189, 246518, 55868, 146038, 22278,
       537, 18878, 245085, 38739, 27687, 113737, 113760, 53960, 215875, 56192, 63619, 64000, 55242, 189476, 12115,
       64148, 9643, 254383, 37526, 115872, 214801, 64428, 159391, 85161, 49252, 6081, 59076, 119202, 118318, 103031,
       73920, 66226, 146622, 109333, 219107, 38628, 90029, 252039, 199148, 27866, 78204, 111044, 113726, 174796, 61279,
       11438, 198693, 114404, 58803, 225879, 69137, 31346, 152026, 149098, 70458, 121727, 246996, 39328, 25815, 39752,
       94742, 74304, 125362, 122803, 211811, 191651, 92941, 220626, 221867, 46571, 63017, 224080, 78652, 96997, 16537,
       116460, 233807, 85194, 35393, 42233, 2726, 15493, 87763, 235467, 17139, 130420, 165102, 64861, 97982, 3834,
       95962, 147854, 38569, 86148, 22746, 113076, 59492, 53636, 166691, 95590, 144892, 242952, 83095, 186146, 46604,
       82343, 121005, 46157, 26525, 230462, 232601, 40970, 245296, 250163, 45144, 100968, 134267, 105931, 46942, 18395,
       101595, 73995, 225925, 33118, 84845, 130350, 7228, 240883, 181161, 100634, 251511, 136378, 53721, 256845, 69387,
       28810, 10738, 252564, 15337, 166529, 121886, 1679, 168265, 130608, 56063, 99272, 116736, 44533, 137017, 64235,
       91287, 192831, 111088, 128013, 128851, 7600, 27103, 107877, 15916, 31855, 61077, 56888, 44210, 242051, 239304,
       61071, 99006, 103568, 91448, 200119, 156169, 46141, 124683, 173907, 13657, 202786, 73272, 95727, 88887, 23365,
       104155, 71833, 506, 32459, 210917, 49197, 17924, 239699, 46161, 69179, 246262, 188346, 27304, 45100, 66139,
       49042, 91628, 191754, 101890, 75981, 14826, 28784, 87651, 155333, 105678, 3636, 213885, 88345, 38756, 44820,
       28799, 238134, 187981, 68996, 236943, 171663, 80487, 126611, 40266, 26250, 152260, 172088, 18998, 209543, 34984,
       69621, 63832, 93699, 90943, 39145, 96818, 60957, 131859, 253659, 9180, 48335, 12612, 121269, 125800, 223111,
       91090, 133934, 94753, 81421, 115230, 212616, 84361, 125752, 135184, 52246, 8735, 57852, 129027, 89717, 127461,
       17390, 138841, 136459, 96880, 193627, 75181, 55165, 14120, 41492, 115487, 5544, 234381, 94012, 227995, 156255,
       73695, 137211, 121982, 122905, 99626, 240366, 119595, 203477, 133156, 6859, 136712, 175933, 25242, 236050, 201770,
       88610, 203941, 236249, 120827, 88424, 14740, 56404, 56123, 2170, 5020, 195328, 184986, 84318, 67753, 200634,
       25518, 3696, 224718, 72393, 239659, 189144, 50421, 53496, 233132, 73141, 188761, 213777, 122216, 76877, 152904,
       63674, 224130, 167887, 4525, 199750, 252951, 76142, 21573, 216820, 42696, 30967, 96829, 101991, 182338, 223816,
       61594, 121754, 262015, 97172, 247817, 153707, 119120, 258343, 134586, 47483, 256005, 171057, 129679, 194440, 216540,
       19636, 71293, 223157, 84401, 108372, 187738, 4557, 15539, 71311, 27925, 200096, 53328, 83070, 164505, 180219,
       6054, 116310, 21516, 13341, 114515, 196426, 38143, 89311, 158016, 75449, 238731, 66841, 2094, 226885, 181391,
       63223, 35979, 16910, 82017, 127044, 76894, 52759, 122415, 114440, 8865, 179528, 62169, 80068, 146848, 261220,
       79408, 14980, 14296, 66327, 257834, 29384, 90851, 252648, 111590, 27236, 259199, 147797, 88937, 181451, 50767,
       21162, 51284, 172028, 51471, 36597, 35443, 8856, 25024, 140465, 107364, 172404, 92735, 70547, 86758, 258726,
       127277, 94647, 176008, 123512, 165742, 56417, 130883, 106233, 99413, 13273, 41804, 111960, 79505, 184385, 178811,
       53421, 183013, 8385, 69817, 108213, 22856, 40470, 198232, 118099, 6300, 125499, 89499, 92766, 63789, 151467,
       126591, 150864, 66865, 69780, 91936, 36237, 43198, 184357, 54820, 122982, 1734, 213862, 47797, 149776, 84571,
       119869, 44656, 120009, 112157, 29287, 178179, 69299, 54773, 212049, 88719, 14199, 46836, 91792, 2089, 46916,
       84029, 45078, 165570, 21069, 214459, 132194, 90803, 147749, 215097, 421, 209904, 32420, 93065, 247951, 41579,
       72723, 126310, 218713, 34047, 83375, 49588, 105351, 50, 242637, 53120, 189025, 224899, 63671, 206344, 145213,
       3627, 94176, 179728, 52601, 202860, 226967, 21936, 150978, 67960, 36194, 172010, 187388, 33048, 112295, 30158,
       6032, 9824, 50110, 60357, 246686, 157100, 68497, 61020, 64159, 74850, 84113, 60916, 60584, 18286, 166283,
       113970, 164902, 96027, 4938, 199111, 185045, 80453, 31871, 21830, 113525, 160304, 177345, 5379, 59364, 80844,
       65051, 249306, 111147, 77204, 254863, 15596, 25022, 104440, 105272, 33095, 181997, 93215, 102969, 76005, 166066,
       74369, 252194, 32163, 41389, 195403, 111455, 100237, 261225, 2279, 97873, 132052, 253958, 45272, 131807, 9530,
       64048, 5824, 99669, 87099, 216440, 244899, 44990, 94761, 117098, 82445, 136713, 2680, 32908, 192947, 5610,
       38275, 197630, 131974, 40720, 127064, 115569, 122690, 149649, 156071, 109271, 19663, 133420, 74077, 113967, 193800,
       73907, 224980, 96100, 7359, 62112, 23025, 85132, 84113, 230992, 43007, 85443, 37777, 80255, 79165, 178998,
       110131, 30877, 100606, 5963, 145213, 140593, 79569, 7213, 251937, 73950, 236703, 151725, 27101, 80196, 245356,
       84729, 68022, 230966, 72723, 95363, 185669, 100574, 48049, 238069, 14498, 261348, 66696, 58144, 131875, 102494,
       130801, 17169, 22306, 90345, 109926, 99281, 89692, 88247, 125085, 41664, 226, 224075, 12306, 26632, 237860,
       124452, 33226, 261433, 13824, 91155, 80421, 130116, 404, 164462, 16486, 95320, 23680, 22401, 44036, 136176,
       40418, 71704, 224374, 67158, 10842, 145204, 103599, 137716, 42171, 127272, 39, 166988, 47031, 234565, 164135,
       2675, 153342, 130565, 80829, 109691, 10182, 93164, 170051, 35323, 52093, 211869, 178390, 24048, 150127, 163646,
       40110, 19931, 190547, 85956, 256770, 11183, 64773, 140799, 45825, 97442, 19472, 255848, 28596, 2697, 132032,
       110360, 193714, 140089, 20432, 38796, 198320, 43242, 176972, 261641, 77490, 200922, 259729, 96582, 34670, 49360,
       34888, 245836, 256781, 124271, 249028, 181777, 92551, 109605, 88893, 28531, 26676, 126436, 95127, 141632, 185875,
       91269, 222831, 86384, 98655, 211461, 54026, 120046, 83453, 234505, 93286, 51097, 167416, 46125, 153592, 132166,
       103614, 185294, 185607, 91207, 260130, 100495, 75269, 78645, 136687, 46377, 153352, 214699, 120723, 198613, 118059,
       67207, 206999, 242522, 82326, 200759, 14851, 54442, 123384, 89576, 102343, 6332, 158643, 44700, 191412, 160646,
       106251, 123460, 91865, 14148, 25936, 58628, 92925, 13995, 677, 62505, 235159, 248832, 91587, 7077, 184703,
       69651, 23520, 256542, 17603, 209449, 16419, 62520, 61725, 204827, 126426, 176528, 143153, 98938, 122496, 10451,
       39346, 107367, 35308, 123746, 243687, 158981, 102098, 12174, 247816, 47768, 213137, 56715, 79111, 169565, 211263,
       55926, 140376, 21598, 12673, 105724, 216724, 105647, 232351, 132809, 25044, 260051, 60191, 60035, 260978, 143992,
       92096, 48177, 30068, 122187, 29523, 41758, 8221, 166232, 159535, 51541, 238224, 161901, 80563, 27943, 152466,
       102145, 164963, 20090, 120708, 76313, 196020, 65, 48255, 29302, 82282, 52978, 141729, 909, 62038, 201069,
       103187, 32780, 190418, 19617, 26267, 220906, 117259, 187810, 128659, 20332, 116346, 201810, 100182, 33637, 156252,
       37919, 168932, 136875, 73040, 99824, 62893, 79748, 181420, 86341, 27100, 139392, 82206, 39150, 209169, 76601,
       14091, 68173, 17240, 693, 63048, 257815, 31387, 145422, 238571, 67633, 120791, 236179, 93532, 162525, 252755,
       104013, 117225, 148621, 9144, 95421, 236764, 35705, 183989, 233721, 100954, 209018, 84826, 63028, 116699, 129465,
       23879, 160642, 155831, 51408, 71943, 154173, 35393, 241557, 193214, 6639, 67171, 250909, 100090, 35973, 118561,
       38232, 228464, 215157, 123880, 66431, 47274, 116408, 85275, 208304, 93883, 241667, 188874, 42812, 163159, 23062,
       36690, 36673, 42454, 62294, 205376, 3873, 46478, 120303, 234979, 118116, 163537, 173059, 16186, 197891, 110871,
       94957, 108546, 60848, 80071, 121798, 232359, 105683, 133628, 32586, 71104, 235639, 24334, 82515, 40814, 231006,
       126188, 89158, 160190, 12053, 153258, 172553, 13744, 249464, 194576, 51590, 248106, 231942, 61962, 8571, 60794,
       26197, 164704, 92007, 10835, 113635, 207176, 2906, 179909, 137932, 100216, 166579, 136143, 63577, 116051, 197398,
       110546, 150563, 194389, 47295, 172509, 93800, 92202, 23895, 194859, 64031, 94871, 208899, 80225, 62615, 65888,
       48522, 115437, 152460, 10639, 22059, 251985, 124174, 39365, 141882, 109587, 254070, 110936, 40880, 73004, 193072,
       125659, 29141, 242085, 39385, 172753, 250507, 58063, 154122, 75155, 98977, 37045, 161649, 40501, 210983, 78929,
       42533, 238492, 66125, 53750, 75684, 213247, 61392, 191402, 79326, 16202, 164638, 195244, 2292, 174745, 44268,
       120475, 202265, 148106, 46293, 36798, 225934, 13328, 138512, 83525, 99506, 29889, 262045, 38674, 50402, 45627,
       23811, 19276, 111846, 126171, 92615, 63634, 120657, 104298, 232110, 13860, 84172, 56277, 117871, 29103, 178416,
       116767, 206666, 5235, 83148, 194353, 156189, 69433, 214762, 45609, 28500, 26582, 204123, 15910, 20904, 245082,
       79478, 1113, 115116, 107735, 152450, 177629, 90261, 243086, 213180, 23697, 228886, 8888, 38013, 84728, 233798,
       71620, 12055, 132570, 81919, 5048, 196874, 9470, 77182, 41215, 80484, 255938, 138662, 96510, 224322, 209233,
       23770, 245349, 38863, 32272, 99462, 138509, 33934, 24606, 238011, 123182, 212186, 18446, 53348, 109309, 218524,
       69543, 16234, 236563, 94937, 86624, 121898, 48688, 10392, 22187, 13835, 98736, 78428, 85763, 72414, 93208,
       87460, 217183, 120611, 34150, 137155, 208609, 4617, 137277, 120759, 87209, 44206, 51035, 92199, 103287, 127605,
       3416, 98985, 102294, 90856, 240481, 60490, 123067, 64331, 91978, 23433, 195196, 108390, 68330, 248293, 38350,
       91327, 231596, 199786, 30156, 253596, 153161, 98507, 4280, 74841, 113782, 22714, 171072, 106764, 215883, 119139,
       33934, 104507, 152261, 105410, 67458, 88541, 54177, 190245, 221822, 34925, 234361, 139881, 22016, 93361, 109992,
       119142, 4097, 235143, 55954, 82460, 118947, 113473, 30966, 81619, 20911, 230893, 145003, 100531, 96362, 258638,
       14419, 175511, 12688, 2302, 71463, 197882, 130423, 26964, 193742, 9638, 179658, 259689, 60495, 7899, 33408,
       115131, 191079, 197864, 107397, 187727, 165016, 61757, 247214, 133841, 80065, 35511, 205313, 82536, 221435, 224028,
       14394, 256946, 135312, 37342, 248893, 126416, 39450, 121871, 93337, 49562, 3393, 248232, 35902, 240954, 6048,
       32964, 106519, 200691, 46502, 117105, 200073, 49705, 256073, 200177, 63861, 113132, 215793, 22745, 165735, 105092,
       103328, 226272, 108488, 112809, 114510, 137208, 32527, 122580, 225861, 16161, 71540, 93251, 94674, 229640, 74369,
       121142, 172156, 173035, 4606, 252474, 13803, 1892, 40014, 184862, 24041, 246959, 51247, 89757, 31623, 145015,
       126455, 203491, 127087, 98353, 244463, 158437, 75108, 138672, 232020, 91822, 107485, 17056, 30238, 23345, 246164,
       90249, 230932, 77140, 42132, 113493, 62938, 29153, 82259, 100498, 31005, 227498, 69123, 87528, 72407, 34628,
       100561, 212300, 492, 76257, 253292, 194481, 8369, 166938, 227691, 4981, 251497, 173455, 28464, 129334, 232948,
       37548, 6753, 238178, 53060, 144964, 48470, 9965, 39887, 9112, 95048, 2561, 10498, 93257, 127574, 185942,
       45439, 190200, 32590, 73793, 227245, 215516, 13227, 66757, 176897, 54423, 141020, 33471, 112402, 190812, 165697,
       86589, 28176, 231164, 13624, 31081, 35816, 111093, 196007, 24339, 89220, 56670, 241865, 59382, 260722, 201327,
       90713, 198355, 86250, 22651, 235017, 72536, 72153, 95061, 180507, 80992, 243325, 8843, 121601, 96844, 155158,
       8767, 165234, 34685, 49123, 136294, 223260, 122790, 46572, 136495, 28471, 156798, 62749, 106587, 207993, 246001,
       210, 115521, 39047, 3392, 177419, 225088, 42942, 48972, 174691, 100729, 83462, 253046, 13650, 76755, 171496,
       50181, 102964, 78025, 17231, 208617, 69610, 29306, 224482, 202906, 65928, 119210, 42505, 41830, 40156, 212646,
       27775, 213472, 195624, 51576, 114374, 195211, 91888, 177282, 7746, 15652, 97011, 55547, 62861, 105681, 89577,
       36008, 16160, 133211, 49626, 156011, 130160, 107682, 230794, 42190, 121861, 148871, 138966, 31847, 157281, 42180,
       82571, 145032, 26189, 88693, 116503, 211278, 110426, 85159, 193856, 117839, 77183, 110625, 61340, 162761, 167552,
       128788, 40625, 132972, 127248, 129820, 227820, 66383, 201817, 204903, 71045, 61372, 125607, 87523, 80470, 63665,
       48996, 217489, 33204, 86775, 110070, 22283, 67408, 108820, 120501, 4644, 201264, 187180, 111768, 232571, 9438,
       123266, 29373, 10214, 3437, 235348, 133300, 103450, 32798, 18386, 50569, 82768, 219837, 76759, 244132, 255520,
       65535, 88522, 233893, 72261, 102138, 30225, 64905, 15554, 237108, 111853, 161662, 4775, 89588, 154186, 238542,
       54085, 49901, 116442, 90252, 16008, 198663, 126490, 196016, 86812, 10526, 43128, 247655, 50867, 191037, 256745,
       114092, 39564, 4257, 96869, 113111, 4056, 122542, 261986, 34120, 5217, 252075, 50851, 113085, 189962, 221033,
       103782, 169967, 197556, 106828, 208120, 79291, 78284, 110178, 233680, 6804, 227967, 153690, 70664, 219689, 28618,
       53444, 198450, 59338, 69080, 109210, 33965, 97032, 19360, 134517, 78113, 197207, 118325, 38346, 210527, 196926,
       78578, 164225, 155845, 10897, 31984, 153841, 703, 86822, 81814, 52629, 21389, 50100, 99245, 243982, 234789,
       107824, 82293, 88439, 72068, 141157, 179915, 113771, 104490, 9160, 16503, 238889, 257650, 126367, 74099, 58897,
       120816, 254496, 107032, 78543, 58955, 121442, 7696, 216594, 60790, 59533, 72780, 28100, 23497, 174472, 163910,
       82368, 250814, 112978, 24899, 30932, 153133, 63150, 47958, 127842, 26951, 244464, 87032, 23834, 211005, 157272,
       32495, 219924, 164508, 3826, 219628, 210363, 93862, 161418, 50201, 40203, 62809, 249849, 91502, 109797, 240223,
       85652, 182726, 154905, 8665, 135893, 27680, 40899, 5194, 220180, 74299, 142559, 160489, 120376, 178598, 89589,
       52601, 203708, 244333, 66164, 9807, 256921, 98324, 213566, 189784, 105289, 142696, 129621, 121024, 22675, 66704,
       65167, 160938, 129145, 25406, 190079, 125547, 100194, 57522, 238352, 16459, 105141, 87263, 54832, 252586, 135024,
       82341, 36928, 73045, 90682, 255346, 68181, 96079, 107204, 8268, 25366, 177635, 16286, 128666, 189824, 78593,
       23385, 178172, 162117, 12592, 139820, 190431, 87038, 108601, 115618, 119275, 136309, 249648, 73319, 142210, 62282,
       78051, 19308, 174624, 70580, 71534, 47613, 5603, 23932, 192979, 89300, 228177, 252338, 46949, 229409, 136691,
       122640, 166644, 200230, 24482, 247755, 135437, 39598, 241104, 161271, 66172, 84317, 112585, 62567, 230759, 103385,
       52468, 194799, 150962, 41209, 110585, 17257, 19291, 209137, 81511, 107599, 228516, 132552, 58821, 40254, 35462,
       75098, 147354, 228898, 71637, 203670, 211332, 75430, 127720, 133221, 92384, 219471, 206349, 82494, 59187, 98058,
       35901, 836, 12214, 72575, 227390, 64259, 32048, 208549, 258581, 77179, 254927, 257646, 56614, 140126, 62125,
       5166, 169261, 42391, 96204, 254807, 217960, 36001, 20107, 240895, 120611, 187306, 28423, 36773, 52108, 196203,
       130629, 88129, 189518, 60679, 245227, 3357, 3461, 68208, 20978, 9996, 190837, 130105, 10759, 115447, 170555,
       7368, 35806, 79185, 35099, 181454, 106144, 42544, 132910, 201562, 14586, 120790, 144271, 57426, 201844, 146541,
       47887, 68917, 158546, 83404, 67837, 174531, 25672, 94252, 12029, 119797, 237548, 4202, 67631, 247296, 35469,
       81753, 245616, 28055, 5180, 2567, 171277, 73280, 229097, 154074, 48247, 165152, 59661, 121133, 20652, 82105,
       116083, 10657, 155298, 83577, 233415, 115739, 100643, 212927, 52606, 84488, 29960, 80454, 2224, 11619, 112868,
       92160, 53074, 148348, 23211, 167929, 15368, 89465, 246470, 97690, 1377, 38069, 62311, 40751, 46449, 50609,
       67754, 205540, 23040, 43669, 88324, 80171, 90962, 77882, 125909, 68512, 153265, 242031, 125785, 137090, 38611,
       46899, 49800, 171615, 94615, 143210, 153171, 109555, 114986, 160778, 33242, 49962, 144886, 98845, 136523, 101500,
       51552, 118647, 232592, 16872, 137682, 255908, 478, 7794, 101973, 97485, 207077, 219048, 24411, 100638, 223419,
       6710, 13637, 150439, 65170, 49682, 14177, 45442, 106114, 148516, 90676, 128023, 12653, 14072, 118731, 182227,
       17387, 30474, 47057, 52967, 53881, 183688, 68210, 246379, 177553, 108028, 195379, 202273, 76759, 17046, 61490,
       118305, 66146, 220509, 28543, 69682, 178127, 78147, 179411, 157306, 85883, 107177, 36187, 95132, 188675, 29131,
       129584, 111232, 125136, 61346, 33861, 119148, 48407, 119530, 70448, 111700, 113593, 196266, 23172, 88476, 150303,
       4853, 90902, 209150, 58142, 27374, 64318, 32401, 200740, 239997, 51973, 98931, 102534, 129247, 239022, 90870,
       45677, 12926, 173242, 92794, 126177, 239161, 32820, 181461, 222131, 39770, 66082, 171486, 31870, 219550, 30115,
       74994, 70669, 95422, 29636, 132280, 122641, 94157, 110012, 110455, 89164, 235864, 49737, 55216, 172745, 96473,
       3352, 113063, 24072, 2968, 243585, 9695, 69836, 14452, 144119, 109995, 122907, 246407, 78495, 149383, 252344,
       57101, 151335, 252074, 115621, 20903, 247411, 25820, 154008, 64690, 47110, 125514, 98541, 74096, 63039, 60755,
       38229, 183673, 228588, 130772, 44675, 51617, 59286, 159180, 70485, 6779, 87885, 213188, 23079, 158823, 72402,
       69793, 87127, 231632, 72096, 253284, 234330, 128993, 198545, 46344, 78638, 209294, 186805, 87376, 46172, 132025,
       28013, 18586, 58571, 14006, 260509, 185450, 78906, 171910, 232218, 113361, 143731, 210920, 76988, 38675, 249501,
       58036, 126346, 148011, 75786, 183734, 118278, 61442, 217143, 32440, 18596, 184007, 32978, 97148, 137622, 33070,
       69866, 99132, 211121, 52340, 12585, 187570, 73352, 245822, 215684, 31618, 26050, 85469, 56093, 71744, 34351,
       81585, 36014, 237311, 29647, 168843, 191110, 98172, 74379, 260168, 68289, 247002, 69579, 112945, 163039, 243831,
       111048, 260233, 117621, 64817, 88592, 187272, 25620, 17961, 69013, 96553, 29426, 225147, 54876, 257058, 125841,
       77939, 3541, 222836, 14059, 124810, 90214, 82782, 256029, 49060, 48962, 2539, 103009, 43802, 240877, 155942,
       128439, 129693, 139603, 56679, 143971, 143699, 88871, 221851, 136232, 82277, 132000, 185229, 13671, 72095, 70095,
       98032, 93883, 197270, 42357, 32273, 49539, 104718, 158490, 64928, 79644, 181576, 102578, 41561, 213849, 136630,
       46700, 8099, 88028, 95880, 35116, 3, 72097, 98186, 131986, 87602, 28207, 117157, 20751, 25947, 1177,
       103150, 158959, 127862, 41994, 86757, 78392, 81246, 119539, 260730, 15031, 82327, 105744, 42129, 50816, 87255,
       85048, 87513, 84461, 35940, 195604, 103339, 115384, 73466, 126630, 86668, 138614, 96291, 114069, 33965, 342,
       51824, 170426, 128004, 4454, 131232, 257687, 75515, 214244, 60408, 44458, 202057, 201664, 58744, 248200, 71012,
       89274, 125294, 41461, 91837, 136116, 67365, 3611, 229221, 39186, 100834, 10468, 150004, 64686, 134013, 144209,
       72967, 162953, 57167, 39058, 181886, 80917, 55159, 137887, 103511, 93110, 75906, 173745, 101805, 113135, 256647,
       50738, 204833, 148723, 90586, 41219, 114662, 33822, 72837, 151335, 109054, 229315, 195425, 79929, 149925, 245922,
       101605, 64758, 120571, 62541, 167982, 173779, 30029, 212913, 172893, 56260, 47312, 226012, 50002, 14057, 128024,
       43609, 215687, 81048, 27810, 9820, 250407, 99505, 145652, 150071, 11318, 74698, 161639, 116334, 101240, 140521,
       22940, 220326, 183110, 128433, 261959, 82753, 129560, 126877, 104731, 52217, 101258, 64907, 129475, 179210, 10926,
       113910, 143837, 165529, 10804, 78973, 128244, 124168, 65402, 213008, 5572, 116808, 146288, 23843, 228146, 72148,
       76624, 27978, 154976, 10582, 100518, 103549, 21197, 257048, 261672, 124976, 19797, 55909, 130375, 191482, 146149,
       104613, 92485, 134038, 67529, 137719, 121551, 118004, 64026, 217987, 14666, 208587, 68209, 123586, 189552, 150201,
       46078, 195377, 228887, 112917, 36041, 152084, 87605, 10241, 206328, 125865, 19288, 227512, 113335, 17818, 221112,
       116378, 142139, 33654, 82805, 80469, 33698, 109203, 197911, 108019, 99238, 181978, 110718, 21184, 69996, 19551,
       85012, 233765, 51263, 19421, 174386, 253772, 113961, 92486, 116058, 8644, 45114, 194882, 129374, 47488, 221911,
       52510, 245991, 192899, 22364, 191535, 21564, 122640, 207476, 21573, 5954, 19625, 253217, 61617, 179759, 13449,
       100955, 55079, 110619, 41517, 31015, 202600, 69315, 109537, 206541, 91804, 140214, 22007, 124777, 118870, 28942,
       13461, 115431, 14594, 20608, 4852, 28232, 66698, 190309, 251157, 54850, 91778, 176836, 53843, 229211, 175549,
       38923, 88634, 66660, 73490, 20423, 178921, 115774, 96678, 41954, 21092, 176989, 242205, 28218, 2563, 178592,
       87926, 46531, 131174, 7365, 246138, 54286, 88311, 162834, 186081, 41216, 103967, 228749, 46904, 165280, 226685,
       53156, 43915, 225727, 45821, 36925, 147439, 110259, 7203, 212099, 124003, 22242, 128968, 71828, 251682, 137868,
       76267, 256533, 244609, 9238, 94878, 184842, 93479, 129088, 171280, 76559, 1960, 23487, 6605, 81533, 54813,
       26008, 12854, 20866, 26469, 33553, 216922, 22409, 29202, 22707, 86330, 11157, 256959, 121692, 114626, 29039,
       100004, 183984, 144940, 62570, 77975, 201949, 52959, 212789, 261516, 50653, 219356, 161973, 78806, 168096, 258084,
       47083, 201905, 187388, 29638, 67897, 78841, 79015, 216386, 246860, 51210, 141544, 87212, 1851, 96889, 229332,
       2913, 229773, 205434, 35931, 166172, 93314, 67164, 53093, 2867, 46430, 230883, 21292, 3152, 250854, 114991,
       29248, 248506, 240933, 12637, 228491, 179108, 124339, 24558, 76151, 41003, 206559, 50147, 1935, 120024, 174563,
       86581, 90849, 194683, 30467, 109172, 7609, 74283, 66694, 137737, 19758, 133228, 143451, 128976, 152765, 119840,
       127173, 212887, 139813, 85981, 13073, 220893, 92694, 121122, 254189, 55820, 209201, 61618, 126114, 202155, 173482,
       55540, 104732, 28864, 31387, 144010, 117926, 15122, 237271, 66520, 27279, 104690, 147775, 75001, 44141, 164477,
       32124, 173448, 146268, 85753, 204756, 228373, 50093, 180719, 144152, 116244, 53859, 210901, 73200, 219482, 100530,
       81605, 251251, 109111, 72949, 106560, 255330, 116073, 70876, 19415, 8312, 138833, 120224, 8827, 138867, 16009,
       91978, 130385, 238707, 100658, 147998, 116336, 56831, 113307, 79097, 46177, 91286, 112275, 36430, 213835, 129613,
       30722, 158984, 9943, 119532, 61935, 211587, 38684, 139099, 5267, 84944, 257929, 241490, 103166, 22820, 209630,
       2879, 53312, 78388, 4439, 249711, 111335, 43664, 258447, 244989, 91228, 46042, 164528, 34183, 104522, 90648,
       194, 109535, 46105, 37768, 31861, 94799, 11813, 164206, 200613, 28758, 246629, 126407, 43671, 230626, 225864,
       16784, 192320, 68260, 92584, 167131, 127199, 33543, 256022, 212465, 86651, 4596, 147843, 78516, 113792, 202383,
       117708, 162047, 188673, 11525, 151195, 165436, 28129, 29982, 27821, 113400, 174863, 154211, 107758, 108593, 135062,
       25179, 172907, 213418, 14121, 45759, 73544, 112229, 73728, 47969, 23348, 238913, 230889, 114178, 23958, 109551,
       125975, 59212, 67670, 28941, 148827, 98978, 110151, 74316, 260957, 55552, 101876, 3886, 103386, 200720, 223685,
       53398, 38888, 84640, 9226, 233810, 196405, 93414, 103487, 30393, 19751, 16098, 30603, 121507, 8521, 129397,
       54754, 220412, 208608, 10747, 242060, 81384, 29947, 87161, 249357, 113051, 238329, 257083, 42085, 82490, 13714,
       112240, 163304, 182491, 22581, 253591, 112800, 61370, 74945, 71233, 115115, 59797, 204, 6344, 135838, 98043,
       39882, 57383, 172982, 119256, 17702, 216434, 78187, 235621, 176211, 93877, 256344, 177116, 110379, 120246, 75359,
       68628, 217785, 6987, 110803, 209552, 86707, 83724, 39270, 239692, 89869, 150957, 69010, 20034, 246191, 251778,
       123079, 19919, 34104, 104344, 96463, 210483, 33317, 256273, 212125, 76021, 15967, 198482, 49344, 36459, 131563,
       86560, 55256, 213073, 130252, 101248, 121318, 5996, 18813, 35198, 124849, 46733, 200722, 9488, 124960, 148586,
       60393, 89744, 187676, 63191, 4493, 51405, 35222, 65985, 34843, 74278, 107170, 89972, 109309, 91380, 127844,
       38530, 55316, 132632, 9228, 30405, 142292, 82874, 180672, 100823, 98532, 193348, 249640, 125111, 62898, 217283,
       20909, 56232, 206107, 118143, 10572, 122867, 63192, 232889, 75581, 30901, 79598, 64749, 126189, 96334, 35668,
       31251, 105210, 236231, 96133, 261177, 109423, 102876, 178210, 122756, 56428, 260371, 190025, 90437, 181814, 184271,
       75035, 187479, 179037, 25170, 30651, 180575, 99600, 6418, 113982, 121636, 244353, 225412, 64046, 201092, 209223,
       130326, 61242, 92646, 56094, 70667, 166960, 62880, 8505, 165273, 88329, 24890, 256826, 24349, 69296, 35148,
       118219, 227387, 222177, 105024, 112215, 28215, 114349, 125452, 37242, 79896, 16287, 191410, 115834, 160633, 99824,
       89125, 92760, 81837, 67051, 81331, 245725, 122131, 179374, 163369, 57634, 248915, 247524, 65610, 181429, 159477,
       22222, 114265, 37155, 124211, 147256, 218055, 28973, 218552, 72467, 26399, 259002, 98196, 13263, 204253, 166811,
       59422, 191360, 63367, 35863, 54075, 128192, 97095, 169686, 64395, 40307, 124204, 187364, 94472, 209648, 74731,
       25685, 2894, 131938, 30142, 21764, 210585, 105666, 225327, 212907, 48639, 255338, 48945, 14650, 114958, 33675,
       126013, 31336, 219511, 23251, 37939, 245842, 19686, 166916, 223427, 46973, 223820, 143041, 12534, 238393, 244833,
       20396, 248939, 120190, 110945, 48834, 80720, 22479, 195714, 131738, 14604, 245188, 163763, 115337, 208214, 49776,
       58169, 77571, 98371, 20599, 173292, 20007, 76220, 171088, 148613, 5440, 66438, 230863, 56017, 232312, 31185,
       77373, 160917, 70721, 125451, 166882, 144391, 42790, 102110, 3825, 100276, 203771, 37680, 17393, 60295, 68821,
       56830, 132588, 39540, 29246, 187515, 132975, 64548, 195083, 96307, 54687, 108581, 111643, 128422, 101205, 131185,
       120258, 78009, 187999, 76310, 233748, 217869, 23135, 128348, 146094, 73001, 122363, 126989, 103819, 211913, 35173,
       4984, 75922, 112959, 56889, 24847, 213171, 5589, 214019, 194626, 31976, 14362, 247345, 12073, 171091, 195373,
       125904, 240283, 62048, 22128, 185906, 145469, 19674, 109069, 24818, 127409, 49431, 67415, 67628, 226669, 68028,
       99350, 160965, 241307, 42901, 206034, 52012, 69843, 31050, 133541, 898, 86441, 220245, 53584, 171620, 139909,
       72756, 190968, 252510, 67424, 201575, 175635, 53191, 156773, 92098, 103272, 166016, 105200, 65751, 17414, 138581,
       83377, 154474, 259428, 24198, 173268, 39125, 112918, 141724, 181664, 47557, 174072, 45035, 63190, 75347, 94230,
       46162, 229161, 91807, 116904, 15040, 38679, 118061, 213003, 46187, 29397, 104232, 221853, 98659, 210305, 204244,
       13485, 39872, 237475, 3912, 143001, 222380, 109652, 197374, 181534, 17193, 204967, 174258, 20287, 178361, 155094,
       79506, 193022, 115997, 107055, 126615, 175743, 24851, 97462, 247018, 14967, 106060, 97481, 10134, 208265, 107325,
       3256, 175337, 120538, 15267, 40666, 118074, 123560, 134734, 107402, 12488, 227931, 117382, 78323, 65496, 176067,
       120712, 237640, 229774, 82289, 168163, 60345, 4292, 13510, 22276, 78173, 39463, 854, 118366, 150968, 68114,
       42278, 120021, 154058, 41107, 220196, 249494, 32619, 12661, 21310, 66262, 194012, 218316, 31187, 169010, 223976,
       94868, 115826, 253446, 84523, 83612, 227848, 52530, 52248, 235039, 94706, 193078, 75047, 12910, 28279, 126609,
       98242, 48991, 173651, 79024, 99923, 37395, 82586, 58374, 196595, 8475, 157421, 144533, 81020, 50399, 22082,
       64765, 147300, 133847, 63682, 254254, 113242, 42185, 253969, 177135, 997, 253471, 140534, 55395, 243610, 30870,
       52548, 233659, 231421, 55417, 249128, 11541, 80215, 72988, 229208, 39309, 80560, 240174, 35308, 164484, 93773,
       65245, 49247, 49859, 77636, 68793, 155881, 74360, 228468, 171265, 115558, 142967, 18648, 100813, 65540, 7802,
       6840, 166224, 235500, 73855, 222721, 75724, 54763, 195052, 132359, 47323, 187467, 65118, 125553, 87086, 55874,
       59873, 35863, 70702, 94297, 201995, 246104, 126758, 6114, 214521, 19791, 233259, 36513, 7158, 173726, 19955,
       41106, 217766, 186603, 5825, 104529, 76383, 15304, 149717, 81531, 129985, 102198, 207551, 125852, 149266, 76870,
       90609, 29201, 143323, 98695, 134220, 238359, 18414, 151414, 154953, 78018, 188065, 30666, 20239, 49082, 144002,
       49595, 217645, 195266, 45265, 16559, 22097, 80473, 6702, 191431, 10445, 140287, 73772, 13560, 257013, 136687,
       79944, 261402, 56706, 83377, 55975, 186317, 44549, 18151, 61951, 19250, 181524, 172968, 116140, 69919, 193795,
       6940, 27480, 217942, 94027, 221208, 132775, 18355, 246754, 186539, 83541, 228832, 36563, 86986, 183282, 228182,
       105415, 240948, 125297, 51776, 190731, 159883, 2856, 237681, 216206, 106305, 226785, 110530, 58204, 231587, 115967,
       111029, 198399, 149209, 101709, 235751, 224341, 65314, 18788, 142635, 130993, 73226, 31579, 60565, 27393, 84896,
       91292, 66468, 240326, 87792, 137962, 114315, 67904, 10609, 189511, 76723, 8671, 214635, 104675, 64913, 22456,
       74922, 129561, 24389, 59001, 219852, 96661, 86780, 124286, 27282, 4654, 62989, 18968, 14312, 68048, 141168,
       16439, 232385, 251525, 55806, 57461, 17180, 114265, 84996, 257646, 84317, 238424, 213857, 127483, 12911, 91070,
       5235, 37418, 84045, 94634, 237865, 50236, 41183, 6954, 195844, 3052, 18014, 227470, 108255, 226257, 76355,
       21324, 148930, 103681, 28059, 59394, 154477, 44625, 141826, 122816, 103331, 142611, 233383, 81866, 88183, 116637,
       34715, 230371, 145187, 22084, 61486, 172444, 14358, 185210, 15660, 19636, 198666, 113076, 113789, 136709, 53364,
       120937, 250369, 239984, 126872, 43452, 154747, 109409, 256262, 25998, 116312, 6470, 25371, 106968, 83365, 34674,
       125574, 74910, 98206, 110841, 41998, 30686, 60555, 161345, 185253, 42369, 154531, 174713, 76573, 215140, 108767,
       79715, 211063, 65703, 75355, 52021, 3655, 92632, 9225, 174561, 91616, 67672, 97497, 11428, 191150, 221222,
       37423, 261828, 60699, 116635, 197783, 180265, 77337, 19556, 172868, 43060, 102037, 74124, 111471, 82868, 125068,
       32642, 123329, 91637, 53634, 168984, 49380, 36209, 69581, 147806, 114209, 151312, 65522, 95458, 66782, 219443,
       60322, 182372, 108437, 122198, 140172, 3173, 121562, 11082, 61739, 93261, 2157, 59239, 116915, 102104, 96889,
       94292, 77387, 183044, 82340, 258448, 112759, 55152, 228517, 170984, 35844, 59941, 125960, 7898, 13767, 31697,
       104971, 164863, 199569, 16012, 41767, 182385, 53785, 77508, 151630, 30753, 255781, 170580, 59588, 204019, 69625,
       41285, 146793, 55655, 108749, 165626, 225113, 128211, 215057, 101437, 123411, 122570, 128757, 81575, 70777, 48442,
       128355, 192842, 28959, 52523, 136383, 120415, 68483, 124322, 168862, 33665, 215271, 36316, 117700, 96063, 182263,
       23554, 218608, 150684, 80017, 213412, 83430, 104786, 13171, 81558, 78040, 27405, 157710, 10325, 59075, 232020,
       80143, 148187, 196822, 100542, 162767, 66495, 24619, 3260, 86643, 96593, 231928, 44370, 115156, 245721, 97075,
       129297, 23021, 140779, 53747, 75451, 675, 3298, 21969, 255074, 54929, 137034, 6423, 86537, 100523, 62439,
       116832, 261684, 161986, 122959, 105489, 192214, 119219, 240532, 75926, 86240, 27080, 111331, 89459, 173077, 48756,
       312, 118062, 106985, 47674, 257303, 209623, 118863, 120738, 91634, 90389, 148500, 92414, 61331, 80919, 231648,
       13664, 150083, 164320, 32285, 57157, 47218, 72734, 210830, 188986, 117637, 83464, 62838, 12558, 82845, 138475,
       20153, 8809, 104147, 85852, 216365, 198012, 38554, 208039, 67279, 22243, 108884, 103949, 23387, 251347, 219491,
       64567, 209917, 77258, 76512, 138183, 113087, 118534, 234174, 53855, 69444, 52058, 240984, 90606, 160136, 225196,
       23682, 227853, 127512, 93514, 174778, 51857, 85025, 148396, 212419, 28335, 108868, 250115, 87736, 168584, 193705,
       27720, 179629, 237069, 77801, 111710, 47417, 87667, 122809, 198093, 90878, 220875, 251244, 119179, 102457, 59087,
       124234, 245837, 31733, 106194, 69734, 209743, 115179, 71484, 87452, 2533, 124614, 145629, 47535, 166290, 102692,
       5206, 123233, 80301, 29470, 243972, 29317, 50033, 97107, 110889, 113714, 224726, 37881, 67076, 165566, 88855,
       85047, 135185, 65285, 47554, 253133, 44567, 79025, 103213, 219679, 106893, 262140, 179763, 39484, 81374, 91227,
       122192, 196585, 208323, 27959, 111812, 256717, 120494, 173237, 251360, 3709, 4158, 150982, 71139, 164246, 30931,
       129128, 152754, 74648, 79924, 240457, 196633, 72726, 215653, 253453, 89452, 194034, 116621, 37919, 111208, 114588,
       7066, 207440, 193305, 32907, 129307, 117021, 23101, 18007, 100502, 121054, 17564, 185758, 111707, 180517, 214805,
       41643, 103322, 249912, 109585, 72381, 195577, 27754, 222404, 175756, 26159, 66044, 29096, 100602, 105839, 64953,
       42851, 117768, 79365, 8492, 131290, 209873, 94370, 21269, 99524, 129709, 8412, 153156, 74183, 217851, 149766,
       34559, 114408, 38454, 48877, 129782, 206225, 85019, 208389, 255327, 91931, 59906, 238727, 116173, 88373, 219212,
       119122, 228044, 123298, 112889, 130326, 233347, 84999, 703, 28486, 58963, 13059, 56459, 89037, 243387, 42315,
       87368, 17728, 4646, 28571, 119920, 197223, 66526, 18169, 258313, 27291, 32909, 64013, 117849, 249619, 27173,
       42368, 196575, 136762, 105568, 208466, 225138, 49443, 237461, 222942, 100104, 111030, 56002, 28955, 114631, 11371,
       100105, 92014, 188433, 23531, 163269, 238662, 64332, 114461, 242467, 14893, 74630, 149742, 69192, 172293, 157988,
       107572, 175976, 1414, 99031, 13149, 99661, 6647, 90362, 105368, 64510, 183141, 222624, 111702, 229608, 56517,
       85210, 95599, 114490, 7759, 166536, 143465, 42681, 63065, 205344, 72952, 250787, 221244, 22629, 202941, 56308,
       89379, 220362, 134052, 83210, 154289, 170006, 26534, 203604, 122309, 72141, 199764, 165817, 106393, 150617, 16882,
       49129, 74761, 179526, 32373, 6385, 110442, 91910, 100402, 27698, 9280, 121384, 198556, 109140, 57997, 105576,
       123661, 14092, 36273, 126456, 147414, 127897, 56693, 188640, 80567, 81684, 116069, 220022, 112376, 127736, 179091,
       29284, 164947, 2585, 3631, 11586, 162646, 50405, 226813, 94485, 115916, 74304, 20480, 66200, 205937, 191004,
       69496, 224924, 167302, 90632, 232274, 148822, 75303, 33122, 94248, 7140, 94904, 134821, 73513, 15289, 24753,
       84929, 68813, 190403, 84095, 63383, 258905, 95465, 137787, 205024, 68146, 259669, 72351, 117972, 132838, 152285,
       60851, 148667, 218750, 67919, 193302, 140316, 102276, 61888, 242696, 109213, 203092, 169961, 84982, 8965, 248016,
       16563, 259451, 218981, 43509, 163810, 39171, 2641, 217201, 197511, 38725, 51709, 34825, 74743, 15661, 154031,
       105543, 53337, 217509, 76762, 75268, 66693, 5229, 18956, 233465, 33961, 157786, 184845, 75767, 183687, 70087,
       92936, 79420, 182475, 113567, 219946, 160918, 126831, 50795, 181512, 116888, 67115, 181653, 61253, 160929, 133573,
       97901, 142836, 145226, 31526, 120526, 124548, 8366, 112695, 24832, 7218, 1523, 128618, 31628, 109760, 75681,
       4920, 153383, 176381, 111446, 237460, 87622, 64214, 234231, 109715, 106286, 76056, 201871, 123194, 90949, 98899,
       130273, 129631, 201191, 122835, 251933, 155224, 93920, 139596, 159114, 57931, 41137, 61670, 78379, 18042, 45384,
       107019, 212843, 208397, 117644, 69230, 151112, 125366, 61634, 123463, 95761, 249085, 201304, 70772, 207510, 181758,
       126926, 109248, 104031, 125648, 233567, 98390, 62593, 211164, 84897, 85020, 249707, 158180, 106072, 69103, 102627,
       56764, 142782, 88390, 108708, 48309, 27645, 14608, 181322, 71970, 63065, 135883, 212626, 63256, 258330, 249558,
       89739, 96905, 192467, 15258, 127420, 67263, 13527, 261602, 52310, 118042, 200081, 217930, 39812, 322, 34257,
       42850, 96985, 80878, 101824, 208836, 158075, 54382, 250919, 81940, 109172, 257503, 86826, 52621, 81141, 190990,
       99693, 87177, 173007, 68853, 111881, 215331, 122660, 226538, 104141, 42911, 138271, 112213, 47538, 152482, 20753,
       127138, 19046, 165740, 96668, 233213, 251819, 101261, 248042, 208183, 38794, 69320, 218358, 69736, 32307, 3915,
       41096, 116402, 260415, 34061, 140178, 123031, 70155, 34850, 170071, 129467, 199371, 114914, 28131, 5142, 34818,
       31787, 147579, 76566, 31867, 105581, 52491, 103769, 261838, 101328, 66909, 237165, 119867, 50432, 69809, 194926,
       110597, 57978, 113966, 38992, 181652, 261441, 51408, 205629, 185203, 9649, 155699, 217064, 15585, 205749, 193411,
       17921, 161055, 82988, 45478, 193581, 13606, 68692, 236784, 231284, 97, 146496, 223408, 24894, 211794, 200202,
       23022, 209570, 25623, 33206, 177776, 191547, 21768, 146575, 27293, 25575, 220453, 4116, 128959, 43692, 35747,
       77952, 127016, 22370, 99967, 188351, 109506, 107392, 255622, 12065, 87514, 60624, 247833, 92285, 54828, 54228,
       82874, 171872, 170448, 85114, 178392, 206828, 121693, 196556, 123299, 24345, 29687, 61084, 36009, 108856, 215450,
       12223, 153225, 259830, 109749, 207620, 151648, 58819, 67575, 26227, 118896, 2348, 218248, 53959, 41703, 158635,
       58014, 84653, 171254, 58766, 257775, 218421, 80280, 182079, 143305, 100417, 110168, 94911, 46044, 152362, 22767,
       82597, 12140, 37486, 26734, 110066, 146765, 72620, 16274, 57087, 71641, 255850, 138498, 116485, 200787, 43458,
       117420, 59029, 183244, 63859, 194233, 37657, 3224, 78952, 36135, 110706, 75579, 28864, 81, 154261, 199515,
       62685, 173149, 153101, 2593, 245246, 143407, 46214, 221808, 237875, 83462, 5487, 60067, 48654, 11734, 236859,
       121489, 132160, 68382, 83986, 44816, 234012, 84730, 181210, 151418, 49078, 55702, 208229, 5051, 256066, 157321,
       96754, 181591, 195609, 93879, 164972, 253361, 69484, 143534, 47212, 54561, 22135, 224031, 70558, 76645, 86456,
       97886, 154311, 209564, 93426, 55570, 103081, 86259, 196519, 12961, 118459, 234354, 242318, 79939, 75861, 189398,
       1901, 211949, 120422, 81010, 226247, 39298, 80289, 95800, 34141, 9127, 92070, 261653, 56063, 103378, 132472,
       85340, 128253, 71022, 92340, 101042, 208875, 117053, 209840, 214140, 110281, 127901, 721, 15276, 177930, 63089,
       79794, 155285, 203018, 78182, 3022, 24169, 39812, 222053, 59538, 24131, 27030, 69910, 26149, 261869, 47443,
       23271, 141868, 10677, 105678, 155207, 210186, 19450, 45596, 63251, 34654, 100992, 16415, 28545, 252118, 249100,
       93435, 149615, 108935, 20761, 69905, 230425, 3154, 63299, 122068, 49050, 124387, 200505, 39989, 82574, 190361,
       52127, 249322, 585, 98804, 35797, 161518, 1620, 250474, 15375, 4942, 107682, 49090, 33507, 223658, 24335,
       116550, 87743, 47223, 22160, 244565, 62763, 130683, 198985, 257241, 105603, 192943, 66774, 59786, 191441, 157570,
       98023, 209770, 12367, 68002, 35666, 50737, 74185, 193491, 88442, 76122, 239535, 225270, 85029, 24919, 248723,
       7964, 126855, 155845, 80805, 167669, 257110, 93971, 231871, 253509, 40727, 26936, 195609, 128264, 74571, 138405,
       18932, 185155, 235008, 119333, 136921, 46487, 88663, 151204, 53299, 87073, 7152, 167596, 114822, 11031, 73176,
       109016, 107789, 82043, 45276, 204973, 28224, 92454, 60484, 67036, 6632, 152493, 227524, 60819, 215993, 54621,
       122916, 89421, 248295, 35925, 118515, 231482, 6549, 202182, 87468, 76407, 200798, 11247, 46543, 166761, 131695,
       49765, 228535, 68967, 76343, 217165, 218472, 81472, 241483, 161492, 57320, 174239, 256073, 66525, 129570, 132994,
       130188, 4862, 77523, 125455, 77897, 139658, 92709, 121441, 255565, 21165, 116537, 107963, 47180, 180388, 192671,
       115748, 36623, 127163, 55517, 165613, 136056, 125221, 248653, 215025, 64002, 181229, 106972, 112953, 210752, 237511,
       4637, 48003, 138876, 56906, 184497, 252693, 91784, 189084, 218229, 113189, 34179, 51929, 79905, 210377, 226590,
       22709, 209784, 117040, 116102, 213077, 76718, 75341, 238775, 251603, 14158, 41711, 246812, 60797, 85145, 250257,
       91611, 238151, 158751, 59115, 140483, 73152, 114136, 52675, 13826, 55534, 120900, 83156, 76474, 81506, 121988,
       27678, 139300, 21463, 67198, 216340, 103520, 29210, 92622, 179531, 29515, 191327, 99489, 36687, 101192, 4158,
       5793, 75073, 146637, 21405, 84243, 39383, 55621, 208636, 32731, 17178, 94813, 252619, 17483, 1578, 12543,
       126868, 199389, 57653, 55980, 132537, 31111, 52918, 13737, 165394, 35092, 169804, 22797, 67167, 124266, 93711,
       78127, 109783, 83455, 54812, 108195, 213304, 51617, 70744, 127648, 91806, 85531, 255756, 124489, 34534, 123005,
       115057, 234484, 161897, 15547, 208568, 3014, 85499, 105392, 261175, 923, 195209, 171381, 82980, 158712, 185249,
       60863, 197553, 184160, 64371, 44563, 168819, 77073, 181527, 126543, 97341, 85494, 176831, 95611, 129265, 125710,
       5829, 250510, 211280, 96533, 207670, 214967, 108765, 167829, 98952, 8935, 136899, 122480, 42329, 67330, 31529,
       103817, 110802, 167778, 64632, 130166, 259021, 91080, 199798, 149415, 65839, 140911, 47849, 128217, 150193, 29517,
       122708, 183093, 163091, 36850, 70555, 79972, 50578, 182283, 75700, 56537, 100303, 184927, 13658, 70864, 197536,
       52962, 238927, 220533, 101560, 223770, 258833, 111004, 102079, 111078, 116147, 50296, 98275, 1908, 72684, 207498,
       103390, 100954, 128992, 65880, 109015, 111755, 27021, 181254, 126526, 65371, 133061, 218946, 110658, 237997, 165666,
       56917, 244614, 189930, 129821, 187369, 18094, 80829, 235505, 40596, 64194, 79597, 261987, 38651, 192409, 9843,
       1448, 127108, 253097, 80025, 208196, 224616, 75693, 130089, 128453, 67739, 233614, 161531, 70477, 261670, 3974,
       110562, 43052, 16150, 41532, 203099, 85513, 72122, 231983, 211613, 89122, 24960, 115973, 27501, 101289, 241137,
       121217, 243890, 173682, 96616, 32392, 102543, 6985, 140165, 152188, 113391, 69497, 144611, 121879, 246334, 206541,
       104027, 241319, 127445, 55866, 29096, 52290, 130334, 254017, 127423, 16310, 16307, 90615, 70334, 219, 170227,
       22333, 121496, 64384, 57586, 85534, 23630, 121559, 94035, 204142, 104105, 103447, 197581, 102509, 11597, 83875,
       46380, 85302, 67561, 122456, 173197, 258209, 48268, 182636, 112037, 5239, 104377, 1867, 83597, 232540, 246109,
       47532, 248615, 159511, 20149, 7484, 110723, 122507, 131467, 188873, 83524, 68211, 42686, 123277, 28170, 237975,
       76412, 47669, 195572, 8370, 193355, 252848, 3924, 95161, 181414, 118038, 101818, 259339, 5076, 38834, 179523,
       80632, 84433, 137923, 39056, 74719, 186963, 90132, 190738, 53400, 37319, 36222, 58371, 4878, 205606, 35016,
       95792, 120666, 167613, 40750, 165033, 204064, 72194, 83098, 6457, 101432, 36896, 238881, 92120, 119489, 213093,
       45687, 239049, 124856, 98019, 35619, 165431, 121330, 225693, 159571, 79950, 154609, 256560, 92209, 248088, 12807,
       113496, 81706, 36525, 110577, 173763, 255403, 46085, 23382, 66316, 129984, 47348, 164189, 3744, 53151, 219398,
       129329, 192635, 183312, 32243, 88150, 115830, 57728, 252989, 56605, 115826, 222886, 106253, 32024, 175511, 146647,
       29462, 151643, 164018, 84293, 144618, 249258, 92464, 212675, 5714, 979, 51778, 151322, 59040, 164337, 131514,
       64108, 128961, 109578, 35629, 257765, 172850, 71579, 181538, 228671, 20260, 208648, 117223, 42415, 172926, 49040,
       93485, 181618, 190613, 114528, 248798, 175587, 77251, 20780, 18148, 9810, 6150, 9711, 88964, 151687, 127778,
       117649, 246829, 119779, 66101, 118028, 176763, 64709, 50693, 179529, 129946, 146980, 121376, 83400, 215904, 57484,
       105647, 215010, 77566, 84737, 50882, 185362, 28955, 225671, 189548, 37234, 182382, 44108, 87255, 100980, 179454,
       59778, 40674, 122937, 52998, 176569, 132532, 2942, 215596, 9228, 115916, 5872, 149779, 115932, 234437, 227083,
       60420, 106760, 195023, 91847, 75904, 151466, 23307, 36263, 29396, 66035, 135951, 160742, 57522, 261466, 100507,
       86063, 171429, 253081, 61557, 112080, 240764, 65330, 204026, 38614, 38759, 163359, 36017, 6346, 241569, 234621,
       120196, 104932, 145269, 1603, 58551, 139191, 36873, 198049, 234436, 58669, 63030, 233839, 41824, 19152, 187725,
       72340, 256655, 261565, 60504, 141852, 136984, 33485, 204783, 134754, 11536, 255485, 7347, 18027, 6025, 168860,
       63742, 247494, 204117, 110879, 202645, 85997, 13190, 246636, 22195, 88762, 208488, 191799, 103820, 254454, 226613,
       36277, 25182, 107306, 87587, 127613, 145823, 90001, 165183, 160862, 92771, 212032, 220254, 116760, 33883, 50891,
       52235, 159468, 194792, 31940, 215653, 134674, 71282, 218765, 101217, 8198, 89227, 186879, 43767, 179349, 75162,
       115766, 21969, 244087, 69737, 222438, 185482, 57235, 237365, 115133, 34823, 189148, 71959, 32817, 63372, 55843,
       31013, 55276, 174115, 108689, 82666, 140530, 129108, 154723, 182169, 70097, 26278, 230803, 10463, 242655, 21302,
       98440, 49762, 127263, 114957, 72715, 57486, 122057, 246108, 29047, 82414, 220765, 142466, 66437, 231886, 138116,
       81333, 198223, 69104, 1697, 124900, 225398, 85907, 50828, 118550, 93014, 202390, 14541, 94637, 252110, 155695,
       73802, 247586, 118294, 91756, 56580, 155465, 83733, 10254, 129330, 15142, 141831, 222786, 117750, 191155, 45374,
       81622, 36670, 186803, 95393, 121563, 131087, 44942, 249826, 4195, 120486, 147291, 41488, 65878, 223793, 229452,
       88998, 176511, 182416, 124804, 106704, 222020, 120072, 209071, 87122, 84515, 16902, 154669, 21724, 14593, 217721,
       124592, 237341, 35049, 128992, 166230, 56123, 13552, 107913, 115827, 59021, 109521, 79100, 71860, 249892, 145476,
       12069, 81703, 9077, 24861, 191453, 23430, 70478, 31724, 144278, 126234, 15757, 34101, 3645, 28616, 244450,
       119595, 193623, 189741, 117782, 97010, 64047, 112352, 30951, 170235, 49486, 93145, 130774, 64333, 58371, 84747,
       52899, 250757, 252787, 124202, 4358, 216379, 68334, 122797, 111689, 10566, 14638, 252069, 35921, 149923, 185301,
       60559, 161817, 20289, 124984, 126657, 181858, 74573, 146105, 254459, 91235, 165377, 47220, 11602, 124106, 200700,
       114992, 161833, 243677, 70650, 51483, 256448, 120747, 65664, 16589, 58389, 136343, 16607, 89533, 48666, 103569,
       61713, 198222, 4098, 18685, 92520, 103676, 35658, 35313, 148295, 8815, 143680, 88735, 57706, 154690, 179552,
       85110, 129704, 211072, 31943, 189882, 39593, 64276, 37634, 201974, 60158, 144930, 81762, 69916, 128603, 149135,
       24193, 231073, 208356, 69990, 95010, 87678, 47737, 39515, 99345, 37492, 20244, 139426, 76805, 218770, 53776,
       19403, 125805, 39196, 118051, 34249, 196291, 122533, 7314, 239977, 86587, 113576, 191768, 39735, 23979, 214047,
       82051, 220566, 246362, 78842, 231684, 31342, 51282, 12757, 1881, 37650, 18666, 176971, 22079, 121992, 200673,
       28492, 245020, 186783, 85593, 245927, 158228, 116115, 246877, 30134, 50456, 251666, 199150, 15977, 159706, 177475,
       1678, 143542, 52066, 53202, 227022, 9232, 30483, 4043, 211926, 42278, 859, 148282, 31676, 40315, 117055,
       87051, 41531, 213788, 83691, 90817, 66456, 119577, 151686, 35180, 91716, 253094, 105231, 21619, 51547, 77413,
       98512, 258221, 228256, 23759, 37035, 217160, 73216, 245189, 42101, 10102, 208423, 207617, 6202, 259487, 172780,
       60847, 145121, 38259, 13760, 106264, 27596, 40195, 106229, 249337, 44411, 149045, 50457, 100850, 85231, 198145,
       43605, 12254, 55862, 64788, 239557, 44082, 101264, 100405, 161258, 26856, 112951, 106988, 105499, 133954, 100150,
       109025, 1999, 125002, 129610, 33328, 12702, 58202, 56980, 182252, 48581, 196295, 12434, 92013, 61557, 241513,
       7621, 257751, 60553, 5210, 81295, 235501, 43907, 241816, 92300, 95619, 429, 67247, 15263, 240344, 149588,
       83302, 103937, 48838, 35324, 155748, 129538, 85416, 79350, 137842, 59896, 203033, 68150, 15093, 42043, 199968,
       32411, 223634, 41512, 28798, 84187, 161799, 21572, 113176, 231749, 61386, 255489, 8331, 125129, 241583, 230055,
       86257, 3992, 238373, 109576, 120133, 102626, 128592, 37365, 39169, 70860, 129423, 37322, 31204, 84137, 218578,
       121610, 11616, 253818, 91617, 60139, 242897, 125690, 91462, 177109, 85332, 16063, 180776, 101599, 211485, 227150,
       116737, 122505, 176515, 99516, 85395, 239633, 73747, 27952, 57281, 61855, 162642, 232481, 107921, 187181, 195685,
       101185, 189912, 85636, 48028, 215208, 63019, 65317, 96370, 75268, 83229, 133262, 86755, 3718, 141912, 19565,
       32449, 85101, 198513, 32796, 26526, 146585, 115766, 242998, 36312, 43448, 199970, 86153, 71453, 8945, 204859,
       108997, 183868, 166394, 34038, 153982, 203806, 16221, 22978, 248974, 124303, 109198, 93677, 92364, 52898, 138390,
       23206, 207401, 219895, 107441, 61029, 26657, 103170, 68016, 183660, 109778, 48949, 184884, 36203, 192635, 207215,
       58796, 61590, 222281, 90921, 53706, 18139, 51205, 152119, 100552, 9171, 102906, 102638, 17884, 194551, 173315,
       78264, 225795, 38572, 49174, 12126, 53017, 705, 48401, 96184, 100513, 41041, 56394, 54618, 50587, 106980,
       41126, 96411, 219296, 93522, 101144, 195539, 59652, 6061, 89730, 91072, 236760, 173733, 1729, 235681, 151550,
       1234, 186959, 92086, 73387, 122112, 167440, 128740, 129957, 260200, 35698, 106925, 132387, 89508, 58805, 115294,
       22578, 36874, 13291, 40835, 79236, 55214, 10233, 113257, 219782, 115447, 84164, 115646, 40689, 170681, 2213,
       30207, 183027, 96776, 95761, 196837, 199902, 26141, 5262, 222754, 31493, 97531, 347, 13581, 49702, 119138,
       126205, 143361, 218267, 32458, 98331, 158651, 130503, 152154, 238191, 23088, 68033, 90806, 2706, 230498, 17068,
       117400, 92615, 218655, 76024, 5566, 40039, 46060, 3019, 92680, 67284, 119599, 246864, 34174, 900, 27415,
       83199, 29366, 117728, 80801, 201032, 196273, 10510, 252630, 140184, 119365, 186311, 132084, 60361, 256286, 180457,
       25579, 63543, 204295, 40289, 109372, 201218, 113537, 109536, 233307, 50224, 221999, 210260, 73657, 98207, 67279,
       124215, 154384, 161871, 85421, 203661, 115702, 88567, 142884, 42084, 32580, 108691, 85696, 87594, 206174, 40817,
       51616, 134555, 14359, 119412, 42084, 256236, 16978, 240090, 183389, 37439, 118465, 206123, 8650, 222168, 63901,
       49925, 217400, 221608, 19447, 131622, 25399, 110774, 178830, 177648, 121247, 68831, 116733, 87742, 251164, 83816,
       13544, 71483, 229474, 44778, 63678, 255732, 126417, 231031, 34710, 17865, 71834, 127560, 72940, 46231, 128223,
       46259, 45161, 147552, 130962, 63412, 172960, 37406, 135130, 47422, 6261, 158952, 101136, 92036, 132619, 231045,
       42826, 98957, 189574, 86190, 134666, 87848, 13716, 247782, 167276, 68558, 246381, 233844, 49182, 91622, 140117,
       70355, 37168, 12308, 111866, 87593, 148645, 127499, 244456, 139193, 98714, 140784, 58759, 100513, 171204, 78157,
       69328, 186424, 219806, 12766, 106284, 7408, 87432, 217279, 128803, 19369, 210594, 131682, 32199, 74975, 65961,
       92744, 66886, 226419, 86113, 87371, 160282, 41199, 86459, 78676, 101193, 100164, 150565, 123117, 261750, 96618,
       71468, 70533, 40996, 88825, 195499, 81589, 35622, 181848, 42513, 127245, 162779, 192483, 35875, 13158, 261155,
       116314, 124682, 155074, 121617, 173073, 39986, 94323, 41720, 189472, 106376, 101535, 63689, 60012, 54397, 177622,
       120526, 219358, 167310, 97340, 33719, 136965, 42826, 259118, 114396, 4580, 87297, 227234, 70881, 141307, 111504,
       110185, 188577, 20789, 112809, 128890, 34341, 109460, 178673, 218096, 28147, 65886, 135570, 55856, 35000, 255189,
       80455, 100267, 143983, 87497, 252845, 83228, 43854, 135853, 90693, 90786, 3842, 175478, 77450, 13779, 5589,
       74288, 106988, 72406, 86903, 259443, 8766, 79084, 168079, 126827, 21872, 155219, 33347, 114611, 130248, 256497,
       31531, 251324, 149405, 97581, 166077, 14748, 23128, 138684, 36765, 86634, 49719, 248312, 117399, 16156, 211244,
       1272, 203599, 144988, 128408, 81555, 77880, 3889, 176998, 72871, 1489, 256063, 211532, 112402, 30725, 185053,
       92891, 65823, 2642, 13868, 213530, 252959, 122868, 221940, 235835, 88071, 131783, 99402, 14554, 183327, 111273,
       112794, 126071, 158839, 63033, 42151, 143768, 36455, 141302, 6439, 108139, 204612, 224070, 96789, 171331, 156228,
       81663, 156561, 124245, 117769, 240091, 128116, 112889, 174919, 152835, 29726, 9504, 55380, 115171, 39748, 33901,
       49026, 39282, 251979, 56593, 137820, 38809, 127445, 144348, 123345, 99598, 65009, 103295, 42137, 211552, 231516,
       84924, 246994, 208628, 70690, 83729, 147978, 15283, 109965, 196096, 116359, 124372, 240160, 107725, 170347, 43922,
       101936, 13604, 188497, 73289, 92488, 190594, 28945, 158589, 243362, 115854, 5335, 245188, 46263, 239295, 168008,
       2636, 241685, 103635, 128683, 27531, 213982, 112873, 153055, 84358, 81615, 251539, 194044, 1626, 59920, 163581,
       29847, 52178, 188429, 59251, 21736, 34876, 82324, 90979, 165772, 92819, 59983, 103557, 103320, 125579, 25627,
       72831, 154363, 242888, 86007, 71894, 102458, 106331, 53199, 165224, 94351, 10545, 116585, 125149, 42469, 42555,
       114641, 153998, 84438, 22198, 136682, 188988, 124180, 31398, 219658, 26761, 198101, 143335, 129926, 242986, 98194,
       91924, 174516, 227932, 82251, 213825, 224538, 42509, 166443, 62642, 17446, 175506, 246278, 16537, 196506, 79095,
       113583, 194941, 156803, 56681, 4630, 208259, 73380, 236606, 171900, 122137, 163132, 72201, 33469, 223312, 80668,
       100130, 213408, 205715, 61664, 198512, 32700, 27886, 46839, 237657, 111800, 184580, 14699, 89122, 78135, 71113,
       12441, 150674, 207694, 71009, 52193, 29074, 111642, 102664, 178319, 8773, 73186, 53591, 54561, 254337, 225969,
       105541, 18633, 21951, 112506, 158706, 224094, 101628, 91703, 37625, 40069, 253078, 132365, 66444, 71138, 57474,
       97160, 206296, 44337, 19999, 257413, 96176, 77987, 143347, 18355, 94420, 216245, 94843, 111410, 35206, 45418,
       14637, 9486, 215738, 43211, 31868, 196686, 70995, 174700, 1718, 91888, 243790, 37951, 95687, 83185, 99667,
       33195, 48876, 256692, 1818, 218966, 90387, 90939, 256623, 145561, 119161, 192, 122094, 104532, 40405, 203063,
       81587, 229916, 47217, 128132, 29565, 168686, 56769, 126442, 29665, 68819, 84138, 35267, 1610, 118154, 261983,
       123987, 193207, 214796, 76460, 108201, 85590, 51222, 245233, 56547, 5841, 35817, 166437, 47502, 259941, 217742,
       471, 160008, 51622, 42511, 66901, 43309, 124709, 26163, 246367, 20220, 34593, 177572, 71488, 32739, 82209,
       24460, 80053, 194624, 102679, 18184, 89166, 73714, 158699, 119795, 26507, 125671, 44662, 113539, 256755, 11444,
       102763, 148180, 117507, 124688, 253716, 50484, 82, 88735, 114179, 59915, 60949, 70914, 131051, 52150, 165009,
       106324, 5938, 113850, 108958, 88047, 148886, 81413, 19439, 38742, 93441, 48024, 57219, 105555, 189632, 179577,
       12095, 107227, 180171, 90777, 241763, 162902, 106877, 44692, 71534, 5356, 94509, 16253, 38935, 92924, 75246,
       42468, 222957, 243106, 112011, 215931, 198107, 102282, 56973, 171336, 86038, 124527, 208281, 105476, 177408, 111599,
       59431, 245818, 230540, 114672, 91418, 5749, 30699, 36434, 173575, 92350, 78908, 124851, 31686, 212674, 256963,
       5224, 206721, 59775, 37244, 71121, 39459, 64606, 74402, 193632, 110550, 221607, 260567, 66696, 219616, 83564,
       23481, 164568, 230947, 130123, 215312, 53464, 35399, 4500, 15028, 129144, 144233, 196879, 122727, 67993, 132955,
       71098, 234204, 219077, 12053, 205827, 22026, 91149, 107522, 211763, 110849, 237328, 3678, 58366, 132575, 254443,
       31331, 133978, 128806, 105227, 201567, 9181, 71444, 115544, 110946, 25903, 199227, 33135, 124457, 243465, 248723,
       124269, 34280, 17692, 48109, 245051, 161420, 8389, 4068, 222492, 82678, 187380, 173575, 41579, 142227, 163269,
       8697, 83039, 79179, 116890, 222916, 11561, 130825, 26630, 130556, 45928, 92141, 207073, 97615, 100200, 111824,
       8620, 185935, 563, 48458, 8224, 129852, 14254, 81652, 137259, 7254, 216783, 163491, 77174, 5049, 86184,
       105123, 211182, 85702, 59371, 187893, 187897, 68705, 53572, 189379, 35485, 32713, 91852, 96519, 197572, 91018,
       47326, 156046, 176408, 8847, 60710, 133413, 21693, 111856, 190956, 16838, 166992, 193422, 57131, 97940, 50624,
       8547, 145668, 252011, 105707, 134509, 225730, 119014, 14749, 242458, 32557, 136801, 137812, 63636, 192634, 36495,
       68034, 166193, 41536, 129106, 20825, 172169, 8600, 233145, 47515, 87540, 177656, 64552, 45320, 28280, 2465,
       65772, 194991, 164609, 28447, 40697, 237013, 21003, 72390, 90893, 31924, 154882, 155567, 9340, 117487, 130653,
       36449, 223197, 220473, 90485, 177221, 106141, 85391, 10542, 125083, 72678, 242918, 52798, 50, 204208, 79913,
       16486, 130620, 175545, 110476, 152502, 197589, 35617, 76441, 172374, 119563, 192079, 41694, 114628, 133262, 139945,
       20306, 156294, 257025, 117722, 153218, 131652, 82291, 148612, 116873, 82612, 249600, 27202, 111762, 119364, 201891,
       53091, 122990, 79157, 96372, 112928, 151217, 87525, 54975, 206071, 101123, 254424, 210521, 86532, 74961, 91666,
       10492, 247157, 174851, 38366, 56752, 214873, 123197, 80915, 179006, 29284, 206131, 11917, 61900, 30220, 4311,
       46783, 69111, 40028, 11311, 90771, 6294, 23748, 200236, 225822, 37574, 8629, 34507, 60728, 21117, 56877,
       114625, 159343, 44552, 67582, 224745, 221253, 85446, 127669, 78841, 55830, 208048, 211976, 114040, 213016, 238820,
       86851, 31255, 146628, 11879, 23210, 24883, 62587, 10024, 16141, 108427, 63348, 8621, 96161, 176785, 228091,
       118660, 247139, 92064, 29840, 230421, 209605, 128079, 238526, 78069, 37365, 183522, 148946, 6577, 46377, 102480,
       64968, 210394, 170529, 14462, 83657, 237545, 89300, 206480, 91286, 118037, 186520, 157728, 120762, 80038, 210091,
       79565, 153478, 88849, 70158, 62168, 39777, 130284, 116345, 96798, 75946, 127884, 11923, 121563, 214281, 107988,
       120139, 248110, 25647, 37947, 39911, 96250, 1802, 99871, 32101, 57562, 178663, 114469, 112901, 132770, 208830,
       109593, 205547, 144618, 79124, 33488, 121190, 20533, 139229, 134366, 14101, 193158, 63444, 125132, 20179, 72447,
       55233, 114549, 234646, 84955, 199435, 80810, 118733, 120742, 196010, 114018, 167354, 126883, 74305, 35097, 261219,
       63950, 185552, 228636, 96371, 234771, 64091, 45828, 199281, 13949, 81971, 52604, 238150, 3034, 166665, 107418,
       108044, 77584, 221764, 130814, 22643, 95657, 125135, 75855, 178774, 47172, 35792, 228691, 69612, 132969, 248206,
       30961, 112667, 3914, 39713, 43304, 109288, 59945, 70316, 107242, 97921, 101875, 56811, 2343, 230878, 161719,
       51612, 199969, 39465, 72941, 43012, 49870, 28204, 123654, 201412, 10286, 94350, 10798, 70723, 6524, 102183,
       83599, 7939, 112598, 84017, 118542, 163425, 46738, 59903, 245666, 31111, 127223, 6542, 28886, 128800, 115743,
       5311, 145194, 2509, 24206, 213990, 115786, 107296, 89729, 237106, 399, 245237, 63393, 5752, 148613, 54257,
       16648, 164243, 201684, 55081, 202808, 93006, 43743, 179680, 72202, 23309, 79059, 52604, 14542, 96854, 99696,
       123058, 154780, 201193, 119439, 101975, 107279, 101174, 77174, 203392, 33033, 6362, 133461, 42427, 196202, 91236,
       87273, 165591, 48443, 38233, 146165, 207634, 69549, 207978, 153113, 85365, 19936, 169916, 68052, 25421, 214889,
       54170, 15872, 192225, 45599, 43029, 165098, 101941, 62140, 182959, 96862, 19993, 169487, 91256, 1264, 111389,
       49109, 177885, 221347, 101677, 92035, 210203, 125528, 34196, 227166, 90305, 242097, 197423, 53464, 44731, 69611,
       104396, 102781, 196322, 79862, 115792, 60406, 115038, 232169, 5617, 93478, 68363, 241579, 100914, 251995, 41306,
       87482, 60842, 163965, 12061, 80100, 29962, 63585, 74515, 363, 7404, 63144, 181486, 58661, 42620, 181331,
       93903, 135855, 194290, 55214, 208977, 53439, 213, 178357, 246291, 48402, 245294, 38534, 8881, 80070, 131672,
       102314, 86463, 218473, 102727, 232178, 98929, 105693, 171564, 90524, 3975, 11960, 218004, 4229, 158034, 156869,
       118416, 239688, 40724, 16211, 129382, 211937, 87830, 17481, 3040, 104261, 209215, 140913, 58702, 102596, 185236,
       71627, 49843, 19109, 29803, 64539, 261036, 121058, 24463, 106547, 39557, 176724, 193116, 28548, 248568, 153319,
       68865, 181100, 212585, 24971, 3850, 101413, 90006, 11860, 240996, 67517, 55632, 13941, 19373, 6657, 115998,
       8814, 32124, 228659, 17950, 201447, 231685, 17907, 174797, 102810, 41005, 247471, 71115, 109218, 118103, 247695,
       7509, 168251, 100326, 16788, 228951, 186077, 39701, 157727, 131908, 72526, 127513, 122959, 99992, 151955, 21071,
       120742, 106448, 100253, 54013, 59161, 116403, 13871, 257109, 211785, 27985, 238367, 111423, 37650, 31823, 126632,
       103035, 102356, 143501, 89999, 186888, 241375, 27394, 195493, 180012, 109936, 13327, 83405, 112611, 72045, 51315,
       115663, 3961, 93722, 36045, 91494, 206194, 17528, 76195, 44743, 13625, 237305, 67587, 52440, 79172, 112394,
       56272, 120988, 26442, 113798, 5466, 229247, 35095, 83967, 228634, 82168, 1779, 119323, 103312, 161559, 238848,
       35278, 107001, 63064, 35014, 136636, 261479, 87707, 135934, 10548, 95176, 35269, 95254, 125798, 2337, 1831,
       111403, 111040, 31456, 107747, 241594, 4369, 90743, 2602, 179400, 15530, 73408, 212922, 106068, 226988, 194454,
       122594, 128254, 151431, 51212, 43422, 104157, 41112, 78698, 36715, 68482, 187124, 53018, 125364, 143776, 190692,
       6662, 180313, 65488, 92914, 105733, 101630, 106780, 54465, 183429, 103382, 243998, 156946, 74288, 66796, 120418,
       120660, 8694, 30479, 17632, 78140, 137328, 32132, 99356, 230208, 40233, 98712, 105363, 1137, 95798, 187522,
       48584, 94602, 186387, 21058, 1642, 9539, 94978, 52170, 198835, 54388, 182015, 252851, 92334, 238196, 246924,
       38489, 189103, 95543, 17290, 189527, 131637, 17300, 17116, 209814, 26642, 48905, 120554, 15101, 144510, 89582,
       28907, 143149, 66718, 75895, 49709, 71276, 33598, 124296, 117153, 44950, 181326, 208815, 6911, 248693, 132456,
       116943, 165198, 65259, 18109, 9844, 130456, 45700, 86089, 51265, 49739, 27341, 185894, 101204, 35214, 210762,
       63378, 243497, 85703, 50194, 221954, 43324, 91209, 180484, 125455, 78251, 240491, 249736, 10241, 67152, 108625,
       40986, 64835, 26335, 128268, 32671, 122940, 63351, 186576, 46869, 55599, 218640, 59048, 19650, 75548, 40171,
       109978, 158814, 104591, 17472, 243825, 5388, 13773, 140645, 46900, 57540, 171427, 128705, 57232, 47126, 85751,
       128643, 27006, 170502, 16716, 18127, 211444, 63416, 48621, 179712, 26377, 163983, 119623, 91981, 156451, 114456,
       51339, 47802, 61083, 84995, 257739, 225675, 44356, 60466, 65666, 73996, 44973, 115676, 61490, 189166, 55514,
       49068, 200888, 6166, 70454, 117866, 101032, 50305, 68209, 91049, 105646, 129300, 96075, 64911, 205190, 179658,
       118374, 182733, 127732, 29203, 104186, 129795, 14696, 78950, 58134, 49934, 40303, 119033, 24072, 164110, 5126,
       51526, 247750, 112991, 27185, 201143, 121735, 113798, 222311, 39050, 74436, 100277, 150629, 65220, 5279, 129632,
       103251, 85188, 226021, 17087, 121936, 110239, 112330, 166054, 159800, 63347, 165024, 41696, 17882, 151063, 43389,
       107401, 235847, 242197, 60394, 190940, 55414, 79246, 53031, 254232, 117127, 27233, 44130, 116744, 192313, 173108,
       117023, 146211, 232644, 54646, 53794, 241514, 98252, 89689, 20067, 30575, 72909, 180672, 108944, 7927, 98793,
       44790, 59282, 102273, 60805, 244898, 161852, 116836, 127431, 93958, 105609, 248233, 110387, 124847, 143833, 44655,
       47641, 34530, 83144, 19803, 12704, 181733, 119329, 82568, 121649, 64638, 191844, 28605, 116575, 141686, 43161,
       95954, 91736, 114618, 114662, 43629, 79529, 85815, 221414, 85386, 106479, 58872, 243061, 15772, 178268, 144878,
       126916, 84280, 123483, 23721, 80916, 4401, 3211, 164310, 66670, 69573, 258014, 233438, 93311, 200307, 84111,
       93902, 104074, 225171, 44463, 243133, 103347, 98806, 64608, 57219, 110436, 8243, 152430, 79955, 120349, 94070,
       50592, 195132, 58129, 80422, 117413, 53873, 113014, 68953, 1931, 118026, 166366, 34617, 4130, 248342, 107841,
       16043, 6250, 154847, 591, 174401, 205096, 64545, 100067, 65639, 57198, 165582, 102421, 71539, 82683, 257682,
       89606, 247582, 139944, 47944, 1736, 66680, 27338, 167712, 57820, 51749, 235047, 179840, 1181, 23562, 8637,
       108717, 61558, 253025, 50295, 202784, 59171, 81630, 29785, 46586, 42562, 114502, 185341, 80584, 180729, 248207,
       70835, 248488, 135081, 27336, 75625, 20121, 81962, 123360, 231776, 14368, 112656, 90235, 63056, 231765, 149417,
       94355, 224643, 192872, 71966, 196365, 207658, 97815, 63269, 89089, 35803, 253413, 34648, 6398, 194605, 258016,
       7336, 39147, 247507, 35222, 101400, 155696, 53433, 194275, 100409, 70451, 231284, 39367, 99308, 47506, 198165,
       110049, 77128, 24984, 90922, 40005, 255581, 60713, 189821, 258516, 34666, 220763, 22720, 56072, 237587, 233376,
       35834, 152154, 142320, 81849, 147777, 53682, 107244, 2521, 133093, 67920, 9174, 173870, 6008, 71204, 57340,
       123174, 191930, 235326, 38572, 103283, 108721, 119866, 183262, 88512, 106570, 128070, 37012, 54149, 35350, 146243,
       7432, 72396, 243066, 124217, 116958, 78571, 86383, 126423, 44787, 32722, 169556, 78827, 69931, 172295, 236326,
       83279, 74275, 194399, 29708, 181227, 93960, 12260, 141661, 52878, 35057, 63969, 87381, 6239, 98811, 23111,
       9173, 71269, 79355, 20523, 239814, 201900, 20762, 167723, 76887, 32499, 133730, 62832, 122870, 189876, 138076,
       75473, 231221, 5309, 55378, 157009, 227477, 73898, 91792, 89078, 748, 163760, 249085, 117276, 69979, 94630,
       69771, 91232, 121067, 59198, 198172, 33098, 123417, 170235, 241143, 95736, 12700, 192007, 44226, 111239, 200240,
       122704, 8758, 27902, 111673, 8572, 245303, 125112, 169074, 134127, 12612, 69186, 50098, 125211, 26482, 64557,
       71156, 193844, 27195, 88108, 150709, 214338, 27818, 151272, 170130, 18402, 184576, 173743, 10405, 125326, 105288,
       55353, 110523, 124189, 29012, 188136, 63471, 10698, 125275, 198100, 125182, 114408, 60520, 96127, 18387, 89514,
       67876, 59270, 119261, 97432, 10817, 203794, 80145, 11943, 31721, 23335, 23106, 184277, 83025, 204889, 79880,
       89261, 167799, 143978, 31125, 203903, 126294, 41961, 261936, 110532, 50239, 257969, 160794, 78976, 260349, 243934,
       16620, 255806, 112939, 97449, 43149, 252235, 45354, 24436, 106740, 90672, 5454, 207459, 122275, 109163, 121567,
       114016, 54971, 151243, 96676, 61290, 45436, 25339, 197761, 191672, 95954, 118394, 45423, 83334, 49550, 36422,
       101259, 67402, 142906, 113877, 46722, 126795, 40825, 174626, 136147, 84450, 58557, 208237, 36062, 239132, 103982,
       45388, 68040, 248921, 68241, 241619, 88706, 56906, 174084, 230678, 78725, 223956, 182142, 99452, 100517, 244130,
       79301, 48408, 212029, 127113, 180991, 122582, 96746, 226973, 146669, 129107, 123238, 162395, 97444, 68834, 161191,
       66573, 247050, 171839, 53871, 91063, 167712, 96424, 125476, 208110, 90062, 201357, 115366, 87656, 85784, 147096,
       94605, 170925, 225787, 114317, 89975, 5681, 29852, 261889, 187556, 74041, 231186, 72854, 79075, 234163, 256375,
       38385, 86886, 68471, 129492, 139436, 18648, 102962, 6755, 209710, 42108, 259676, 155221, 46980, 185562, 224916,
       94143, 139482, 217778, 1506, 122091, 121740, 60822, 182226, 181779, 44972, 63264, 163222, 111935, 229905, 5807,
       103716, 158990, 250342, 43528, 159482, 244528, 113350, 175488, 77291, 119747, 99613, 126744, 72411, 232331, 89021,
       20871, 134325, 219128, 100968, 115992, 49681, 41857, 23128, 178105, 69111, 216624, 21748, 5975, 104185, 186208,
       65547, 223313, 122290, 49842, 8624, 201668, 89923, 249067, 31210, 5345, 156892, 255888, 81912, 223588, 224751,
       101181, 216655, 155576, 1674, 224719, 43909, 98299, 51252, 136439, 17066, 26807, 166255, 91495, 160213, 218456,
       59673, 258265, 104965, 72350, 158466, 74150, 44216, 204159, 253468, 32173, 202587, 142411, 9312, 83706, 154176,
       113336, 169355, 74305, 80010, 46701, 111539, 128817, 118334, 146033, 111470, 113112, 126176, 113984, 149841, 198959,
       78361, 92627, 170129, 10609, 84452, 65966, 119720, 176910, 234009, 15451, 153218, 145899, 67783, 94827, 161405,
       112309, 208484, 166623, 61919, 121439, 25088, 21714, 195208, 49402, 48915, 172321, 86906, 129549, 238047, 13035,
       131040, 114318, 221151, 93170, 147800, 225527, 116390, 243262, 56416, 5794, 69277, 220277, 36172, 38345, 105721,
       48360, 69744, 225457, 1572, 145660, 10021, 49409, 27529, 27641, 12193, 219130, 157635, 67817, 228598, 111607,
       579, 64921, 140145, 35448, 106900, 215504, 113545, 130587, 13712, 27925, 247789, 234757, 8499, 41421, 162968,
       32732, 187008, 31110, 108469, 203086, 115458, 76963, 215510, 175062, 76817, 246346, 164758, 75, 62090, 187578,
       61885, 210738, 235827, 34815, 22989, 250480, 44067, 154048, 188494, 78471, 14410, 181997, 114601, 121374, 11310,
       23810, 35117, 86478, 100692, 104093, 206250, 6409, 185126, 107537, 42825, 11857, 249594, 28693, 84950, 218856,
       120007, 111124, 244823, 23330, 141972, 205088, 75842, 116070, 93206, 21598, 120350, 209930, 62060, 119938, 108876,
       54185, 39812, 68468, 5420, 201824, 207118, 108248, 30734, 42593, 102250, 244788, 251133, 36419, 118631, 159432,
       80477, 149574, 254094, 47535, 216873, 25103, 100824, 36732, 173879, 90765, 84581, 205971, 11857, 180394, 58900,
       110649, 113039, 123316, 23517, 193579, 119253, 22820, 237744, 10814, 96173, 175735, 36029, 24019, 21789, 11767,
       16042, 213252, 189723, 43985, 134304, 95513, 109931, 189342, 97878, 23174, 177618, 10590, 44442, 255683, 47963,
       37519, 230112, 168017, 46669, 159818, 225214, 93621, 8553, 202460, 53145, 48399, 223529, 99559, 61545, 79971,
       83938, 241208, 68167, 47329, 260046, 42254, 56654, 173992, 1119, 92225, 61896, 29561, 70091, 120983, 177138,
       113815, 21401, 18847, 122314, 56892, 57037, 94071, 87723, 124342, 129657, 93220, 224484, 78189, 70726, 161372,
       5220, 183854, 17453, 66171, 253939, 19972, 30147, 203493, 238637, 43740, 119007, 251143, 64234, 121077, 210861,
       38672, 235676, 216035, 40582, 190693, 11180, 52693, 22346, 187625, 37546, 140898, 130556, 22216, 218743, 142421,
       100343, 134934, 232697, 51801, 51411, 31844, 109020, 24350, 133429, 115699, 126156, 186446, 98430, 74988, 25618,
       51992, 195217, 95604, 94545, 34602, 123415, 20345, 16239, 208867, 86653, 200483, 143258, 53219, 113950, 124180,
       85936, 163777, 145773, 98931, 239204, 161850, 73752, 116224, 8653, 84210, 250124, 106666, 27987, 139729, 90418,
       77686, 82846, 168492, 60355, 74968, 51284, 56105, 195142, 15701, 53780, 237648, 122220, 40753, 113821, 240951,
       40020, 216234, 73215, 91711, 241414, 206647, 73111, 243688, 64756, 3925, 231372, 153551, 6360, 78369, 198435,
       74726, 167170, 168450, 110924, 17860, 237549, 5764, 68071, 35925, 66480, 164434, 120302, 111560, 4178, 32865,
       583, 1411, 194607, 36148, 225196, 179942, 120575, 205221, 210605, 10678, 101312, 176654, 79560, 63517, 47174,
       66503, 138885, 19052, 19880, 240513, 162612, 5568, 224755, 42611, 65875, 25323, 18988, 96354, 257984, 21621,
       23231, 148192, 128494, 90612, 176318, 230460, 71615, 145080, 116247, 46903, 169527, 58084, 87088, 61342, 4367,
       25162, 204522, 134197, 59890, 236480, 9660, 71998, 131738, 212081, 60122, 37186, 24364, 52101, 78765, 191911,
       97113, 8536, 222105, 85996, 122128, 183466, 83815, 150589, 71820, 116890, 24675, 168733, 130220, 30975, 38499,
       74344, 165826, 154639, 45648, 43847, 149122, 102088, 196547, 45035, 18625, 54619, 145789, 67228, 8091, 164039,
       68748, 98499, 198774, 128905, 26301, 171375, 129893, 64291, 222427, 104754, 156115, 88562, 61999, 29420, 71328,
       71725, 256571, 198097, 41909, 45908, 86645, 108769, 140528, 46805, 97851, 79355, 215239, 101112, 66932, 25156,
       18176, 153352, 220620, 52249, 197102, 214994, 70431, 199430, 131213, 16339, 44372, 139883, 48316, 41238, 251819,
       11459, 250499, 1722, 125677, 62217, 162174, 98469, 153913, 184745, 81362, 182901, 121642, 26850, 247058, 258867,
       43794, 196986, 259097, 18937, 242499, 227852, 70270, 71236, 86473, 107546, 176111, 230912, 2495, 40624, 183156,
       13540, 229101, 248225, 30061, 87443, 98724, 93594, 40936, 61895, 117175, 190166, 100033, 98698, 218367, 117398,
       68805, 242560, 208272, 13777, 75442, 54601, 98948, 35881, 34420, 13846, 108016, 133684, 45572, 106086, 20806,
       40369, 16618, 172531, 47084, 36121, 205109, 43192, 8067, 237279, 100817, 242176, 93983, 22508, 45418, 131253,
       110866, 192277, 77349, 112493, 232562, 259520, 64346, 165006, 74310, 13913, 33754, 47584, 75419, 203851, 165337,
       107601, 30609, 26994, 37941, 228881, 3393, 109805, 60393, 224727, 88725, 28275, 168577, 129400, 95808, 173813,
       108096, 148854, 153904, 26411, 18043, 69608, 58851, 225470, 74416, 13567, 16121, 128701, 9131, 225583, 171088,
       92543, 246797, 249121, 119659, 209063, 225720, 127608, 128482, 118509, 35450, 148368, 170567, 26446, 150292, 117103,
       73429, 36971, 255426, 26327, 34471, 160324, 38785, 35155, 256954, 109736, 243672, 77642, 106228, 258873, 136723,
       117319, 11613, 81432, 63208, 163050, 159050, 73935, 221586, 217250, 101002, 185601, 156282, 31361, 3134, 123066,
       107884, 137152, 222546, 2301, 77069, 85023, 104550, 229886, 58291, 101699, 211429, 226473, 39554, 236345, 78555,
       95408, 243429, 65336, 28048, 149683, 17098, 75527, 252780, 233257, 91827, 81202, 54021, 93677, 3123, 66617,
       128835, 71832, 21768, 23855, 221802, 134136, 63019, 62360, 97699, 115357, 16468, 142979, 73598, 152122, 235687,
       114870, 16342, 41481, 56892, 249579, 139237, 104248, 79028, 143089, 114039, 26665, 96142, 110944, 131351, 165535,
       114211, 146570, 1422, 28777, 124044, 233350, 57538, 138403, 169307, 22881, 126951, 257139, 23663, 234149, 151840,
       63940, 131306, 139851, 125840, 163102, 34223, 77582, 261813, 148731, 111915, 48365, 111403, 122838, 152182, 125378,
       11347, 158711, 179621, 21242, 13453, 116232, 38121, 56049, 105220, 80842, 53439, 162703, 8090, 254837, 48970,
       103108, 99592, 204105, 8360, 239784, 76621, 20765, 255297, 24988, 50031, 55881, 234812, 73101, 119813, 16959,
       115540, 152206, 198974, 126317, 259402, 15559, 115951, 212987, 128827, 14030, 146111, 195550, 82736, 133979, 135461,
       57896, 108107, 99311, 16487, 219575, 8691, 72759, 180545, 20237, 46747, 240498, 180748, 45323, 27177, 15373,
       12379, 28993, 13560, 128300, 56601, 48926, 95153, 4205, 91710, 36743, 253165, 67217, 120255, 79641, 215016,
       124267, 179567, 250779, 106217, 118348, 97141, 86417, 198492, 240850, 49332, 114373, 131169, 56930, 174447, 97267,
       59639, 61606, 131250, 124356, 57336, 231354, 99632, 95133, 213374, 38274, 235606, 97392, 81872, 233573, 209678,
       77843, 191666, 40037, 106447, 28849, 196484, 12492, 68702, 61428, 91917, 18361, 121552, 43407, 24460, 248360,
       16991, 34298, 258897, 95914, 260584, 123552, 43469, 133074, 237604, 95698, 204296, 206993, 21290, 245345, 102564,
       129227, 139410, 199895, 105304, 77445, 139919, 37899, 184259, 123945, 97061, 260840, 190175, 17799, 147145, 133325,
       85647, 92728, 97381, 7816, 189564, 83025, 43697, 199524, 200427, 128249, 11204, 38630, 15849, 72165, 39780,
       78305, 147529, 112173, 9254, 102013, 42184, 87739, 198075, 97285, 36524, 211212, 206559, 40629, 31990, 143235,
       44276, 118988, 207296, 26890, 82314, 248567, 123424, 240327, 87693, 118729, 50134, 28217, 114034, 166782, 110583,
       13952, 8048, 172582, 30598, 21462, 118512, 80245, 175068, 19930, 127188, 122655, 170038, 79274, 163560, 106843,
       42873, 231238, 225248, 107138, 207530, 208366, 17751, 40117, 152954, 115571, 176199, 159710, 127752, 219213, 227822,
       126832, 44212, 213115, 19358, 231724, 214814, 72038, 40667, 197607, 76666, 132921, 16050, 25548, 96857, 235968,
       71667, 52548, 69352, 84742, 255038, 208734, 43117, 176634, 154601, 41376, 238400, 223101, 7895, 152212, 13692,
       125413, 10430, 214338, 105331, 143370, 195419, 99542, 135393, 178894, 2854, 159015, 36600, 81829, 116118, 142825,
       23675, 90020, 33763, 86732, 167841, 44264, 81416, 24251, 199807, 111663, 146926, 104022, 33480, 67565, 74275,
       3599, 123283, 258989, 119814, 89438, 183290, 119096, 194386, 80002, 59750, 110562, 260028, 10235, 41434, 105104,
       65269, 207435, 191472, 68683, 155175, 405, 107705, 52700, 118589, 93991, 241307, 193301, 9280, 130384, 42874,
       92450, 2972, 85486, 17791, 168720, 248089, 11727, 72752, 176949, 52246, 61323, 189203, 10140, 53130, 7101,
       108693, 247871, 38566, 60703, 70395, 108704, 76939, 198249, 153031, 75610, 206261, 101123, 128202, 211266, 43240,
       120033, 116588, 174642, 111296, 239316, 207875, 50235, 226521, 63160, 19018, 133154, 164210, 77577, 50266, 208538,
       57713, 28468, 1707, 29560, 60131, 238215, 12804, 183744, 259131, 57159, 162704, 54429, 85310, 139942, 110498,
       81971, 24554, 6193, 101439, 112973, 167384, 61152, 65027, 131282, 42157, 247046, 195812, 70608, 141835, 249547,
       127795, 260640, 233600, 5910, 28050, 37698, 69293, 74491, 41456, 43157, 93547, 130768, 13808, 122294, 99254,
       56973, 36810, 209019, 84038, 174285, 41324, 69227, 188017, 126835, 3824, 57228, 206090, 75906, 22100, 42206,
       30409, 11184, 24227, 44758, 3938, 3688, 40921, 78671, 165747, 112527, 14752, 154562, 6235, 128599, 94736,
       45612, 165224, 117400, 51749, 96181, 257859, 81111, 221402, 118917, 103411, 52591, 81058, 95376, 137605, 179097,
       98647, 179391, 19378, 25216, 144441, 153820, 119503, 59754, 63299, 54283, 77519, 192150, 1456, 21732, 258910,
       87568, 184229, 25052, 79167, 224100, 185917, 16509, 136091, 30466, 125811, 201005, 205402, 73605, 97799, 131000,
       61507, 96787, 26608, 52182, 177179, 181440, 27505, 167737, 201544, 124887, 21110, 52895, 92033, 88379, 123457,
       74396, 251285, 201364, 82732, 176383, 148047, 110155, 154751, 140079, 83325, 33729, 197911, 15019, 166730, 224080,
       91395, 228342, 130341, 74038, 146495, 202113, 126660, 171672, 193340, 96170, 11771, 192062, 45089, 39374, 238780,
       17746, 227325, 251796, 63213, 126305, 55816, 89044, 85011, 229025, 23235, 224574, 87453, 85123, 251637, 39074,
       108214, 153182, 227534, 20584, 230943, 246952, 92508, 194967, 218845, 8946, 174208, 28428, 1042, 8719, 260068,
       4277, 129395, 250107, 82772, 148898, 3770, 127580, 133947, 148928, 101105, 79647, 224612, 33345, 243933, 101703,
       9396, 99488, 30071, 80826, 23591, 195494, 423, 56737, 13545, 103885, 205244, 59116, 31866, 76952, 253539,
       39218, 257053, 192975, 45086, 3615, 245013, 100080, 107787, 146037, 34831, 83515, 237247, 37286, 44303, 70822,
       70908, 234702, 41338, 60686, 106243, 247415, 125248, 112788, 194076, 34523, 240335, 83192, 12044, 96741, 22262,
       70907, 137320, 215087, 24185, 91806, 250772, 54214, 230387, 130755, 24536, 107179, 244390, 115470, 127206, 178165,
       42919, 125359, 46859, 101563, 113681, 106771, 124335, 90162, 105394, 123279, 221680, 198040, 68786, 191192, 34824,
       128877, 55916, 56826, 85975, 809, 65056, 16841, 79144, 61767, 116441, 89831, 168997, 61432, 9514, 143974,
       20013, 247906, 232697, 103733, 60902, 158833, 81841, 196872, 146489, 115621, 94369, 123137, 108438, 212313, 197255,
       41957, 134683, 155327, 33595, 173713, 75004, 96184, 98428, 35311, 75145, 69145, 103702, 9158, 165444, 106452,
       23807, 165053, 139246, 19838, 52161, 130458, 77305, 224665, 68886, 11241, 8220, 74637, 27223, 203738, 102630,
       71483, 154156, 55632, 17440, 5816, 146860, 32541, 126730, 236341, 118854, 239700, 248627, 91372, 153978, 120735,
       40223, 147463, 41627, 114996, 181035, 240576, 32805, 86609, 168040, 77212, 65275, 136808, 48299, 75975, 143082,
       98585, 190679, 57225, 48704, 182954, 231820, 32618, 208970, 223607, 79653, 15285, 162178, 97693, 68780, 125223,
       70302, 68508, 38666, 93885, 88652, 97073, 55314, 133187, 100368, 104260, 187990, 24275, 76680, 93007, 255235,
       25722, 230163, 242522, 116752, 159181, 100443, 109684, 49758, 138886, 126341, 236212, 235673, 74581, 22087, 173188,
       88570, 189338, 30454, 113191, 15112, 229754, 6893, 65819, 38225, 119564, 127325, 83782, 35541, 244292, 208828,
       7476, 217434, 123525, 31143, 163310, 67421, 76855, 97810, 240805, 6271, 105334, 120348, 100, 62770, 197576,
       83802, 142683, 24814, 59426, 101293, 84129, 110668, 14329, 18983, 33757, 62385, 222899, 36792, 237794, 136360,
       10164, 42533, 183033, 70583, 210478, 114361, 47959, 215008, 118680, 44526, 49051, 137814, 59982, 217546, 205143,
       111370, 58681, 13660, 13787, 73305, 62996, 68628, 121620, 195255, 25747, 33765, 70746, 27838, 141300, 216790,
       33650, 209115, 133888, 60214, 183151, 240690, 64802, 855, 86634, 114230, 189814, 111620, 116930, 241827, 60314,
       76895, 65646, 122127, 36884, 53867, 245049, 107274, 45422, 90703, 103924, 164798, 160368, 104589, 92361, 109697,
       2145, 87006, 224869, 98810, 116286, 53671, 111767, 169000, 84205, 79302, 229976, 92470, 98467, 20843, 166379,
       101734, 47539, 177765, 66398, 235970, 7914, 106642, 234491, 247236, 103847, 42592, 216266, 120075, 165223, 11816,
       120766, 74634, 202499, 69430, 196562, 1542, 4127, 251817, 52194, 2504, 99730, 157499, 123067, 165, 240968,
       44218, 155254, 235746, 49484, 8386, 83286, 61591, 205843, 72273, 34838, 211330, 81300, 77386, 201678, 126845,
       102841, 200269, 116623, 33730, 74199, 239732, 97394, 137672, 106182, 88082, 234132, 170734, 68889, 72256, 144188,
       42656, 90844, 114032, 114396, 77063, 176169, 52795, 75159, 179146, 49107, 219592, 88225, 84065, 199292, 68979,
       120629, 186394, 86813, 66586, 242389, 130884, 94724, 133864, 190459, 59884, 149904, 54337, 28679, 145865, 134110,
       16246, 178076, 89911, 17868, 151698, 199343, 2795, 53537, 125208, 72470, 1903, 214672, 17184, 84653, 202165,
       113468, 213108, 91137, 128830, 90270, 38724, 64994, 132581, 18618, 58939, 173917, 197325, 45622, 145620, 24268,
       83627, 122631, 114181, 79695, 85722, 73804, 45007, 204827, 81104, 44979, 141394, 75713, 84515, 190851, 115827,
       72685, 125094, 107215, 94182, 130291, 261269, 123390, 46670, 157226, 102182, 163861, 222634, 39891, 52597, 121088,
       99499, 182360, 101884, 58985, 161177, 165280, 101928, 256492, 60903, 116204, 175524, 183415, 32760, 13203, 254712,
       31279, 177982, 261528, 56705, 3139, 204376, 6754, 169839, 166573, 89874, 59620, 44787, 98264, 214932, 91182,
       45276, 52862, 165105, 60985, 227722, 233875, 77379, 57301, 117507, 9646, 161709, 141806, 93231, 49901, 110309,
       69035, 220564, 242657, 81823, 80178, 48056, 94873, 241668, 208094, 88546, 218961, 47490, 12493, 259856, 15839,
       102575, 238184, 54695, 79960, 6704, 26183, 93700, 225895, 172437, 34275, 145254, 51390, 29022, 238150, 190023,
       108277, 148647, 31922, 51169, 23918, 251410, 75411, 221668, 190005, 72298, 189203, 124933, 76698, 258409, 31362,
       9110, 90822, 168587, 39645, 216446, 157557, 8713, 193271, 83048, 62935, 172844, 197834, 118239, 230224, 236504,
       51010, 26397, 192790, 102557, 66623, 42674, 37649, 250284, 44107, 112232, 122492, 172536, 54985, 29225, 128243,
       46559, 14969, 136822, 91420, 12248, 245045, 67208, 32112, 156085, 44213, 55811, 100380, 7614, 69390, 15706,
       21841, 196464, 41629, 101230, 3735, 228262, 120682, 38370, 249679, 22129, 254715, 100177, 74637, 209658, 255927,
       4479, 56206, 215183, 38121, 113673, 38532, 58823, 140342, 170766, 96452, 257903, 49524, 5781, 79841, 51654,
       102397, 121605, 136073, 26561, 117378, 102470, 99553, 91303, 75277, 81981, 186185, 206264, 44508, 231760, 213296,
       94863, 145251, 114640, 30975, 71750, 77629, 28800, 47983, 241234, 8093, 2344, 123678, 51521, 107827, 7593,
       12806, 158217, 132869, 54984, 215657, 77739, 1284, 255413, 20602, 20327, 22145, 150722, 122207, 224135, 222401,
       104275, 230259, 48828, 30954, 113813, 188941, 94147, 254266, 208967, 87619, 64309, 32517, 23189, 260593, 37459,
       48635, 100467, 79903, 119761, 62675, 198444, 96825, 60394, 185841, 99660, 128413, 107518, 73909, 175692, 128732,
       87233, 165806, 7765, 66681, 96878, 82301, 97110, 113401, 27638, 96040, 20431, 180916, 4074, 35536, 164069,
       82807, 244630, 184650, 82550, 245506, 40469, 8823, 199892, 248015, 53789, 129286, 129814, 117806, 23071, 84846,
       124969, 35030, 183315, 102525, 249912, 3018, 19853, 165591, 86060, 49115, 77116, 132599, 23927, 165829, 78991,
       85476, 206474, 208971, 101337, 154539, 203011, 115836, 246486, 143871, 112806, 240379, 238885, 13003, 168725, 245656,
       16472, 90031, 120093, 119232, 132085, 113697, 110596, 134495, 181319, 60342, 180053, 114996, 56367, 206510, 19427,
       72456, 146534, 235790, 78202, 66614, 236425, 33320, 176425, 87968, 52919, 63025, 82138, 81224, 103860, 79593,
       27035, 230379, 48744, 130919, 18382, 88999, 37085, 115314, 193887, 72406, 45959, 84382, 72634, 211358, 200382,
       59177, 18836, 122247, 31659, 153079, 243537, 74101, 251106, 260421, 11929, 115723, 38348, 50715, 47061, 250624,
       29393, 48157, 52325, 16276, 60080, 181833, 121304, 235593, 33135, 91742, 240581, 258513, 22128, 193794, 53266,
       124439, 56161, 225858, 28310, 135685, 133618, 30882, 79092, 27180, 17468, 3843, 244690, 95401, 43559, 197715,
       74825, 205706, 14112, 7635, 24229, 108706, 3316, 30138, 162991, 69816, 195135, 54264, 85397, 130125, 14344,
       107855, 181053, 108827, 62688, 49470, 126521, 88674, 53192, 36434, 96161, 187378, 180274, 80354, 11160, 137770,
       46165, 180520, 79228, 17287, 210960, 196818, 84874, 45117, 60083, 100754, 148269, 135101, 24881, 5268, 26586,
       64863, 44722, 175702, 52067, 195841, 45938, 26961, 239472, 142295, 32153, 179615, 126534, 31152, 111665, 98612,
       54910, 30950, 170009, 51178, 163724, 143429, 72637, 82520, 110580, 12217, 81668, 204723, 76185, 168827, 257571,
       2863, 107606, 572, 33734, 176376, 53438, 65816, 61280, 251991, 90038, 30187, 203921, 101091, 85935, 165130,
       4661, 24338, 244984, 70449, 126190, 203539, 46456, 186923, 32190, 91083, 26738, 181936, 37195, 152300, 75767,
       97481, 90068, 25829, 78936, 103804, 215204, 103503, 246068, 254714, 129026, 127106, 97210, 119090, 47500, 50960,
       77763, 191999, 56563, 117147, 51410, 249563, 20065, 206556, 130327, 5640, 184572, 121629, 69878, 220549, 254214,
       127712, 156053, 214428, 93026, 150900, 88531, 39995, 163872, 30470, 87657, 52102, 122086, 5230, 205461, 37422,
       61685, 14396, 194424, 31097, 151240, 105650, 6448, 131103, 227403, 32756, 66432, 134167, 94694, 87465, 171586,
       72245, 109070, 16362, 3071, 172749, 219584, 53705, 38477, 226354, 98588, 149687, 194981, 125121, 248091, 183911,
       114603, 208542, 208783, 199, 51598, 169424, 28665, 185638, 105031, 27228, 128159, 245024, 54145, 36528, 256636,
       84640, 89727, 161638, 20063, 17812, 30317, 120019, 219619, 47030, 101858, 70322, 160424, 54962, 177127, 242324,
       76545, 50573, 104871, 71015, 18988, 199854, 76314, 15167, 13222, 112737, 6957, 42232, 26230, 21333, 215909,
       89615, 198522, 65340, 14029, 833, 135911, 60183, 141689, 199883, 83340, 176221, 72265, 1638, 161934, 44276,
       14164, 120941, 183376, 11962, 135791, 33491, 49111, 185981, 157030, 81527, 251132, 234896, 130543, 33678, 124886,
       33302, 164537, 45733, 17820, 127850, 180059, 54363, 201811, 109408, 19133, 76522, 168758, 3217, 26814, 11598,
       73919, 63381, 26743, 115287, 86102, 33137, 112833, 90434, 3206, 13210, 146752, 139028, 19330, 24704, 250372,
       64372, 55263, 250095, 48197, 89057, 143718, 92153, 101310, 187754, 64872, 237706, 230094, 2636, 243772, 35885,
       37298, 103802, 153673, 118160, 89777, 222553, 67044, 127128, 85003, 104588, 193667, 155382, 52729, 197741, 163099,
       88730, 256704, 168731, 22151, 154583, 160482, 96538, 232889, 17111, 103098, 196848, 28691, 11814, 226503, 169768,
       24026, 237427, 93019, 60671, 215709, 233017, 83550, 28289, 30933, 83557, 69259, 225119, 87582, 183781, 78424,
       93639, 218957, 5185, 66291, 221443, 92344, 75347, 120242, 22434, 1101, 212014, 88998, 21836, 180263, 126746,
       65347, 206078, 19374, 97726, 97860, 77192, 106027, 106036, 43134, 95544, 28208, 233758, 63753, 203881, 147457,
       36867, 160104, 212589, 58289, 219297, 241139, 1218, 78874, 139330, 78375, 194466, 176658, 9773, 166004, 34084,
       19056, 149557, 41798, 82048, 1991, 58875, 1749, 167033, 94399, 75177, 11703, 148813, 83673, 197867, 174538,
       103320, 205146, 123633, 8916, 235237, 226371, 384, 67891, 75345, 100513, 156728, 226856, 38017, 246953, 237653,
       116287, 199962, 71751, 24244, 53364, 111065, 76743, 107574, 194265, 14340, 142482, 36496, 52781, 105678, 143277,
       115613, 247562, 225617, 79737, 85097, 211645, 90389, 126907, 13681, 29618, 100439, 161769, 120946, 211978, 177405,
       81721, 23703, 103117, 13878, 163102, 199784, 2038, 121694, 183355, 2086, 261117, 151125, 6712, 113253, 234123,
       119487, 82391, 202212, 46973, 109276, 28939, 39089, 244803, 74653, 54597, 126104, 117774, 53683, 95986, 144026,
       31259, 207259, 57974, 12036, 21200, 50622, 14237, 237174, 109080, 78536, 225720, 38748, 52013, 252677, 155742,
       118286, 165833, 155505, 60782, 235435, 260428, 65993, 169819, 226827, 121666, 242794, 196186, 65751, 14419, 160736,
       65795, 204934, 56981, 47600, 130587, 215210, 93115, 27096, 78177, 51410, 17018, 100071, 77112, 147723, 8954,
       58641, 653, 146330, 69303, 169454, 55675, 108400, 32022, 102207, 54228, 213535, 140849, 30156, 198755, 31174,
       74753, 10172, 83836, 122881, 40858, 205315, 90860, 179829, 62293, 40417, 206334, 37472, 126221, 138287, 147608,
       44920, 154578, 96924, 128877, 18719, 184093, 25164, 125229, 256743, 131026, 16715, 166129, 9949, 27615, 134349,
       93485, 203889, 187869, 97051, 41829, 84165, 89073, 55933, 164050, 101922, 124321, 134223, 61844, 22892, 108660,
       7092, 215798, 106984, 46891, 115234, 169745, 84189, 116857, 202001, 84704, 234090, 91976, 25584, 116913, 87279,
       33161, 235510, 144006, 63792, 130633, 218548, 95500, 114932, 147740, 111777, 249811, 233598, 11335, 194511, 126443,
       121322, 223762, 185451, 121599, 168944, 206927, 1039, 233686, 200678, 66376, 30383, 66395, 76958, 45344, 191880,
       72576, 85611, 138815, 80710, 110807, 25803, 65975, 67952, 2105, 38509, 225391, 192026, 12544, 43333, 39900,
       27312, 185101, 27313, 97026, 188291, 86239, 31596, 177606, 69255, 108751, 207909, 103354, 52886, 7140, 211565,
       54326, 46990, 40029, 113835, 227279, 248647, 28087, 69546, 199808, 24853, 202530, 143151, 129159, 49384, 22965,
       70858, 27575, 221862, 24971, 243721, 28369, 21732, 97172, 128797, 112940, 39546, 239156, 78623, 2779, 247318,
       15078, 77087, 113491, 116248, 214167, 67128, 58183, 135503, 113164, 129677, 9534, 230275, 36930, 233221, 201601,
       69313, 34645, 13228, 22688, 157285, 105000, 57633, 37234, 166041, 23139, 33980, 23264, 40269, 103015, 80442,
       35371, 220721, 257270, 37105, 180325, 242597, 127117, 19473, 211980, 5039, 67576, 223085, 65124, 166160, 250544,
       82476, 132659, 179321, 86607, 82541, 151020, 98899, 212974, 249532, 99741, 67629, 198367, 125239, 180070, 89992,
       99046, 238589, 69511, 107962, 156570, 32556, 69771, 169373, 87377, 86202, 146937, 98859, 62668, 186241, 147098,
       36230, 140288, 171848, 41075, 195847, 244000, 47255, 196014, 114798, 44648, 210998, 38502, 69882, 127610, 128730,
       32457, 153485, 39661, 67717, 82602, 220627, 120093, 152341, 115118, 53210, 128706, 149732, 29182, 174315, 147590,
       45463, 25153, 123432, 114935, 97377, 103335, 123430, 60350, 109431, 116219, 216127, 157498, 37663, 59274, 213544,
       50835, 180136, 248090, 127786, 137953, 24676, 42447, 254296, 108430, 18069, 149630, 30919, 36974, 170799, 67488,
       126350, 121166, 196157, 54509, 164376, 79617, 122405, 202802, 156044, 13642, 69208, 165176, 100408, 114284, 160848,
       12234, 185012, 251826, 25886, 41845, 95138, 80753, 197388, 145904, 56947, 241601, 123421, 87382, 85896, 103805,
       127586, 81136, 128074, 6909, 76962, 162911, 25116, 233608, 179972, 83915, 112715, 97986, 117509, 134972, 139948,
       104549, 80442, 232953, 61024, 216936, 58574, 97710, 224555, 228349, 27275, 200152, 30857, 1799, 182478, 34218,
       74713, 58298, 153353, 106593, 158732, 125880, 56812, 81682, 106929, 74612, 150690, 242449, 55336, 35007, 192906,
       67375, 255750, 220012, 115913, 8778, 96483, 62670, 204578, 232914, 979, 220219, 54373, 104837, 199556, 184683,
       80965, 117275, 253399, 95734, 30266, 219555, 118107, 79248, 161624, 37514, 176258, 19902, 65938, 99803, 142422,
       78968, 189734, 143762, 45271, 29022, 181008, 110895, 187116, 166745, 91431, 103371, 189884, 96129, 52120, 242083,
       105907, 33732, 225991, 33827, 159858, 205908, 97732, 199401, 35629, 101424, 108185, 134230, 110414, 19890, 21693,
       64033, 165286, 238141, 66085, 37036, 59695, 12868, 108964, 29396, 111689, 51986, 231652, 69925, 95386, 153455,
       77913, 196040, 144245, 15917, 123136, 26564, 78882, 21732, 70516, 5503, 130291, 202330, 121006, 214816, 214098,
       113185, 152968, 255161, 25469, 150300, 81972, 77830, 168008, 117967, 78996, 256671, 26762, 105307, 129357, 139005,
       99211, 17245, 152263, 130186, 98239, 2760, 45985, 102035, 51298, 16335, 216196, 162388, 75166, 22354, 259107,
       100137, 240308, 68855, 37459, 132716, 140366, 30960, 10726, 25251, 105179, 86170, 2430, 98791, 232841, 211819,
       26658, 260045, 157923, 113937, 9596, 71550, 17659, 66631, 130498, 14318, 74023, 184768, 46020, 85903, 216406,
       116199, 157292, 200091, 91152, 192357, 190908, 51736, 145241, 117503, 20611, 50603, 244508, 93516, 208004, 226253,
       78531, 111241, 139747, 129457, 150606, 230673, 100343, 107421, 24812, 13385, 154983, 78673, 95448, 158404, 258700,
       33744, 25991, 146753, 126077, 155466, 26172, 2526, 60709, 214642, 31241, 23219, 48133, 65404, 187487, 802,
       10363, 171280, 202077, 45097, 1002, 57458, 65173, 152674, 257210, 58580, 114110, 252044, 60369, 216693, 126428,
       115215, 81124, 20205, 66229, 127239, 115997, 123344, 234050, 106993, 19363, 127627, 188388, 36733, 190290, 195731,
       86050, 219070, 33625, 37109, 116144, 61615, 45518, 44294, 140042, 118099, 148889, 191713, 70590, 7381, 258714,
       43864, 171600, 209514, 101805, 43555, 177180, 9262, 44733, 1062, 73880, 101094, 133544, 13063, 238504, 43904,
       23180, 49368, 153924, 8184, 222975, 172553, 118185, 104319, 220945, 6318, 66799, 113746, 67687, 193112, 41083,
       29488, 62398, 232260, 50277, 191206, 203248, 64704, 131973, 90195, 58990, 74144, 98470, 98053, 74488, 117026,
       119522, 97344, 79186, 39357, 73307, 34167, 3216, 149957, 184243, 117171, 56663, 75603, 128291, 48512, 52037,
       56800, 53772, 240431, 59741, 41872, 200255, 18894, 217504, 119776, 62327, 212245, 38470, 39760, 154942, 115069,
       130335, 100718, 234831, 24228, 102855, 261544, 49622, 31493, 142655, 80806, 38740, 216392, 45236, 8961, 66192,
       62183, 168325, 117516, 127596, 117119, 179983, 66593, 244161, 98348, 119317, 136449, 895, 5646, 251074, 60473,
       15704, 217572, 40403, 123799, 6225, 68039, 16873, 11605, 111339, 96541, 62464, 71750, 58458, 153197, 223581,
       53313, 83100, 244213, 86405, 83487, 107448, 95368, 25000, 61397, 122155, 20317, 165183, 33670, 129708, 75355,
       91498, 207424, 73637, 44864, 22726, 81126, 94058, 142732, 132732, 18627, 116616, 130522, 59971, 4476, 253918,
       24068, 187607, 143016, 44098, 178317, 233099, 93798, 256296, 224764, 30585, 165536, 54095, 89769, 27011, 158906,
       65003, 228881, 169555, 12063, 108948, 198372, 50684, 221716, 84537, 113928, 156089, 146002, 129668, 88231, 163545,
       48355, 59262, 71734, 7192, 141759, 180559, 17063, 254791, 228092, 103304, 49522, 74736, 85955, 84739, 239552,
       37357, 24317, 809, 51288, 74766, 105166, 106319, 21786, 194130, 54147, 38526, 181065, 99060, 185184, 60617,
       38693, 52872, 73730, 95002, 139477, 199995, 61131, 169256, 159092, 71480, 177315, 188768, 78477, 38404, 161758,
       59057, 190410, 65907, 61097, 85968, 210018, 34826, 251745, 31644, 129206, 28460, 97861, 118726, 259791, 165579,
       69125, 31976, 198577, 4538, 248083, 73011, 22076, 50068, 112861, 111926, 261104, 43911, 122003, 104868, 208766,
       21140, 230354, 516, 96274, 217402, 218737, 81660, 238874, 51866, 39765, 72032, 79721, 57159, 97637, 38849,
       88771, 15305, 70292, 13277, 15208, 2985, 24778, 52028, 149468, 4366, 173026, 236760, 118253, 100808, 94243,
       75221, 189098, 217374, 68606, 178485, 5462, 92568, 97844, 113214, 129545, 10621, 206290, 22575, 127367, 240053,
       17446, 123713, 146905, 38638, 217119, 152783, 118481, 201564, 256940, 53930, 253037, 221591, 104005, 54285, 118147,
       26598, 52368, 143602, 64697, 223488, 134933, 16707, 214566, 183573, 54119, 109861, 162963, 34377, 215472, 3663,
       72015, 25724, 101786, 102289, 105686, 6630, 122994, 21315, 210043, 37203, 220469, 237775, 97403, 198605, 141857,
       116076, 94065, 187759, 16364, 153414, 53226, 76799, 81003, 19531, 80195, 241004, 228071, 35702, 15762, 120471,
       2951, 7433, 168448, 33646, 149055, 124506, 76642, 87671, 137595, 25748, 36490, 216799, 37662, 237864, 168148,
       92788, 213041, 148725, 52208, 5562, 69821, 8575, 114377, 26904, 52319, 123411, 61991, 131041, 188157, 120716,
       34216, 143470, 230609, 34767, 184469, 249624, 22267, 92311, 255491, 35604, 14424, 152455, 75334, 17035, 122262,
       126432, 86677, 91994, 79651, 218818, 197992, 53719, 142505, 109802, 51070, 15474, 91578, 3175, 87856, 257068,
       333, 58886, 115596, 104489, 197286, 229270, 64246, 88698, 76663, 4352, 216055, 45701, 37490, 35865, 44333,
       46751, 2066, 155068, 102667, 63278, 106768, 56935, 244832, 123069, 103455, 39980, 221437, 83064, 206966, 195192,
       4343, 59990, 253028, 126967, 253183, 228118, 23780, 207351, 124782, 36126, 1885, 102987, 106075, 206282, 203806,
       24882, 181053, 225916, 52571, 99086, 205295, 113376, 33802, 95666, 83528, 144647, 123033, 39594, 80828, 104699,
       84416, 232023, 159646, 106512, 82642, 236384, 52938, 151007, 183890, 74930, 142670, 54880, 129489, 172362, 5442,
       126427, 47438, 217469, 66720, 141177, 187398, 12601, 111876, 21458, 91839, 210434, 203352, 35208, 174012, 73886,
       87749, 109518, 236281, 46105, 81204, 67257, 94209, 27800, 8527, 48145, 184119, 78117, 123364, 91067, 251300,
       17913, 258667, 171024, 8965, 251346, 163900, 102393, 86002, 216560, 52602, 156302, 51301, 61023, 242150, 149653,
       122397, 77576, 170538, 77322, 23158, 117693, 86529, 232576, 234590, 2551, 114794, 117445, 87885, 174160, 157187,
       50902, 51385, 20527, 60321, 60301, 127571, 105912, 195349, 25846, 68654, 176627, 100243, 129351, 34275, 53589,
       104439, 164698, 127899, 95497, 249407, 6921, 77160, 88480, 233002, 54053, 173835, 22740, 6930, 21630, 255423,
       2424, 77484, 50354, 6128, 200552, 29209, 125676, 157944, 237669, 42364, 15288, 7712, 91830, 74991, 31742,
       77898, 1000, 110138, 74929, 165153, 187294, 75922, 91819, 44323, 39622, 135832, 197114, 116199, 155662, 9611,
       120482, 52049, 99378, 84479, 74376, 223372, 113239, 144780, 85866, 7861, 218064, 105874, 13158, 126358, 114083,
       73277, 243319, 111584, 110953, 97216, 131493, 41343, 252306, 38753, 71834, 205794, 63357, 1305, 143335, 209517,
       129319, 149146, 189602, 100529, 187792, 123184, 47371, 243891, 138335, 128845, 119993, 191687, 12114, 189114, 40682,
       60840, 116894, 236156, 7713, 198083, 73474, 43904, 140324, 234249, 28752, 131538, 77929, 41490, 249935, 123390,
       124178, 218594, 192954, 55992, 66593, 195957, 42580, 40960, 241800, 83987, 83204, 3195, 89570, 148533, 209960,
       128944, 144925, 33109, 71572, 231821, 210154, 98640, 5746, 208147, 50091, 34971, 39192, 22417, 154929, 83941,
       56339, 102080, 257631, 54889, 206236, 73412, 55130, 170808, 164034, 91150, 49766, 32714, 53207, 175799, 225601,
       125064, 4526, 45846, 128810, 253327, 251295, 68598, 7674, 164780, 73196, 97825, 195712, 53428, 105852, 261996,
       46608, 94879, 197369, 129148, 188670, 123376, 5328, 256138, 236759, 53750, 215665, 64706, 19836, 127724, 27974,
       95195, 1921, 166214, 25486, 100592, 115936, 115952, 74688, 27465, 49083, 151338, 256841, 120212, 135978, 228382,
       129310, 189777, 105194, 101078, 256785, 84541, 81678, 149898, 233428, 19647, 238812, 24652, 122298, 22118, 106510,
       101825, 122277, 254033, 37754, 193019, 68018, 61407, 127281, 156235, 8868, 258907, 174284, 86376, 128518, 104173,
       16418, 181051, 95646, 85397, 133319, 139300, 88021, 231080, 22832, 42549, 204232, 171684, 124343, 30060, 230755,
       102100, 45500, 84457, 65107, 229017, 127562, 120398, 183636, 19682, 112177, 23145, 150826, 90730, 112010, 152201,
       20049, 123124, 222116, 65152, 124142, 112380, 113301, 166396, 141090, 79808, 165892, 52796, 71501, 72375, 156771,
       125203, 38373, 8335, 2168, 259005, 67402, 1578, 247402, 156921, 117023, 202169, 143310, 5051, 39281, 183008,
       43587, 44470, 218649, 121113, 227527, 201801, 90590, 197335, 224717, 84955, 126906, 98106, 86114, 21800, 252922,
       41634, 26351, 180126, 69538, 25910, 164575, 82571, 217435, 140924, 40070, 188525, 223273, 104249, 246198, 99026,
       42172, 52659, 135410, 9364, 86006, 52812, 26405, 14128, 67921, 53531, 44659, 101387, 119020, 183860, 40768,
       54494, 187820, 46146, 11770, 200246, 140483, 25749, 257246, 47356, 71364, 115963, 152457, 23285, 190801, 29121,
       8382, 172733, 72520, 93693, 261256, 104068, 102805, 257371, 255710, 111494, 52272, 250080, 110616, 36280, 30742,
       49710, 81704, 167306, 96268, 117831, 221040, 76485, 158699, 110245, 3062, 106370, 37049, 52638, 70106, 169255,
       6930, 249284, 128785, 10925, 169056, 83143, 7340, 92471, 213453, 125953, 48409, 151297, 110651, 29429, 241363,
       57554, 79187, 32383, 32505, 137388, 83196, 9496, 72122, 250701, 56517, 197938, 159084, 78689, 118705, 160837,
       104477, 242946, 100569, 6758, 52843, 15711, 54771, 15449, 184603, 128038, 172782, 209799, 15823, 21500, 110737,
       52468, 11081, 186652, 36052, 13468, 42168, 17568, 211390, 203467, 109962, 75824, 241699, 91372, 74671, 202449,
       53943, 139329, 254629, 48374, 101419, 59736, 108494, 179673, 202660, 11899, 57728, 166373, 19245, 191820, 5960,
       118823, 84583, 157877, 107112, 238697, 202305, 101564, 203973, 33765, 81785, 202467, 2639, 38332, 3449, 201767,
       122524, 91730, 172716, 64470, 60346, 47120, 36781, 95207, 199146, 47916, 155933, 53944, 2207, 101067, 257904,
       33444, 54670, 166720, 24635, 205278, 28025, 17767, 178307, 160134, 4212, 171228, 214801, 29737, 4749, 248488,
       13568, 106277, 23556, 5916, 167681, 69761, 17999, 27038, 189665, 26529, 108439, 152182, 54521, 3637, 214252,
       76506, 42201, 199672, 42240, 8158, 38437, 18515, 40397, 227988, 123250, 32751, 200853, 67482, 237441, 185021,
       97239, 193715, 207213, 91021, 743, 142478, 37341, 258932, 209585, 73382, 58270, 83229, 78926, 224131, 71890,
       46109, 249851, 186793, 87918, 187504, 8676, 103635, 146001, 41982, 47737, 211105, 48658, 1954, 258887, 224946,
       45788, 41947, 140805, 15311, 66788, 108188, 20395, 219480, 88610, 47965, 191323, 194683, 27213, 81942, 46224,
       122537, 200513, 133071, 85564, 48401, 100219, 67943, 7105, 223214, 1274, 154414, 42377, 13581, 100884, 54430,
       103347, 96554, 17498, 51084, 129632, 156583, 5962, 231788, 41498, 108207, 178662, 9474, 39668, 109639, 152137,
       50632, 141495, 193493, 127712, 131813, 25441, 2033, 74971, 82667, 94545, 112946, 245390, 124372, 38471, 159467,
       8370, 53261, 246043, 113518, 117371, 189377, 54557, 165479, 197004, 115080, 199051, 156699, 40406, 43893, 56791,
       128799, 148924, 95587, 84810, 15787, 125333, 82193, 258925, 189374, 105631, 96521, 180326, 57224, 54872, 3589,
       33904, 90706, 259661, 34462, 206102, 229546, 43332, 234573, 231759, 80917, 168956, 200683, 109889, 109778, 63012,
       65480, 176077, 57515, 52880, 200919, 232242, 104051, 55261, 118770, 37967, 92243, 76293, 90313, 60498, 130752,
       13868, 26710, 34305, 14842, 95953, 143527, 84417, 167628, 29394, 10846, 72196, 85751, 20322, 227058, 259367,
       81837, 78921, 27494, 57436, 61600, 76514, 73570, 65187, 214492, 128049, 225821, 6907, 82832, 104114, 29321,
       77443, 261256, 156293, 49825, 120220, 102702, 82690, 101746, 108240, 1703, 229069, 240339, 73049, 20898, 157581,
       9030, 134961, 102117, 28858, 109248, 182891, 73809, 103808, 171958, 87549, 161033, 142168, 50436, 13669, 20986,
       54916, 140390, 220772, 65276, 207821, 43773, 99493, 111931, 234743, 2310, 132979, 222563, 58598, 25357, 243307,
       1870, 227809, 170024, 41830, 147313, 162305, 68137, 156891, 75470, 10475, 47277, 97685, 63597, 237905, 231315,
       121185, 196790, 118737, 89829, 50040, 6705, 102531, 110679, 93339, 76076, 13738, 259403, 117487, 147910, 60305,
       19250, 118448, 74650, 58954, 93046, 129032, 78254, 89154, 100389, 114488, 41935, 120937, 40371, 136024, 194442,
       147, 221852, 240274, 127718, 106525, 138742, 3404, 235197, 134008, 19971, 3059, 247906, 55318, 119667, 4667,
       65060, 48268, 99501, 109375, 31974, 70627, 58696, 103371, 156327, 71752, 165622, 90097, 26214, 100420, 29524,
       74600, 201592, 83418, 45663, 92788, 168988, 12941, 9849, 29903, 124054, 205545, 199281, 10706, 137012, 160389,
       88850, 248293, 24571, 119038, 181650, 54646, 23488, 186761, 113165, 31079, 127594, 163566, 55929, 81034, 39028,
       38602, 2765, 168375, 99487, 259966, 3127, 44322, 115142, 173489, 129215, 114282, 172761, 112562, 251694, 215310,
       117354, 143210, 40276, 8344, 158649, 46159, 23109, 26842, 12707, 22199, 119493, 140522, 88075, 196703, 225521,
       1561, 64916, 68708, 105699, 234588, 72320, 71702, 108980, 92085, 74227, 204911, 191827, 70429, 199107, 209280,
       70168, 224515, 72303, 25937, 84823, 20790, 37116, 244448, 216254, 63912, 260946, 216921, 88846, 113765, 15644,
       35645, 137162, 112008, 105661, 187928, 58102, 106246, 17743, 221377, 35897, 241606, 69113, 73408, 209140, 261220,
       45734, 4296, 106460, 24993, 146988, 36066, 105644, 6869, 200518, 129955, 111737, 209296, 74149, 247496, 117807,
       119792, 215613, 72029, 84170, 91735, 86491, 74150, 140774, 214734, 62933, 144105, 43186, 30895, 165705, 1297,
       11043, 132885, 102062, 57977, 223725, 217009, 73572, 3404, 236830, 66774, 153374, 196755, 91169, 218713, 30721,
       25178, 202312, 50266, 46426, 24340, 163203, 54469, 61179, 219475, 24447, 257611, 53822, 118812, 20293, 191140,
       89327, 18283, 131652, 12040, 152426, 50951, 93427, 226671, 15690, 71799, 161768, 25499, 68673, 242447, 110235,
       129733, 52721, 16025, 81028, 214442, 124686, 117535, 251058, 147522, 119740, 180008, 107511, 13293, 37460, 67149,
       1096, 15117, 96511, 57051, 79783, 49344, 100831, 189015, 361, 108029, 3213, 31691, 103218, 110016, 183093,
       58626, 243085, 184740, 98299, 77842, 79353, 94211, 124943, 204439, 41132, 240349, 260148, 22114, 141891, 28904,
       81450, 155740, 190302, 88747, 17719, 238413, 74445, 14258, 239475, 27941, 227938, 220528, 36264, 32884, 214777,
       92862, 186796, 173731, 126172, 219807, 132252, 123841, 128966, 60839, 68112, 165823, 182981, 116203, 32368, 160692,
       3860, 59697, 30097, 112872, 244025, 37812, 62410, 10676, 242475, 102436, 91970, 233340, 731, 200048, 198274,
       113843, 261915, 163534, 77985, 44319, 78194, 31487, 125503, 258627, 45545, 78357, 188035, 26301, 184902, 75357,
       55627, 186513, 119881, 43254, 144318, 173226, 70058, 104968, 97489, 106795, 111769, 198677, 128748, 205404, 255782,
       32959, 14650, 5288, 13960, 65800, 40786, 51860, 235347, 115324, 18815, 248010, 41318, 109345, 139399, 179794,
       65683, 115398, 148106, 81259, 185961, 147609, 19741, 23255, 228875, 98252, 190502, 128640, 127609, 82641, 243432,
       63227, 52345, 224414, 126151, 53438, 256099, 4550, 80701, 143672, 4682, 64892, 119588, 125830, 212923, 155929,
       91785, 55675, 220550, 24731, 246389, 71865, 47693, 209103, 138738, 66552, 55081, 147154, 92096, 34937, 164110,
       110366, 27602, 138384, 10833, 246488, 100897, 86058, 126750, 72876, 62483, 135897, 167548, 78331, 143363, 29169,
       66654, 66779, 6041, 59073, 62787, 204653, 26936, 255124, 2925, 61910, 3330, 121923, 24858, 125371, 68715,
       5847, 83054, 125764, 48997, 242136, 137580, 3270, 261774, 55868, 73733, 234197, 176198, 9488, 163484, 153653,
       57351, 8126, 247108, 128469, 73919, 126351, 1295, 49983, 37934, 48084, 94867, 203467, 88245, 238303, 185862,
       20829, 145888, 260146, 73496, 125794, 127181, 33841, 138067, 45322, 29198, 193447, 108968, 117307, 74439, 77215,
       26644, 99337, 20979, 49355, 101143, 240807, 22229, 126919, 93163, 37209, 192367, 215117, 38418, 20650, 240629,
       42830, 208082, 3422, 84025, 242625, 194369, 97333, 30415, 75435, 66934, 131459, 145041, 80016, 80680, 102167,
       106596, 199545, 57175, 131014, 108790, 157772, 59835, 40014, 51407, 122740, 89707, 87387, 64273, 206787, 249379,
       102498, 71187, 117752, 75133, 128705, 210783, 115872, 206918, 52020, 58812, 111684, 114244, 91201, 226453, 26309,
       61120, 227649, 92669, 112332, 77476, 35564, 130333, 233704, 174591, 31891, 205159, 153712, 62172, 145905, 144093,
       10650, 124657, 57478, 18480, 145461, 36092, 121785, 150126, 140868, 71252, 142845, 122990, 51788, 169504, 234269,
       88012, 146297, 180990, 73421, 120686, 147026, 37842, 212175, 94000, 29702, 214057, 129482, 77363, 237112, 185225,
       24676, 88364, 246845, 18241, 148266, 172292, 41731, 182081, 260433, 112897, 182407, 58862, 4825, 261556, 252820,
       109217, 229217, 94145, 81392, 74098, 61527, 5291, 193482, 223538, 78910, 116614, 119518, 55839, 56470, 257713,
       110248, 72836, 157609, 118908, 91594, 44350, 37551, 60718, 254635, 102782, 191739, 52552, 40606, 124897, 35033,
       38749, 139110, 122317, 25249, 129130, 69082, 88930, 239577, 89765, 34299, 167538, 16920, 60929, 239234, 23542,
       106447, 66238, 254238, 103797, 157283, 85302, 112124, 150388, 59989, 21111, 12553, 131712, 76925, 54562, 24668,
       119909, 232821, 109263, 5511, 154379, 180907, 104140, 55886, 156074, 32274, 210799, 244968, 87772, 219162, 3681,
       94031, 187152, 189618, 121318, 78084, 43983, 66689, 93820, 63594, 111179, 91173, 154609, 5939, 241840, 73589,
       55121, 100478, 50533, 57608, 163844, 222269, 70553, 61967, 29598, 63090, 67818, 249712, 126872, 171039, 217500,
       10294, 88769, 229362, 34736, 69183, 11923, 126960, 29266, 84145, 58366, 182278, 90824, 74862, 196494, 98051,
       10620, 47223, 147690, 37231, 30654, 185693, 5197, 59623, 224516, 18023, 9100, 55955, 83009, 220147, 204548,
       100089, 137253, 242666, 114043, 200536, 60104, 32959, 246228, 115210, 43629, 33933, 169999, 74632, 48268, 6475,
       10968, 228981, 225121, 105738, 46084, 204093, 63346, 14868, 148666, 126551, 1558, 240059, 15376, 221232, 131418,
       17470, 166936, 35300, 45688, 189211, 76173, 27100, 192675, 11532, 91303, 121630, 77824, 124100, 89207, 12688,
       11783, 252688, 42224, 31750, 105028, 253809, 31181, 206060, 166046, 66725, 58887, 245824, 59247, 230368, 131652,
       95271, 211650, 120578, 96027, 115179, 197794, 75072, 19145, 115113, 77466, 123091, 131551, 110404, 24603, 151339,
       52027, 66261, 235882, 1617, 213626, 37480, 27922, 80218, 1112, 4634, 257575, 101622, 51576, 88320, 44940,
       46902, 60580, 134493, 12927, 163257, 225879, 98962, 187235, 91938, 72490, 203562, 12205, 29583, 45605, 2320,
       99500, 45355, 18054, 87547, 20238, 102059, 25112, 198748, 18315, 128829, 36509, 193283, 23255, 154482, 120441,
       101148, 77856, 32286, 126915, 64464, 244914, 95093, 5705, 127504, 87264, 191898, 74986, 118400, 38974, 234635,
       35275, 182168, 83243, 36327, 93985, 50387, 84038, 45735, 211803, 115623, 147602, 191367, 80920, 121732, 246151,
       128063, 192567, 150638, 29216, 65927, 121797, 108249, 181221, 172690, 121538, 78880, 17788, 55968, 15284, 40348,
       126088, 255261, 28946, 26495, 234070, 148758, 124889, 222639, 15909, 118332, 224911, 109878, 8669, 228525, 166590,
       68331, 255990, 162436, 69315, 260088, 57713, 7467, 162794, 54117, 5181, 112254, 177343, 668, 11863, 80391,
       68748, 110919, 150898, 60793, 62611, 98683, 123267, 261748, 30471, 44866, 202750, 156846, 86275, 47497, 28117,
       991, 92244, 57664, 86971, 81570, 211093, 119729, 8459, 50248, 46500, 38172, 94725, 41164, 24233, 235332,
       82054, 258591, 150788, 43063, 255937, 100988, 52745, 204815, 222432, 35797, 244120, 9367, 45205, 83373, 181248,
       89051, 185543, 151046, 120897, 146914, 193707, 76430, 29263, 244442, 1315, 27320, 27813, 34588, 242708, 174793,
       124811, 211924, 112050, 119317, 181987, 235570, 15158, 30143, 172066, 119068, 10824, 5331, 126422, 196111, 251644,
       42542, 75371, 244068, 91882, 95557, 74112, 73398, 3975, 191098, 44177, 202596, 217185, 20098, 7202, 213206,
       48092, 253654, 50091, 121608, 39901, 92985, 106331, 248272, 43301, 43342, 45109, 223188, 71784, 236909, 181948,
       53210, 54827, 234696, 61110, 190634, 76636, 99773, 106702, 19618, 71172, 238228, 228903, 23729, 225419, 210792,
       35263, 9911, 9067, 74421, 229917, 18545, 90809, 64319, 104908, 66600, 94544, 79105, 81292, 61576, 84270,
       103465, 56569, 226202, 71485, 159708, 244104, 128082, 114751, 63844, 30876, 119099, 168839, 120545, 99183, 137866,
       32461, 69369, 133636, 69683, 188199, 7385, 59756, 160500, 256223, 48874, 145712, 195897, 126187, 146402, 243140,
       35691, 28884, 145084, 88456, 116193, 229138, 105390, 229604, 76419, 25822, 21303, 220950, 127553, 26311, 91131,
       71649, 68270, 159994, 119864, 31457, 1008, 87016, 57213, 136357, 85121, 177257, 221271, 45296, 172985, 239336,
       101002, 207429, 20965, 3904, 39889, 244857, 72852, 131657, 55250, 4212, 139275, 16419, 40222, 81293, 46796,
       12621, 178390, 2419, 119484, 15536, 199264, 82347, 89853, 67845, 87623, 6180, 6963, 111559, 27480, 54785,
       96080, 8545, 69575, 16278, 147470, 232335, 80941, 258059, 2409, 128210, 208135, 141018, 28064, 156776, 176455,
       81227, 37848, 67839, 73874, 14517, 175307, 51333, 217714, 97368, 125125, 254019, 154231, 46714, 29187, 258455,
       12278, 231468, 235203, 126162, 113763, 31560, 95580, 91998, 219434, 44885, 154690, 103935, 36767, 57599, 69490,
       121638, 81522, 138763, 35854, 194628, 148109, 70406, 86632, 54706, 28174, 154951, 138883, 130444, 201818, 35599,
       100861, 7712, 58748, 74401, 12288, 56842, 97756, 252797, 224353, 120110, 47741, 57772, 126238, 161064, 47763,
       103025, 17621, 43512, 111288, 203057, 26799, 52139, 169157, 44178, 51357, 6192, 185926, 105945, 15432, 895,
       99565, 153669, 23857, 118093, 124218, 203080, 17433, 221939, 225166, 90546, 67395, 116944, 84888, 143996, 39573,
       104663, 155324, 53618, 3218, 34129, 183026, 108298, 146946, 260935, 42785, 103362, 260253, 90062, 123720, 186722,
       80813, 182495, 140134, 57697, 176765, 192750, 97783, 84127, 222468, 125988, 232691, 116848, 42398, 134366, 186108,
       98098, 259018, 239987, 41226, 262023, 227299, 110841, 117547, 88653, 57314, 70359, 80680, 58886, 41496, 13224,
       101171, 244195, 49656, 65033, 250308, 42372, 34949, 168653, 179434, 130487, 4448, 147432, 81294, 47893, 196670,
       84561, 11194, 26294, 84748, 205818, 100932, 115783, 167643, 197225, 24100, 123607, 103647, 7753, 27809, 228191,
       50685, 159773, 200416, 74043, 66012, 261824, 37448, 139320, 220682, 90335, 194115, 186377, 9688, 82625, 130977,
       103639, 228535, 138398, 94120, 254482, 151005, 28042, 44864, 131466, 39118, 260561, 85863, 105775, 97523, 24447,
       101362, 245828, 46043, 106661, 251074, 190430, 42237, 3713, 116049, 127083, 166241, 77509, 93760, 212965, 240654,
       8545, 261516, 89151, 62617, 173745, 23780, 87103, 133783, 174593, 22105, 83364, 198356, 118196, 172164, 111232,
       98842, 140424, 147112, 10673, 111322, 40745, 119694, 184141, 125968, 53001, 142268, 134426, 59306, 20804, 197994,
       102643, 144914, 28003, 84410, 16871, 59918, 57347, 199529, 33911, 34029, 137134, 234761, 67750, 146114, 4988,
       75914, 64972, 9072, 82697, 148025, 246058, 79306, 222887, 223447, 80911, 53442, 163177, 62355, 230174, 174420,
       73647, 199972, 45598, 37832, 100701, 41566, 20758, 135501, 59637, 79552, 71884, 24122, 6160, 55716, 139169,
       8546, 211583, 126152, 32416, 53019, 62865, 25470, 217628, 214226, 49035, 198276, 93310, 48665, 148706, 4314,
       15316, 125382, 109769, 32309, 168417, 178668, 598, 233360, 177635, 46001, 138552, 176273, 104390, 92168, 37403,
       34886, 31984, 186171, 84324, 243321, 172570, 12878, 131803, 238142, 1610, 46267, 168599, 65325, 217301, 9110,
       60487, 167989, 243078, 25102, 210861, 245709, 37563, 69049, 2665, 4020, 42637, 123221, 104569, 59093, 214673,
       39489, 190204, 257161, 28764, 155138, 182894, 105468, 24692, 125506, 5147, 178880, 261592, 37293, 96441, 201274,
       34439, 128631, 201526, 34468, 90839, 155118, 1506, 202412, 212750, 122509, 76428, 99556, 113265, 62789, 225188,
       54328, 113758, 10478, 58384, 12541, 51933, 68701, 247783, 253519, 62693, 214450, 22469, 102122, 160219, 230719,
       64018, 46370, 212511, 24749, 164420, 130949, 15331, 193762, 157273, 120359, 176504, 141742, 6341, 160407, 73655,
       117645, 14562, 57244, 90502, 128103, 111754, 53045, 118651, 90020, 24533, 223772, 187996, 40695, 137469, 210178,
       69451, 158713, 48229, 86094, 201035, 239499, 90632, 176602, 61348, 58627, 178620, 180687, 49017, 139557, 138004,
       100704, 238598, 30557, 121295, 207107, 158067, 119860, 198672, 216226, 72302, 9888, 160513, 10357, 92029, 260979,
       9606, 63487, 44413, 52789, 260681, 92702, 96056, 150969, 204246, 65187, 229987, 25711, 82229, 165657, 44553,
       110535, 135392, 143985, 5286, 226918, 104989, 121086, 127722, 191769, 43371, 100335, 223717, 6132, 134353, 250873,
       109501, 75783, 22479, 122441, 114423, 79363, 100744, 216095, 206067, 105449, 117486, 108839, 114204, 33691, 72144,
       68467, 61024, 165091, 89189, 165304, 172113, 37545, 204929, 198288, 32728, 195531, 101473, 79815, 86659, 137945,
       96286, 133470, 115536, 52054, 1884, 98439, 52466, 249690, 170883, 125073, 79225, 16222, 67955, 167964, 50275,
       129274, 66217, 104015, 113094, 134743, 102660, 83841, 54415, 197896, 1197, 110214, 206706, 38787, 131803, 111354,
       54741, 106460, 155428, 85565, 198141, 60424, 51842, 61, 221118, 108504, 139528, 215252, 86888, 83820, 203385,
       45502, 253413, 141253, 102817, 88985, 174167, 39726, 171359, 163137, 8229, 148421, 173951, 22617, 78006, 94473,
       359, 52918, 176299, 109097, 213891, 192228, 82196, 95623, 210525, 74785, 173198, 76190, 86775, 259213, 123762,
       85668, 115252, 214133, 74121, 54590, 241474, 110416, 96863, 196709, 57795, 211418, 262102, 105487, 257910, 97650,
       103105, 170477, 36096, 26149, 130507, 27908, 59475, 176604, 142835, 109436, 61986, 89632, 108901, 223270, 23424,
       3146, 154172, 151081, 29235, 164009, 165408, 55558, 17017, 243656, 6180, 161323, 123791, 34160, 154814, 241261,
       33855, 229764, 124186, 28123, 237755, 35425, 51990, 232168, 216253, 106562, 248554, 45994, 31996, 121421, 22573,
       76292, 190504, 153335, 73082, 228463, 15610, 107206, 247829, 124119, 51642, 76043, 67163, 29303, 153594, 104169,
       116853, 103416, 206314, 109176, 9818, 14628, 81461, 191442, 14218, 12221, 18745, 51632, 2112, 156266, 216750,
       23936, 255417, 254594, 25773, 212108, 246146, 17858, 58066, 54067, 34364, 166906, 233305, 44287, 191234, 80875,
       98885, 196588, 177544, 92998, 127337, 220855, 13681, 54120, 114028, 128071, 95744, 44255, 98584, 103893, 155613,
       21421, 137410, 78946, 16318, 3812, 227190, 11474, 247850, 221351, 95917, 1079, 18041, 30970, 144717, 184504,
       9564, 16007, 192140, 55289, 206680, 91693, 92890, 136524, 191362, 39918, 214574, 201760, 63261, 84008, 198038,
       25254, 76921, 19024, 56249, 93042, 39428, 47047, 72392, 260468, 56874, 145362, 235897, 61041, 196787, 93632,
       12097, 208084, 206568, 12237, 256027, 227041, 34158, 196725, 48884, 15172, 177993, 87032, 33132, 247872, 120619,
       3217, 7606, 117946, 45972, 30420, 208284, 27972, 26653, 97713, 116935, 106527, 201706, 112480, 113315, 180166,
       39376, 130596, 246556, 62322, 205764, 185200, 125277, 152788, 38260, 68694, 94341, 222315, 111205, 221672, 144454,
       108314, 155909, 55004, 123376, 164665, 251942, 40068, 208325, 228709, 5694, 134133, 18071, 13625, 111093, 238120,
       74881, 28416, 26712, 69504, 155809, 198457, 39118, 219142, 261154, 32599, 91571, 74293, 92980, 11204, 162185,
       44630, 102875, 147243, 79161, 44167, 140906, 93361, 195289, 164830, 56421, 251116, 132098, 25350, 38280, 132799,
       112824, 46470, 45481, 12259, 75649, 130911, 108720, 99969, 48994, 109665, 69574, 73596, 74842, 4113, 61986,
       82506, 179571, 219570, 46926, 3206, 36851, 110308, 33334, 236105, 34564, 44426, 148548, 73370, 253812, 170112,
       235, 66236, 215249, 123187, 30298, 116222, 124295, 31987, 37205, 93115, 192873, 239853, 55474, 233633, 133290,
       23410, 239672, 196602, 64548, 25008, 77646, 103731, 197507, 143227, 79334, 111191, 160564, 69140, 8025, 17062,
       111338, 92256, 30493, 41043, 23919, 259016, 112717, 51775, 104355, 57600, 9543, 3845, 316, 101109, 89360,
       95937, 26957, 32243, 115060, 180384, 128049, 63486, 37720, 106727, 59604, 186831, 150712, 105571, 192946, 42520,
       115969, 51284, 6863, 127719, 50359, 119463, 45305, 19649, 190463, 77947, 12067, 105553, 107861, 145044, 1434,
       69710, 234702, 206145, 60536, 10508, 233129, 74964, 73858, 3618, 46775, 71126, 261549, 25175, 209139, 237831,
       8733, 124071, 244368, 79951, 104531, 240701, 49693, 235674, 220217, 115730, 109063, 1314, 29223, 184948, 183656,
       40725, 156602, 51330, 127206, 50697, 70521, 72914, 52634, 112136, 45449, 161174, 160024, 112839, 36912, 145785,
       97435, 172945, 189010, 75122, 259688, 214765, 116536, 19578, 152103, 12315, 190035, 79708, 51707, 28879, 117499,
       106240, 110941, 159144, 50586, 83914, 117275, 121469, 55059, 157994, 19991, 65351, 82883, 44123, 190055, 21895,
       55802, 243559, 150046, 90041, 129648, 254656, 25604, 222119, 3077, 1292, 228754, 251134, 127993, 7557, 101764,
       117801, 233430, 116426, 39350, 185906, 57337, 63370, 209884, 57969, 64083, 196559, 190343, 113931, 34610, 25637,
       78257, 227231, 199284, 108321, 253497, 41698, 119536, 235249, 94918, 74180, 159614, 51145, 37418, 198708, 40090,
       65366, 165026, 221276, 111525, 47541, 11927, 76496, 34714, 228649, 117404, 16189, 228553, 117366, 154300, 56334,
       48936, 260077, 253772, 58735, 48371, 195694, 88855, 134317, 248197, 14557, 115415, 26945, 61021, 135162, 138869,
       19580, 65291, 27652, 111143, 82042, 28727, 123572, 168010, 157408, 18553, 24697, 143003, 87469, 203242, 191615,
       83432, 260603, 195783, 99624, 137447, 173183, 91197, 60466, 121127, 28459, 140749, 139790, 38169, 216273, 83911,
       21657, 83092, 84167, 120736, 48823, 3241, 68396, 116711, 202240, 127947, 103422, 132658, 58893, 134666, 67588,
       72446, 139329, 218552, 103454, 87279, 65922, 104493, 183380, 68740, 30297, 62747, 68477, 37785, 212816, 51409,
       12819, 193412, 192654, 105573, 221026, 220033, 104053, 4553, 211182, 10650, 197788, 111444, 33742, 53615, 87966,
       58964, 253951, 78347, 71012, 13026, 209805, 68490, 240092, 193378, 128853, 168849, 56842, 100155, 118215, 173248,
       14835, 197717, 258651, 38469, 247380, 115799, 45275, 219876, 95838, 41307, 22936, 206919, 103015, 122967, 251191,
       47259, 127448, 105556, 64543, 93041, 77025, 69920, 237158, 103239, 35444, 254726, 183442, 42296, 100525, 216175,
       102235, 220552, 93445, 113597, 227919, 217122, 4860, 42787, 173320, 79318, 214574, 183081, 83025, 172857, 148026,
       96640, 155101, 129003, 90943, 231803, 11228, 115005, 205234, 12389, 10285, 137078, 25563, 50904, 190329, 72104,
       102510, 7378, 123169, 110962, 245189, 109084, 34703, 191035, 112033, 76714, 91808, 48305, 23693, 60846, 33602,
       111528, 111207, 165067, 95738, 246545, 129218, 29106, 134751, 20876, 81759, 51035, 190350, 66757, 167856, 210022,
       33924, 245711, 62012, 117063, 95845, 99623, 19377, 155301, 79524, 61270, 233636, 148282, 76388, 140709, 243195,
       107943, 203149, 236743, 19684, 100001, 20798, 79845, 192478, 33551, 859, 209387, 259053, 107817, 99095, 131243,
       30766, 223235, 2269, 94491, 212868, 220842, 78889, 85353, 178248, 6570, 77683, 130908, 24016, 85109, 98915,
       35093, 80869, 44113, 116225, 44962, 255991, 63019, 225905, 62667, 119734, 181876, 111247, 6219, 92632, 50508,
       860, 89143, 148476, 124288, 152323, 203188, 94885, 62074, 107701, 102670, 235765, 230834, 120036, 124112, 125630,
       129045, 119400, 143963, 12807, 86316, 216365, 20747, 147601, 250247, 24716, 183265, 53573, 107271, 167607, 163062,
       46602, 167306, 76351, 77761, 72124, 33656, 112095, 169462, 249455, 89543, 33165, 128329, 8574, 33166, 44321,
       58415, 95354, 136957, 8847, 96145, 13873, 62762, 257186, 157687, 28744, 116788, 77455, 171, 122769, 108913,
       106581, 113155, 116674, 127058, 248560, 28812, 126370, 209417, 180056, 39214, 210165, 75285, 108629, 3832, 16291,
       88968, 169350, 224997, 104867, 160597, 25966, 110918, 29743, 91064, 128487, 24873, 135455, 19887, 132924, 238836,
       100892, 39545, 238254, 96226, 257214, 47690, 37714, 29286, 19601, 51457, 61895, 246177, 23168, 8080, 139998,
       119704, 142596, 245079, 115256, 76577, 193624, 80482, 209042, 130001, 67060, 96297, 67734, 30525, 37531, 190787,
       103494, 240497, 260007, 1075, 113840, 173291, 60658, 98890, 159353, 112794, 42962, 88093, 81066, 28771, 145326,
       83246, 215243, 246908, 9267, 200196, 251376, 37578, 252260, 165027, 88324, 122424, 96531, 6503, 115057, 152610,
       43376, 107762, 100492, 46392, 58152, 181681, 65368, 4374, 138162, 47497, 65294, 255594, 59522, 24607, 152083,
       71696, 9487, 225749, 16822, 211887, 76792, 23655, 71710, 14378, 109118, 230962, 142768, 60262, 184485, 67088,
       46550, 129138, 56732, 56869, 188173, 260618, 22913, 214264, 129125, 31437, 67993, 152658, 67570, 183965, 34245,
       47045, 56026, 68482, 62318, 257512, 190819, 19622, 23822, 161253, 20508, 161809, 130194, 50324, 47046, 208938,
       49657, 164530, 35042, 115780, 35895, 132114, 4384, 141394, 61373, 130135, 143772, 111799, 125373, 102345, 257314,
       71073, 240282, 106965, 94209, 4554, 195025, 122585, 183098, 137945, 32924, 127828, 200613, 41370, 87834, 4068,
       14539, 31484, 29489, 73904, 114895, 26609, 20899, 57015, 63370, 122011, 19249, 228587, 56566, 86450, 226248,
       120545, 46812, 203862, 26882, 223951, 117786, 90968, 196289, 52285, 84881, 49507, 29408, 52386, 76228, 89873,
       117747, 165244, 13262, 56990, 98151, 146418, 26008, 179958, 258021, 128055, 112165, 143521, 57865, 222941, 96482,
       27272, 141906, 119976, 47662, 15748, 52864, 80413, 238940, 238973, 67112, 124032, 214581, 83246, 15313, 133970,
       86750, 250926, 223184, 16171, 209345, 59512, 41272, 157810, 38686, 98133, 193007, 91033, 85244, 245388, 7539,
       11579, 260362, 155216, 41307, 6377, 3344, 122070, 67308, 175692, 112985, 189486, 15693, 87902, 131065, 413,
       9550, 106610, 32680, 79567, 245738, 23972, 1597, 137053, 53470, 86655, 41989, 211557, 95841, 94411, 137689,
       65174, 187618, 201241, 498, 247593, 177999, 87373, 241549, 214727, 107444, 254932, 230401, 76790, 215158, 40819,
       92955, 245193, 215394, 11838, 157603, 92243, 93758, 174520, 132904, 80503, 131051, 56848, 43387, 109418, 185277,
       89828, 25541, 96881, 84617, 220086, 117174, 78572, 118640, 99925, 23979, 5217, 152181, 38826, 98017, 164310,
       129942, 137012, 108347, 56768, 127313, 140986, 7789, 40185, 122524, 117834, 111175, 1479, 22666, 145375, 92790,
       52890, 39263, 22416, 36437, 229005, 28345, 126337, 21861, 255752, 49558, 35896, 171245, 92892, 249008, 241985,
       78431, 66295, 118544, 5632, 220644, 146694, 50372, 234236, 60511, 51120, 251312, 243403, 129739, 113672, 216643,
       106421, 31117, 220692, 112283, 102047, 95398, 41093, 221982, 198393, 43129, 221908, 20262, 67581, 123578, 236100,
       82708, 108914, 209149, 95458, 231754, 196779, 107584, 36920, 205072, 114452, 94710, 235508, 3227, 201165, 86859,
       104345, 230577, 132740, 80063, 164082, 205868, 69741, 109108, 25490, 82374, 89051, 143576, 115597, 107413, 94947,
       71472, 96494, 225613, 21258, 80297, 30449, 57249, 66749, 218241, 121170, 199224, 235358, 106756, 3928, 83618,
       26613, 155469, 102300, 93604, 65457, 183858, 33584, 39017, 68262, 45683, 115676, 40463, 61461, 245558, 110328,
       57785, 174027, 181113, 3837, 200656, 49845, 101450, 245664, 193183, 110937, 132389, 253597, 69591, 207699, 167790,
       22669, 11621, 215440, 32497, 192119, 40616, 16558, 230076, 160455, 22217, 137302, 163416, 114871, 41732, 173997,
       62935, 235229, 187733, 14550, 198510, 177118, 33389, 254536, 109812, 124453, 13009, 186535, 66750, 123872, 258059,
       67585, 57275, 38258, 68897, 84826, 184781, 14629, 219963, 41270, 127180, 249526, 124970, 11073, 187662, 186017,
       91755, 114276, 28736, 7571, 91842, 66630, 58142, 120725, 204071, 117922, 165307, 227102, 100721, 147602, 174738,
       43866, 171837, 94369, 72266, 66683, 184292, 21662, 230597, 236948, 125320, 155194, 256922, 92887, 198390, 139798,
       49059, 113203, 244578, 41672, 84739, 166984, 31278, 224967, 48788, 103090, 180973, 175934, 56965, 198975, 36837,
       43282, 60711, 182047, 118649, 58937, 85394, 19689, 96160, 192237, 34581, 116884, 60098, 45189, 34463, 16977,
       34059, 66561, 256884, 76729, 248360, 49464, 78778, 91710, 70499, 7176, 15026, 118983, 18943, 187035, 220010,
       26021, 147103, 188403, 9218, 10642, 26967, 16352, 210622, 156136, 31411, 153841, 19343, 45301, 48300, 113506,
       103718, 119230, 186215, 28561, 66715, 182348, 87821, 164044, 51149, 7586, 152305, 105962, 86276, 250266, 237634,
       104165, 114222, 88532, 79273, 101573, 49339, 26396, 233382, 160768, 43307, 62703, 731, 105536, 191301, 174666,
       56619, 110072, 86346, 33454, 30349, 70117, 122249, 195318, 205370, 83539, 98504, 187183, 105606, 167389, 179747,
       3211, 133970, 236839, 44477, 137528, 45923, 60148, 140191, 200648, 76994, 135775, 217255, 24899, 260860, 102001,
       65267, 201342, 222101, 89866, 75548, 73785, 45334, 174719, 181793, 90628, 186760, 257227, 51072, 192513, 55195,
       61533, 132926, 221586, 17602, 10240, 89894, 85363, 225423, 161567, 29396, 68938, 206112, 108639, 11564, 89426,
       72540, 243670, 177573, 73433, 254983, 179442, 119600, 32177, 20321, 21941, 211858, 180298, 69498, 241093, 135625,
       50096, 98337, 225288, 126658, 7647, 32634, 103902, 161362, 88475, 99287, 40194, 49304, 26754, 155816, 28649,
       31106, 113371, 260587, 3824, 206938, 142870, 83694, 28039, 15458, 48606, 35433, 146086, 40899, 209162, 228361,
       83496, 250816, 210005, 108617, 194801, 4388, 17436, 117611, 141539, 120410, 208164, 255737, 4491, 261761, 78390,
       12465, 204007, 161794, 109855, 34459, 23527, 64579, 177206, 95300, 123110, 3213, 162871, 60509, 204883, 177612,
       121388, 207622, 8224, 31408, 192489, 233949, 80799, 74699, 99767, 130346, 238572, 147741, 49291, 79790, 208713,
       190, 175219, 34887, 8395, 118142, 67170, 112598, 173108, 100353, 64472, 113762, 233981, 70348, 190761, 247945,
       104782, 99193, 54061, 106375, 74405, 93134, 62576, 148289, 180522, 112467, 194545, 158453, 61397, 103845, 155346,
       88476, 105272, 78362, 4372, 210218, 197174, 18087, 224299, 134352, 111597, 85753, 80491, 41041, 15164, 150856,
       43875, 146219, 27181, 86899, 152617, 257260, 77665, 42072, 36559, 10772, 165021, 136530, 100370, 92948, 63929,
       80900, 151592, 213713, 112110, 14841, 254774, 70188, 170654, 40560, 54306, 100899, 198950, 48672, 88204, 216254,
       579, 51773, 178260, 5214, 156665, 64433, 17198, 37731, 140472, 121836, 85028, 117448, 115428, 164252, 240946,
       65168, 136483, 39472, 23618, 183940, 164076, 19151, 28378, 44993, 33571, 143960, 132925, 119108, 31098, 61672,
       68349, 225819, 191752, 105387, 97701, 121479, 66421, 80412, 184204, 79881, 125523, 184279, 79967, 96983, 89866,
       4107, 132390, 99395, 58362, 61655, 21898, 113252, 166561, 111777, 64107, 35620, 28075, 57060, 74539, 35129,
       69015, 100009, 205161, 49907, 235194, 175065, 67554, 132263, 227482, 17739, 240054, 209007, 126870, 189020, 148208,
       4473, 125696, 96322, 63334, 252807, 104464, 27524, 37016, 51522, 7648, 212912, 10370, 85420, 85819, 56660,
       129129, 177707, 151868, 98252, 57812, 146325, 33294, 261335, 97529, 64669, 128764, 217135, 6524, 253782, 256569,
       69687, 22031, 28475, 13036, 220281, 216597, 104150, 213114, 213638, 7432, 162825, 92204, 1226, 251795, 56551,
       112926, 1090, 201765, 123540, 234014, 130051, 11344, 212122, 223389, 36558, 43080, 73545, 97215, 195471, 199977,
       70733, 120323, 234296, 124418, 96349, 197164, 51010, 157917, 143738, 435, 140966, 112718, 2588, 26334, 21653,
       74036, 158141, 147186, 98579, 251320, 64789, 103627, 197598, 190297, 119474, 94725, 796, 30025, 67691, 136201,
       96784, 88821, 227016, 108409, 105261, 92642, 109612, 74151, 92852, 53941, 219850, 75879, 82048, 221423, 722,
       72294, 201183, 47227, 78313, 177325, 53686, 36966, 104374, 14955, 89552, 237399, 214247, 93063, 101945, 85854,
       25683, 90869, 106808, 58147, 207353, 195268, 55326, 58220, 183050, 98166, 120425, 44847, 87359, 233075, 167710,
       62415, 246390, 31969, 85528, 153047, 155878, 34453, 208750, 67577, 30454, 79073, 231196, 31446, 196273, 253569,
       3866, 83703, 36748, 90580, 196012, 180211, 129217, 21097, 135567, 40505, 120811, 723, 121875, 31034, 216890,
       79500, 197367, 7501, 29482, 153099, 30886, 1555, 31908, 21179, 94860, 242692, 176137, 91301, 99124, 56960,
       30048, 181622, 203860, 43608, 84264, 135763, 117708, 205053, 36412, 20608, 231877, 233622, 109503, 78297, 214634,
       22180, 119290, 168306, 63140, 246188, 194193, 65400, 99140, 65309, 61877, 192449, 204506, 37739, 132245, 153000,
       33209, 5700, 125765, 96096, 16222, 6506, 36133, 137115, 161005, 79942, 216933, 61954, 110970, 198460, 50799,
       109711, 204142, 15817, 21908, 227899, 210193, 85817, 202464, 7421, 78941, 243889, 179007, 36960, 71776, 103180,
       51308, 172018, 8622, 37370, 87651, 149633, 70394, 53651, 16806, 105333, 13187, 10292, 115016, 30751, 55215,
       94741, 244844, 128646, 63366, 211219, 223261, 125579, 121899, 173312, 73908, 196553, 159183, 62724, 18765, 126209,
       112299, 8470, 202560, 24198, 248760, 14003, 20693, 112845, 108399, 102569, 106643, 258950, 114107, 120554, 103960,
       9538, 192985, 119883, 100150, 76941, 129630, 55635, 12220, 176858, 92238, 231252, 74949, 17690, 183714, 233031,
       127534, 190714, 24540, 115511, 44748, 201152, 53211, 165471, 231051, 117094, 85998, 179745, 117299, 184787, 61593,
       60457, 93449, 138583, 124110, 46270, 256187, 128038, 161785, 251190, 28470, 133201, 87262, 8738, 35398, 127432,
       43404, 121763, 224698, 64072, 161308, 50130, 12147, 73644, 208099, 18436, 138810, 1143, 127362, 143475, 155178,
       96639, 121572, 90275, 114679, 231371, 256254, 127291, 45339, 169333, 49564, 36034, 239706, 90159, 184169, 104326,
       24120, 34302, 151276, 72308, 32332, 192007, 27509, 50296, 124094, 21028, 1879, 89526, 12903, 53398, 17124,
       75987, 60484, 16825, 124498, 234985, 167139, 16019, 224157, 248831, 65839, 94449, 87481, 90055, 102830, 55719,
       64993, 152623, 150377, 119508, 77059, 248361, 21796, 184424, 89074, 3167, 33278, 88785, 50216, 15328, 129372,
       72809, 7640, 204778, 33358, 197521, 152871, 22076, 241688, 73107, 105491, 184579, 231951, 24716, 243158, 180205,
       58023, 63533, 108136, 125105, 196115, 166316, 80308, 117429, 182850, 65237, 159488, 78806, 47218, 188349, 170212,
       68207, 252209, 62107, 96247, 24914, 72607, 107810, 76075, 250248, 85176, 220870, 249013, 103588, 114556, 26689,
       11589, 25130, 118604, 1884, 23049, 226494, 96260, 189436, 156669, 34302, 19894, 230175, 115039, 11438, 17781,
       70235, 5248, 188502, 62720, 182895, 93441, 101294, 236491, 201045, 97136, 245203, 160313, 92310, 244751, 168272,
       90426, 183004, 3046, 67553, 257986, 250841, 121435, 380, 123329, 116738, 39545, 246166, 43175, 200405, 185596,
       105472, 241867, 39808, 116799, 98339, 139458, 81035, 240012, 155721, 72820, 229624, 40763, 88065, 141500, 72935,
       21372, 179961, 21611, 11448, 81350, 171796, 107498, 193158, 82137, 75147, 3994, 224154, 16056, 135093, 159862,
       54567, 166842, 151948, 39090, 46015, 98317, 114750, 169454, 38375, 66482, 95311, 38330, 75695, 189908, 90432,
       30839, 257937, 219811, 104734, 224738, 168924, 121910, 61857, 146800, 103873, 214767, 104352, 64600, 8812, 144856,
       109456, 203545, 109826, 24636, 38053, 22285, 14865, 93126, 77303, 57438, 67249, 1876, 23794, 22457, 156041,
       33968, 181511, 103136, 76692, 111095, 5367, 52940, 101955, 165129, 113492, 104297, 248694, 29571, 120939, 30466,
       130651, 91880, 33928, 47106, 108478, 108188, 67554, 231326, 202598, 17345, 8990, 186888, 75929, 230738, 209208,
       125997, 139901, 234229, 98225, 17181, 108709, 31988, 188562, 66786, 58014, 566, 228398, 55762, 103635, 18155,
       12838, 54996, 54608, 116110, 40601, 86542, 49998, 54364, 8498, 64783, 156171, 106462, 38174, 112289, 5521,
       19974, 209608, 223880, 118241, 116170, 89696, 4901, 199804, 6340, 52413, 1571, 248659, 95773, 186384, 155287,
       40482, 163854, 69967, 58461, 225855, 227087, 73987, 42532, 57686, 130427, 88363, 60285, 99392, 19122, 246981,
       126761, 195629, 250046, 90851, 252593, 62332, 35265, 78682, 3155, 37681, 192198, 89995, 107802, 10792, 188192,
       56061, 68869, 257328, 48526, 6678, 220258, 123875, 95479, 87517, 1734, 130441, 187492, 68808, 120475, 104825,
       101590, 222199, 145091, 96491, 38086, 172366, 48178, 186140, 219939, 70208, 129899, 255272, 731, 7122, 72510,
       70101, 71594, 62483, 77385, 18231, 60415, 114660, 170446, 68453, 27621, 198031, 16177, 108153, 130761, 212147,
       94118, 108448, 98317, 87297, 261494, 129946, 51693, 52666, 130772, 48160, 94173, 158752, 92177, 224119, 48421,
       129790, 140807, 164012, 53130, 138391, 226903, 120402, 186135, 33069, 76879, 166995, 20485, 113792, 54668, 195079,
       28467, 153688, 102181, 99907, 74055, 240760, 109437, 187653, 38929, 109074, 19268, 244622, 102853, 180834, 133269,
       39871, 138826, 79940, 68413, 15520, 229425, 39282, 237226, 117322, 44953, 59591, 171775, 39481, 94767, 155107,
       37254, 54430, 116738, 90888, 43374, 24970, 85231, 95314, 172511, 26773, 84347, 154747, 90638, 194427, 55415,
       38150, 247203, 177952, 26439, 163983, 41917, 97943, 209313, 158926, 47561, 221947, 1716, 74625, 239055, 125585,
       26230, 169802, 201038, 80438, 20616, 150093, 27262, 30266, 187804, 21872, 233860, 218972, 50663, 19126, 76830,
       103554, 258320, 219501, 23138, 186147, 47352, 15338, 237569, 228464, 4148, 33120, 246132, 54521, 121540, 113432,
       36965, 154483, 19938, 38287, 62610, 31571, 128705, 24727, 1806, 25444, 37398, 241796, 60086, 249132, 173285,
       129285, 65258, 77291, 4013, 44405, 112727, 91312, 74603, 43208, 48638, 153280, 66202, 118764, 6923, 149279,
       119529, 259031, 62921, 50752, 196011, 165528, 29027, 172837, 26354, 56099, 69904, 162690, 126524, 163584, 193844,
       36883, 124747, 79459, 128623, 75091, 39010, 107399, 74029, 68846, 35055, 134217, 129785, 103687, 14991, 231126,
       6527, 81948, 233827, 71835, 199987, 128870, 46838, 122255, 227945, 55959, 93108, 90460, 61977, 252654, 106250,
       65891, 148610, 183982, 86037, 70684, 258317, 91327, 251287, 113042, 127887, 125694, 213127, 99978, 242658, 16912,
       90151, 7879, 189172, 51440, 97212, 14835, 15441, 88769, 110683, 7705, 135191, 58040, 62611, 23685, 43474,
       87589, 194992, 139579, 85217, 197138, 161715, 124893, 118506, 46655, 50125, 225824, 180365, 82284, 230678, 151550,
       116375, 104223, 157667, 52963, 73324, 91316, 62618, 196747, 13892, 120975, 236824, 66368, 72121, 82121, 55588,
       104806, 124211, 63228, 122634, 22927, 125538, 74849, 188541, 190706, 14311, 92903, 220910, 107701, 224484, 179750,
       107188, 90173, 8781, 15071, 88969, 219368, 71842, 247036, 68795, 63843, 75604, 249795, 111039, 89106, 225269,
       35996, 5047, 213989, 55873, 18816, 214333, 79271, 45040, 143136, 67796, 94867, 65837, 125178, 66178, 247224,
       125915, 72682, 52638, 10691, 227937, 99136, 39039, 105112, 248057, 987, 158168, 131247, 54769, 207512, 257481,
       86787, 233292, 61796, 61772, 62606, 243918, 8805, 173678, 156915, 25684, 98556, 22729, 22713, 168717, 10827,
       66994, 159172, 157263, 88824, 229382, 38775, 41461, 106394, 157847, 17099, 173422, 83824, 104673, 207337, 19297,
       112507, 53130, 18651, 36239, 226259, 209027, 55148, 63660, 17887, 10738, 228978, 117207, 29844, 192854, 119039,
       100532, 71709, 252030, 47867, 57091, 120816, 79258, 58880, 93697, 124018, 76601, 218015, 94848, 172943, 156219,
       59434, 231929, 190474, 48087, 192948, 141197, 24972, 198418, 24851, 99108, 207525, 45358, 14735, 209276, 75205,
       8046, 260514, 226219, 13740, 27295, 140804, 31838, 24868, 222799, 82198, 83947, 100053, 112896, 69005, 252348,
       130105, 947, 103518, 95877, 23651, 24160, 19133, 133663, 80378, 36399, 83376, 230163, 17299, 200945, 72645,
       15145, 158100, 201829, 74413, 223794, 223768, 118846, 1183, 144859, 89696, 6509, 211427, 104942, 215654, 40314,
       66597, 67817, 224715, 62301, 75452, 181651, 122877, 256130, 64494, 94629, 91498, 230781, 60206, 198718, 49674,
       43592, 64599, 242936, 12206, 106634, 104293, 107607, 228620, 98457, 22193, 155995, 137518, 67504, 40574, 127478,
       83529, 121755, 189658, 97527, 211134, 61285, 10924, 1795, 141794, 1400, 171339, 123143, 92537, 247874, 211025,
       59557, 255109, 117326, 23741, 202871, 78467, 128716, 77844, 119167, 103724, 97474, 237496, 75826, 226479, 246781,
       92026, 152274, 55815, 20319, 61468, 111384, 126120, 204673, 156101, 130595, 216474, 144926, 84993, 13068, 138554,
       87597, 18165, 160018, 92334, 206539, 98335, 87265, 244286, 98262, 57480, 111008, 251758, 70867, 135204, 184654,
       37057, 127967, 142042, 58569, 65561, 45975, 57160, 244455, 117489, 37767, 37075, 244259, 103114, 255354, 111649,
       53696, 138663, 17155, 72314, 111422, 243176, 20459, 25442, 103198, 62254, 225847, 174546, 99805, 124039, 18377,
       58264, 226641, 152544, 73104, 73049, 261126, 91974, 22385, 91196, 50983, 211423, 100553, 46305, 118156, 117071,
       11238, 96974, 128080, 76319, 159193, 60116, 92662, 123454, 217491, 76185, 241863, 23205, 37162, 61350, 15081,
       34385, 4993, 234822, 20904, 94486, 183170, 6159, 47762, 135953, 55951, 198695, 203823, 21039, 188624, 252014,
       90544, 61935, 68991, 126056, 70522, 103693, 9631, 98160, 203150, 117041, 131197, 33624, 86208, 42769, 52065,
       112758, 127548, 174923, 20310, 200944, 208765, 118814, 108120, 88878, 125550, 45975, 101601, 118844, 218022, 47260,
       102957, 2016, 144687, 11836, 94268, 255238, 28931, 173795, 228931, 119686, 120164, 69190, 30071, 26603, 255571,
       45575, 150377, 77959, 6616, 28186, 160892, 82325, 106509, 90037, 73832, 256503, 164029, 126061, 88095, 16268,
       116961, 103818, 142883, 66315, 20358, 237699, 79867, 15462, 195940, 54158, 139883, 4171, 17361, 179321, 205344,
       113743, 12825, 126031, 72029, 31690, 123773, 55756, 261216, 138498, 8973, 235326, 157845, 87213, 35153, 124893,
       52384, 230300, 167423, 33252, 111302, 111909, 114917, 210983, 72205, 24068, 259991, 182874, 67504, 179564, 36057,
       104301, 87260, 174286, 111289, 243443, 5390, 107309, 92845, 185296, 117522, 159126, 259553, 18659, 17351, 202112,
       123267, 204670, 242836, 1415, 252174, 45959, 33541, 222643, 125970, 11015, 33172, 151637, 123932, 240934, 201344,
       55566, 24630, 136197, 41322, 259899, 13945, 21900, 127931, 130252, 20423, 95620, 184346, 80469, 66572, 68407,
       6171, 109014, 136066, 77900, 18597, 29204, 101534, 220859, 179947, 78776, 57839, 257902, 108341, 87106, 158050,
       34767, 259222, 246349, 10115, 6594, 156762, 94501, 178819, 72007, 108544, 185212, 113737, 65755, 195821, 197496,
       107559, 236862, 94998, 60020, 99495, 36299, 26021, 108536, 103230, 62179, 202552, 83025, 28305, 21878, 98937,
       61870, 31993, 186632, 19339, 230153, 46834, 24321, 260001, 63641, 115725, 37223, 147482, 15185, 200133, 104745,
       29396, 20562, 196505, 130484, 210783, 120098, 75499, 235652, 793, 76784, 130136, 143083, 110752, 5954, 118232,
       68723, 163418, 253085, 29069, 105960, 114151, 55373, 140631, 190025, 98959, 137446, 66764, 114353, 147252, 127149,
       35809, 97452, 20521, 34337, 163006, 186220, 42940, 68892, 133602, 78146, 138635, 68273, 36504, 194051, 91794,
       117065, 63725, 164070, 128189, 107654, 55338, 89013, 158985, 108027, 127179, 31918, 237257, 37729, 35810, 194284,
       106846, 2236, 211135, 88925, 25122, 62355, 34497, 20874, 55384, 41734, 73147, 176482, 64045, 37580, 247971,
       103762, 72196, 25300, 114323, 240456, 167064, 83092, 185314, 122893, 94578, 120130, 41564, 34583, 75128, 253814,
       97133, 191410, 90778, 79295, 239612, 82123, 29218, 180589, 5309, 124542, 237696, 246599, 67221, 140175, 2403,
       104131, 190267, 248077, 68893, 30558, 100049, 122281, 231023, 58555, 18517, 202244, 248195, 71585, 151809, 248857,
       3297, 30521, 110889, 25872, 202627, 33868, 36834, 185076, 172241, 61945, 248312, 258663, 107501, 175781, 178059,
       61165, 88787, 187272, 73555, 243430, 151792, 121117, 171222, 214783, 99160, 58507, 49562, 6580, 67764, 70369,
       23129, 79872, 244359, 5009, 64421, 237557, 9051, 89709, 5536, 44414, 98725, 12144, 95401, 228017, 201429,
       32027, 215577, 16080, 51417, 195295, 231371, 51625, 246316, 258825, 77372, 173058, 177692, 117036, 178286, 1313,
       128873, 148502, 250205, 79247, 148980, 191414, 66200, 156744, 171943, 89374, 212281, 63306, 87560, 50243, 18184,
       68674, 165704, 141339, 96594, 88080, 4925, 64391, 242570, 63356, 130607, 209412, 159733, 6422, 45759, 45402,
       58093, 41412, 141283, 52038, 203110, 84583, 100965, 73464, 138847, 25011, 225736, 36475, 56895, 37663, 132323,
       91480, 258554, 220503, 79061, 147928, 92082, 71450, 54708, 58089, 57010, 115111, 74193, 98567, 77978, 213912,
       84728, 61437, 130508, 114650, 32378, 129512, 96075, 165162, 118481, 18403, 131147, 99985, 81204, 23648, 14531,
       5837, 194385, 1627, 50773, 124167, 201894, 53993, 130834, 229151, 112051, 55553, 68587, 23641, 178349, 223516,
       84350, 71338, 29641, 25216, 144657, 115617, 124344, 24656, 180149, 69402, 58184, 118261, 92826, 260724, 32189,
       84743, 261467, 216626, 39798, 133330, 13392, 118121, 207841, 253279, 82214, 193332, 195688, 66888, 105758, 255716,
       69253, 76758, 226029, 116744, 154240, 100382, 7748, 237907, 10382, 50995, 38413, 41019, 110313, 210587, 44021,
       4917, 52021, 46616, 83778, 199433, 169818, 52856, 168561, 228345, 26815, 43160, 227331, 80138, 15403, 228718,
       108928, 216998, 202377, 61255, 34096, 93139, 19233, 42757, 81109, 40127, 223526, 33212, 128627, 244630, 70965,
       14561, 9378, 167572, 21065, 62685, 101368, 129784, 154895, 254926, 115618, 209139, 250917, 92684, 204165, 160570,
       19789, 177470, 228213, 31529, 67677, 143202, 23616, 220686, 66426, 82700, 134940, 48089, 52280, 142305, 234558,
       6262, 132891, 29480, 38180, 69390, 77315, 112807, 141465, 41045, 104338, 225633, 256922, 84280, 221031, 240623,
       11212, 94238, 207075, 115709, 41483, 80557, 70060, 83421, 164285, 64825, 17507, 189205, 122429, 152348, 49137,
       1159, 53555, 69520, 72862, 146458, 90384, 103709, 258170, 102600, 8348, 9933, 182767, 46815, 67428, 192038,
       128120, 245918, 181753, 27759, 58028, 239638, 69622, 196790, 76311, 97788, 199067, 4167, 51167, 21389, 221912,
       53460, 199802, 122301, 8292, 185977, 63659, 24915, 239957, 60455, 115423, 55681, 42655, 107258, 138874, 167422,
       39929, 152145, 202682, 50031, 173901, 24618, 57725, 124530, 50737, 45343, 137165, 152187, 85709, 134975, 108120,
       1681, 117464, 110395, 115365, 101561, 87532, 39406, 177731, 11627, 114343, 192515, 141415, 59557, 67603, 174565,
       101755, 67042, 3905, 108236, 161230, 150300, 39490, 138593, 44999, 83928, 171279, 208750, 79614, 252879, 170346,
       62392, 31553, 89641, 61547, 80115, 261662, 40003, 158085, 225926, 40657, 76215, 22450, 71847, 85878, 59125,
       4229, 203015, 22981, 122377, 67600, 45054, 85194, 23545, 223207, 58123, 8297, 140114, 8101, 9518, 233988,
       82576, 262072, 103713, 2325, 148449, 220508, 89111, 144964, 91156, 9505, 242322, 54467, 85996, 164158, 214715,
       53200, 136658, 150294, 86852, 11030, 57843, 18153, 31839, 96078, 15385, 160609, 66417, 32430, 95395, 13803,
       53937, 160301, 162977, 33165, 71545, 157745, 10749, 241293, 84862, 42602, 21732, 17157, 92505, 129158, 215743,
       76426, 68641, 202461, 126264, 229657, 246851, 57137, 32492, 151845, 43621, 18426, 208447, 90921, 252458, 199267,
       53996, 68800, 90874, 81043, 8512, 47987, 124031, 200917, 59365, 65429, 191512, 191761, 65296, 208239, 236700,
       101602, 164248, 155718, 99100, 125658, 63033, 67663, 127963, 84415, 8483, 6703, 47028, 128553, 186871, 152663,
       49456, 37283, 123062, 41511, 90024, 169312, 128653, 80355, 152625, 114312, 132945, 261056, 43282, 40810, 77549,
       40410, 179452, 41184, 94496, 236292, 61277, 43819, 119005, 260229, 32955, 180951, 178669, 128407, 109379, 46586,
       74148, 202450, 92766, 99942, 23124, 142144, 93461, 141473, 4759, 99028, 79474, 105079, 118409, 34329, 246494,
       65636, 185317, 55543, 98746, 205707, 153757, 104439, 257659, 90081, 124044, 136417, 39689, 93467, 2899, 255138,
       116996, 245906, 1998, 12456, 218593, 226088, 16527, 192087, 203824, 20754, 197067, 38041, 18980, 246147, 177965,
       11471, 69672, 101777, 16065, 259850, 102613, 130535, 249786, 10932, 35675, 219203, 10490, 62658, 189136, 216682,
       107690, 201776, 95866, 15506, 112785, 97317, 41597, 174615, 243305, 20877, 245692, 93469, 8199, 93124, 5229,
       125927, 227306, 166668, 112506, 177807, 185625, 115251, 90907, 65291, 113859, 168403, 237998, 20259, 100688, 93557,
       102891, 29670, 77572, 95403, 140026, 85367, 121296, 11041, 240404, 28747, 2325, 62304, 54269, 164069, 206166,
       38656, 228070, 29440, 33805, 210837, 212498, 85508, 254947, 94120, 21488, 100334, 55971, 60923, 52110, 47114,
       84756, 119727, 196926, 17079, 21917, 19562, 33682, 236076, 182814, 126794, 158319, 177305, 104258, 134574, 113872,
       88729, 210588, 59988, 112193, 156215, 17050, 1830, 228840, 235495, 796, 49352, 189135, 20180, 187409, 137661,
       64914, 89432, 22035, 74707, 155646, 224857, 14901, 100451, 207452, 9474, 162729, 219696, 108571, 107801, 202756,
       60878, 213071, 156380, 130088, 60129, 211232, 30060, 242562, 183003, 84829, 247507, 59961, 105432, 200705, 251874,
       114378, 112298, 139472, 40149, 221772, 204902, 25333, 169436, 94059, 29634, 175089, 177190, 87391, 80816, 7982,
       68462, 214053, 103854, 78510, 261751, 219012, 2690, 190582, 238765, 51245, 167892, 145853, 40651, 204405, 240544,
       113217, 141909, 40507, 101745, 204188, 132645, 56304, 221093, 171193, 82644, 202703, 90878, 6249, 113638, 134478,
       83525, 215523, 217306, 12740, 223648, 115701, 93587, 227974, 56508, 75214, 40141, 29522, 39386, 65614, 141072,
       48606, 193986, 7954, 11808, 126849, 147416, 42308, 139039, 171605, 126726, 8896, 192387, 63725, 58278, 2176,
       62159, 185109, 26350, 82474, 72307, 77170, 63497, 4988, 142251, 46597, 75687, 78406, 18287, 97453, 181655,
       82616, 177968, 203085, 98162, 199176, 164347, 120992, 238795, 74101, 395, 8443, 75560, 8737, 82160, 213899,
       117886, 235648, 53664, 82726, 214663, 106643, 125555, 56558, 59619, 56471, 173707, 79026, 54616, 5447, 21553,
       45123, 117165, 121439, 18719, 147322, 42666, 49628, 45256, 251685, 1920, 3528, 138027, 66756, 186351, 158710,
       111045, 140579, 73925, 42099, 236165, 120707, 12404, 176841, 47289, 127632, 221295, 83730, 16905, 92576, 126427,
       69297, 114897, 41974, 106061, 153721, 47664, 33075, 102504, 136341, 110295, 187950, 58348, 73010, 104659, 22222,
       43507, 124107, 188589, 113467, 161726, 64622, 81526, 210788, 180586, 80659, 174997, 77806, 66061, 147231, 194148,
       36010, 102737, 208882, 39958, 175215, 129735, 11544, 183563, 38285, 31945, 92698, 135903, 36415, 23508, 107340,
       7694, 31992, 164679, 14459, 45394, 112586, 35422, 157211, 85355, 88768, 220911, 120701, 24148, 12778, 16713,
       68399, 228263, 155345, 66571, 235094, 178051, 109319, 10268, 214430, 79844, 83440, 133770, 120192, 236779, 161852,
       82326, 131774, 68090, 3344, 101103, 19632, 50002, 243491, 204123, 91625, 161563, 253745, 62275, 46385, 42556,
       54971, 83255, 43526, 88020, 217299, 197996, 37451, 152043, 252742, 119141, 149047, 50103, 54151, 146294, 117926,
       82734, 257140, 91258, 128756, 101165, 140172, 102954, 121818, 119771, 69680, 238725, 198748, 112641, 170384, 250899,
       73457, 181570, 41303, 57888, 104591, 37901, 114485, 58826, 233364, 3559, 80462, 16375, 53407, 105245, 934,
       44956, 185749, 134816, 93596, 188834, 202540, 1649, 183603, 190944, 86619, 67135, 148371, 45398, 68135, 48662,
       12831, 21227, 229024, 128493, 240182, 139217, 27817, 64258, 189623, 45761, 41431, 20741, 27138, 2765, 164162,
       86768, 133748, 228839, 102565, 256460, 19283, 112805, 239987, 26706, 40763, 41529, 124703, 68754, 68717, 18341,
       86934, 131964, 167724, 82512, 150274, 79920, 93851, 30493, 3238, 100889, 182751, 246380, 12776, 7268, 120824,
       22060, 226132, 224289, 96248, 243427, 109910, 62478, 213799, 149378, 55972, 45367, 143851, 59695, 117459, 250435,
       48762, 50759, 155083, 77472, 105122, 28169, 42378, 242621, 86597, 83468, 175161, 4298, 26560, 13632, 228694,
       99311, 210052, 44969, 102445, 228554, 211473, 75827, 230797, 241342, 48407, 252945, 62421, 1886, 258905, 213468,
       15929, 132180, 168636, 10444, 192974, 195582, 1337, 155466, 40342, 94662, 207078, 186559, 125313, 152661, 198169,
       1463, 222001, 181324, 14770, 152714, 58881, 112810, 132706, 239899, 90243, 96165, 205291, 53046, 52714, 110759,
       130127, 216304, 219808, 75185, 182586, 53827, 87765, 178729, 141937, 85613, 34800, 164891, 29189, 248527, 257299,
       63979, 116034, 259274, 28365, 121038, 17910, 66776, 140221, 186117, 4034, 145728, 239041, 50064, 40167, 230895,
       48786, 83538, 100136, 38224, 159610, 242704, 10384, 182427, 254529, 101052, 50992, 252547, 55109, 225436, 128379,
       106689, 24244, 211189, 109540, 115481, 261109, 27996, 167009, 29669, 55224, 152220, 180160, 94499, 132333, 29235,
       65469, 251620, 24056, 112075, 131883, 113988, 74916, 181660, 76027, 82520, 114457, 24265, 103156, 193867, 61078,
       16019, 234904, 236240, 76578, 153364, 217416, 11197, 121571, 143835, 34150, 250836, 57958, 27862, 52089, 49239,
       74327, 209021, 233069, 110611, 254945, 164861, 17407, 162828, 239065, 100715, 70692, 218501, 18751, 252494, 222593,
       24860, 170589, 74022, 120185, 48636, 206143, 1275, 57637, 196671, 25840, 16717, 155869, 28253, 96467, 250395,
       36946, 170184, 208351, 47633, 26023, 165957, 13523, 196180, 28638, 61401, 62750, 39555, 52343, 170747, 206547,
       81911, 85056, 95724, 113707, 71128, 59491, 39022, 207077, 32008, 71629, 64368, 228147, 48677, 45785, 213030,
       5275, 179527, 113631, 107619, 259555, 214236, 83128, 4514, 211649, 284, 189745, 199041, 32711, 234185, 93336,
       40499, 225257, 237302, 106369, 16274, 7869, 99708, 52930, 171828, 51923, 96203, 122718, 20623, 41673, 150869,
       50598, 1652, 87000, 106187, 130749, 111492, 59295, 220300, 111101, 15187, 88426, 40076, 5052, 129578, 117448,
       43690, 241384, 187109, 19446, 55146, 56964, 97654, 9789, 86185, 36537, 55870, 7264, 115009, 137277, 255484,
       80917, 54016, 165996, 51598, 77680, 48261, 79961, 121572, 4200, 38689, 11270, 114683, 18523, 158196, 233033,
       126376, 179757, 224262, 73814, 182712, 8343, 960, 134089, 11552, 40673, 132028, 49693, 20910, 132438, 217305,
       33840, 158132, 46125, 7302, 195193, 21338, 32123, 226342, 252305, 89524, 75059, 114824, 107558, 244998, 173947,
       45533, 96084, 258058, 68480, 165306, 95764, 5477, 151288, 20017, 11901, 116002, 50042, 72341, 210010, 115317,
       110176, 25390, 121535, 11532, 198850, 206337, 54859, 196331, 108383, 127195, 131613, 48328, 96835, 4327, 83402,
       25900, 65349, 131647, 37378, 94777, 27327, 124245, 72462, 130654, 28965, 78356, 157254, 57790, 160529, 189147,
       46610, 136562, 73800, 64230, 96936, 160651, 31009, 10031, 55498, 87602, 7223, 187576, 30748, 81196, 68575,
       78918, 164814, 125551, 46893, 141347, 30946, 32961, 125714, 207541, 91095, 100873, 104723, 126515, 238090, 73004,
       113950, 203915, 248576, 11381, 180504, 15786, 59560, 242232, 246732, 91066, 51669, 43326, 73743, 48119, 219052,
       95205, 11228, 99516, 127810, 248309, 172560, 44862, 65707, 166604, 101039, 232444, 190684, 12330, 30335, 16782,
       113999, 167883, 115395, 102030, 175864, 195473, 68284, 64693, 151664, 107614, 130804, 241255, 87375, 175168, 244584,
       72381, 104012, 228202, 123994, 46949, 181790, 17074, 32118, 244897, 130150, 67813, 192835, 20241, 216547, 76752,
       62937, 163496, 114767, 30331, 131643, 123012, 35640, 69693, 140662, 82815, 125857, 190389, 4549, 138368, 227363,
       123305, 147266, 48339, 36650, 165419, 18016, 35721, 101816, 260077, 113189, 6608, 49103, 100248, 159554, 234369,
       88043, 245612, 204515, 19183, 129718, 171575, 100875, 53112, 31657, 47286, 94198, 21445, 130270, 255009, 46503,
       87982, 5338, 186913, 109562, 46414, 93007, 96178, 185007, 231736, 77888, 2112, 247969, 93889, 97271, 109111,
       78313, 104972, 218725, 6710, 183939, 124325, 45288, 107241, 23959, 41473, 125048, 73179, 93581, 234967, 33722,
       75520, 45555, 40928, 80017, 259089, 95890, 111015, 149373, 35303, 68853, 15023, 189837, 28610, 7637, 9814,
       1630, 129321, 201286, 20905, 173201, 25422, 4008, 16425, 185591, 31072, 150209, 100029, 83230, 92232, 227303,
       19846, 205892, 214280, 10737, 220613, 18158, 127251, 223447, 145207, 130666, 87895, 234382, 83495, 247936, 73988,
       14230, 3761, 137861, 107678, 92350, 200163, 70675, 214213, 39376, 23864, 196963, 246222, 75457, 33417, 79565,
       5161, 234268, 11550, 127463, 192242, 217376, 108260, 249011, 147447, 34180, 144736, 37084, 54907, 162403, 194186,
       51810, 159767, 42971, 112917, 200308, 254890, 46482, 166572, 77104, 6288, 224499, 223861, 28139, 182693, 205026,
       28255, 38310, 152603, 124418, 241865, 84400, 121117, 185218, 133718, 39399, 95240, 59652, 362, 180707, 210636,
       67763, 239463, 8564, 104495, 217852, 19444, 35206, 155240, 8581, 57546, 99243, 24545, 22647, 216693, 190741,
       42912, 92475, 130910, 99464, 99822, 72747, 56135, 179104, 146987, 58624, 179315, 87439, 103488, 29732, 237731,
       100004, 95231, 202220, 24530, 128741, 41228, 54430, 145516, 61074, 111261, 129579, 234113, 59865, 136711, 157226,
       86738, 173862, 228013, 40103, 18568, 213348, 7806, 120528, 220945, 21613, 169309, 16136, 52654, 94575, 26005,
       46329, 165241, 41317, 117393, 111620, 130956, 71515, 224045, 84539, 82202, 134272, 60987, 90267, 5447, 137552,
       69681, 71813, 254456, 100878, 261403, 176585, 102642, 143309, 136501, 46056, 225992, 167399, 11112, 251563, 126855,
       129283, 110472, 12741, 84229, 152163, 212389, 92919, 12462, 199035, 99181, 172744, 38190, 80342, 89550, 262054,
       61721, 261464, 257075, 129062, 164145, 170626, 95375, 134231, 133359, 110867, 23297, 256283, 57629, 34156, 90753,
       118590, 261190, 2991, 95964, 131786, 65593, 97796, 127916, 197121, 11394, 66054, 170928, 80931, 74788, 245745,
       43937, 138378, 209972, 87687, 101278, 61054, 74476, 251588, 218408, 14573, 217847, 230986, 69466, 145075, 181259,
       59147, 90763, 129391, 101770, 362, 24347, 65881, 210620, 256219, 63066, 232687, 77688, 94305, 31852, 69406,
       87633, 39829, 174584, 130004, 88373, 211, 46131, 37851, 134093, 90224, 71350, 173760, 21922, 239450, 211039,
       105455, 101599, 198235, 103042, 259320, 140728, 95134, 201545, 225738, 15604, 58159, 203726, 129439, 116436, 252810,
       123549, 224661, 26783, 48508, 165346, 104405, 75669, 248408, 252858, 116508, 50580, 209990, 64833, 256147, 200868,
       78533, 140848, 49112, 79068, 65021, 244977, 85099, 38569, 261928, 75431, 257706, 5560, 53207, 241483, 261784,
       70710, 167590, 130509, 114221, 192725, 63404, 113259, 197584, 67277, 101259, 30443, 117861, 54277, 239142, 16147,
       103018, 260654, 210717, 50837, 28085, 210551, 87040, 212942, 204759, 74373, 246700, 163414, 39324, 218404, 149865,
       59359, 173464, 80422, 108837, 46271, 153524, 119636, 88099, 17567, 26908, 126478, 76955, 59796, 258881, 59845,
       56820, 115479, 60938, 64096, 55846, 6836, 128008, 73268, 16709, 67992, 162183, 224684, 108799, 212775, 235876,
       87023, 146842, 209357, 14049, 190282, 107226, 91181, 33615, 131613, 84811, 88823, 171448, 99414, 9166, 31209,
       9758, 30572, 152165, 31628, 174194, 143735, 100832, 54301, 101428, 48577, 98776, 53122, 119382, 226049, 5553,
       67852, 25124, 258745, 134, 164744, 188859, 91597, 216880, 62299, 67300, 196513, 259972, 41562, 50176, 244306,
       2679, 53273, 50723, 26050, 17347, 198959, 21180, 114835, 154533, 76395, 225028, 257238, 100866, 258100, 180469,
       30750, 87101, 45773, 91451, 253401, 94242, 117941, 200597, 33974, 81472, 137098, 158528, 101665, 179734, 51173,
       26769, 8360, 46622, 9822, 89639, 237921, 47892, 28805, 148317, 92930, 250519, 187345, 89928, 82391, 136390,
       125184, 38350, 118082, 82572, 139312, 174859, 53907, 229866, 142890, 104481, 160000, 184853, 20062, 240468, 134259,
       106564, 121616, 259474, 47963, 62392, 148642, 20186, 104832, 15093, 21252, 25132, 205896, 128922, 23829, 208008,
       81687, 14137, 230047, 22841, 54763, 186743, 35201, 7597, 125727, 48769, 62782, 3569, 7326, 224228, 209354,
       14210, 69410, 247106, 99844, 172720, 63211, 103137, 37996, 199343, 129529, 232516, 180599, 8859, 260419, 39505,
       116547, 46976, 53911, 41578, 37102, 121191, 42972, 8382, 9175, 16683, 36521, 131701, 129276, 88288, 34955,
       128580, 58002, 1569, 113354, 248113, 35536, 11898, 190714, 40553, 110316, 183432, 234478, 83180, 32848, 187432,
       16878, 224199, 55491, 34309, 29558, 205228, 90337, 258307, 49858, 105308, 154449, 237570, 111160, 121973, 10916,
       71280, 240479, 102453, 70073, 183949, 64684, 89680, 168750, 246435, 101937, 170386, 142498, 22359, 5116, 144169,
       96972, 448, 255820, 44785, 142767, 64124, 50300, 2611, 93369, 10185, 260500, 244876, 77125, 127441, 219372,
       12244, 198973, 158188, 119686, 133654, 56866, 81391, 214953, 107941, 129798, 58540, 114967, 32198, 31181, 242117,
       89076, 158625, 44191, 126409, 201177, 27709, 39135, 65604, 31670, 12625, 53001, 8505, 83096, 151483, 155816,
       47985, 91746, 209852, 35790, 55093, 174386, 130231, 136461, 57503, 98842, 162241, 98642, 63621, 169171, 141226,
       6554, 11875, 154626, 25115, 117986, 153045, 39161, 127338, 100267, 63857, 218355, 156315, 65175, 139259, 183884,
       3241, 223185, 81882, 123647, 155457, 156134, 71146, 215645, 204236, 2585, 178056, 94291, 91925, 106580, 37279,
       9352, 48593, 169352, 94525, 65517, 118575, 91946, 5884, 94805, 129095, 222550, 24180, 44831, 138565, 47836,
       18917, 69929, 61178, 12041, 128268, 39428, 9401, 73261, 82780, 106211, 260424, 218659, 94181, 139620, 29356,
       127915, 41756, 22539, 40525, 165841, 256927, 105264, 64158, 124196, 12191, 142480, 9024, 118473, 90507, 154810,
       6793, 131658, 60150, 103269, 121584, 2879, 40285, 184379, 84928, 23749, 86443, 47565, 92342, 33600, 208529,
       117424, 137725, 89820, 100155, 138473, 101143, 41038, 166723, 190442, 46343, 55804, 207730, 24812, 139424, 64384,
       108011, 105146, 133646, 14036, 256072, 111800, 118386, 14647, 75507, 78791, 227547, 174503, 77182, 104006, 117714,
       109814, 245226, 232658, 87494, 240733, 225777, 39877, 65026, 89581, 45811, 169367, 155643, 22682, 146522, 138506,
       60825, 182777, 222623, 14438, 53858, 262014, 85594, 210000, 132098, 22181, 42640, 261366, 113237, 69562, 223149,
       91811, 8439, 112262, 116852, 42769, 215323, 11407, 85355, 103338, 104662, 56489, 236313, 115448, 219393, 71313,
       5841, 223869, 50439, 130950, 231630, 123762, 39406, 13581, 6066, 27750, 189527, 47186, 54382, 119910, 166485,
       1131, 224951, 96705, 116117, 134731, 184564, 35191, 166975, 11677, 68366, 10781, 149158, 81731, 50686, 247767,
       103689, 257912, 195702, 32795, 4108, 89708, 93997, 211987, 155303, 15422, 12320, 198248, 92305, 134198, 54152,
       120493, 236989, 143881, 11144, 147599, 6339, 15296, 123078, 216219, 73036, 241925, 19258, 6081, 208707, 227984,
       24561, 170087, 213532, 24928, 226413, 216928, 63078, 17677, 186486, 32569, 181378, 248827, 62327, 191817, 98468,
       68311, 144945, 4485, 95767, 5547, 214264, 123993, 23317, 122022, 66027, 40669, 250071, 46531, 68326, 93136,
       33908, 202835, 88430, 83185, 207100, 169425, 123590, 8294, 189860, 100224, 222454, 92463, 27014, 74492, 168002,
       117087, 41683, 180621, 96405, 52511, 250784, 16769, 259221, 160257, 93428, 114875, 97400, 37926, 104467, 217819,
       64408, 89828, 202459, 39351, 240858, 16248, 11017, 212975, 17627, 100739, 206467, 172962, 108617, 62291, 5763,
       30405, 249473, 163650, 31409, 222138, 187417, 56355, 109930, 143792, 106360, 237658, 13440, 10127, 178451, 190385,
       105999, 108658, 129116, 120943, 37732, 151986, 73597, 124329, 210446, 7915, 165744, 83549, 35330, 214785, 8892,
       14599, 169851, 260722, 33984, 213958, 18607, 106401, 233713, 261618, 7296, 128049, 103988, 37201, 86892, 44352,
       67757, 201944, 249026, 114562, 78346, 253924, 32765, 173657, 150261, 102016, 235159, 83019, 76489, 148311, 179335,
       88653, 24189, 74157, 112953, 194032, 107891, 3462, 92422, 32816, 69433, 59411, 248027, 97938, 225586, 110763,
       115946, 181346, 140029, 17392, 129144, 136893, 44754, 196361, 101685, 10296, 121825, 245579, 109436, 125890, 52167,
       112376, 189252, 160075, 63384, 129601, 192064, 2725, 178438, 144146, 13395, 82790, 46611, 81835, 227393, 38524,
       128793, 225950, 82709, 109951, 155276, 67649, 104585, 68341, 6841, 54784, 38859, 152687, 129133, 194068, 183858,
       108130, 220596, 77980, 43994, 179995, 110485, 98106, 56658, 186245, 56691, 168846, 22166, 86567, 64382, 236900,
       127146, 235697, 129419, 32302, 235471, 96274, 104202, 138196, 84586, 77381, 142350, 244696, 124514, 154020, 69166,
       17624, 98294, 29557, 94333, 200129, 74806, 4869, 193413, 24949, 32316, 67583, 164142, 42055, 11787, 68001,
       56656, 164374, 148671, 126523, 209348, 168918, 8860, 170636, 192792, 22148, 241695, 223519, 26613, 211296, 20975,
       55574, 25104, 120033, 7956, 13958, 200170, 126539, 123418, 168235, 73380, 230913, 200812, 106599, 36946, 141708,
       101252, 239675, 228096, 86615, 176220, 182722, 118542, 196953, 187930, 118277, 62369, 74265, 16747, 81070, 21964,
       118217, 143136, 158310, 68667, 116861, 25522, 35136, 113635, 163249, 79757, 97829, 260334, 36818, 156407, 136282,
       62784, 135940, 249656, 107012, 37145, 138251, 4220, 66349, 120547, 23997, 220280, 70009, 125381, 53580, 152843,
       58339, 244843, 13508, 39757, 82672, 222247, 121016, 25175, 103178, 119434, 165081, 30854, 5798, 248338, 167420,
       47510, 188367, 224920, 119645, 94182, 209489, 23563, 18760, 251608, 75787, 157580, 15027, 42045, 4143, 239393,
       96543, 27415, 67953, 20743, 204229, 58395, 78125, 231329, 61986, 1, 27584, 150544, 33104, 9584, 146695,
       21255, 83519, 235716, 27502, 244077, 71719, 112777, 208400, 153695, 119904, 57160, 152805, 98963, 130636, 43470,
       77346, 116150, 240729, 30258, 216333, 157964, 36008, 73534, 206984, 40617, 228678, 212927, 101843, 172941, 38877,
       33146, 13630, 168239, 127584, 25889, 236412, 104394, 17474, 11291, 131035, 364, 535, 60185, 118662, 136850,
       77244, 111113, 94821, 36752, 207439, 81678, 79134, 2755, 164382, 127651, 15256, 259524, 3981, 260980, 195580,
       37917, 173171, 251848, 36869, 206942, 114882, 128761, 47959, 147654, 17386, 162662, 147538, 106477, 176606, 135537,
       35986, 84344, 5456, 112800, 250027, 87419, 63930, 127438, 212142, 31753, 169070, 152948, 93026, 32982, 216599,
       110307, 176638, 33255, 61622, 22657, 17110, 93584, 615, 27028, 23800, 100814, 74404, 122894, 184486, 49151,
       12641, 217500, 256380, 29091, 137186, 222295, 37795, 233638, 68231, 20021, 168100, 63915, 53304, 106036, 253518,
       59996, 98736, 48857, 67972, 139241, 190697, 5347, 177811, 142493, 28718, 175847, 69062, 105875, 37974, 243818,
       106247, 150282, 236137, 43254, 169073, 249792, 60447, 12033, 3401, 24045, 142119, 165979, 107759, 136240, 207500,
       125394, 117640, 173497, 38188, 52979, 47710, 102490, 44037, 19259, 46188, 91452, 155327, 345, 61176, 47241,
       78607, 134369, 184314, 53791, 202453, 189160, 99409, 156183, 131292, 98142, 1444, 233087, 123998, 54324, 691,
       57385, 213158, 173610, 63243, 209773, 117431, 52481, 242338, 191735, 38920, 97645, 206669, 83603, 66792, 97588,
       108532, 113926, 125551, 20684, 146993, 10724, 128691, 168917, 64810, 89627, 261820, 159312, 102250, 186415, 181107,
       130921, 227615, 22999, 66064, 109135, 179006, 9344, 75387, 93936, 103585, 30732, 4274, 114133, 11736, 123407,
       21285, 188549, 95387, 3163, 194027, 101635, 17802, 178515, 99764, 42462, 242700, 131202, 121147, 95455, 17886,
       323, 99622, 79199, 105355, 104277, 242313, 112047, 136310, 228352, 106306, 65661, 245965, 10776, 6, 2927,
       89022, 207494, 221763, 125030, 14611, 188800, 15776, 49491, 175972, 4152, 156409, 188959, 114512, 62023, 203140,
       84532, 58064, 24962, 84729, 154498, 168186, 126409, 250675, 214465, 100894, 187320, 213834, 52093, 234894, 30327,
       57126, 148616, 119684, 18965, 51975, 171707, 39852, 111189, 121736, 58379, 250556, 22246, 34220, 259275, 209233,
       120045, 74960, 154810, 1547, 9, 150123, 76942, 41769, 171461, 101136, 57852, 80643, 95958, 259623, 208207,
       84375, 96054, 139439, 53783, 129485, 123687, 120386, 169828, 188754, 43115, 171549, 203681, 98321, 152096, 6335,
       121457, 261141, 117167, 16827, 130606, 65820, 124135, 211583, 59645, 101716, 41475, 225157, 80817, 236573, 258365,
       48942, 30184, 58603, 118523, 230112, 106124, 5772, 208597, 70405, 56600, 182964, 211837, 99173, 135849, 91630,
       106317, 209734, 139473, 26513, 12373, 198862, 6239, 166972, 95776, 105231, 80378, 251734, 55298, 69026, 100145,
       18811, 247031, 61983, 11215, 161093, 151343, 83969, 238495, 7741, 76391, 27074, 76386, 111934, 59416, 66376,
       4137, 144554, 194511, 113826, 129579, 74075, 116292, 191059, 259288, 58497, 102583, 87862, 10048, 216176, 172116,
       124091, 137707, 214285, 9441, 27197, 196021, 77420, 260647, 96466, 64639, 2390, 82843, 109456, 118490, 24207,
       65877, 179672, 246595, 61488, 139870, 142141, 115428, 150991, 83789, 126354, 191251, 239545, 71993, 244225, 247990,
       59601, 150749, 102240, 108933, 79327, 199845, 108933, 21540, 186152, 41862, 76, 56326, 75526, 206297, 197299,
       20200, 110357, 116480, 83301, 199132, 249496, 109312, 159379, 31126, 24577, 256168, 68934, 42342, 110744, 71735,
       58842, 187285, 33626, 110766, 87599, 98471, 95862, 34108, 112948, 41532, 219028, 129430, 31854, 234342, 199173,
       91187, 106890, 149427, 62899, 212288, 225888, 77798, 88950, 193619, 85026, 19236, 186540, 73228, 49161, 217374,
       80356, 151283, 127347, 116326, 213177, 26769, 113796, 149375, 132211, 19534, 57741, 15470, 76873, 77954, 225570,
       57580, 50150, 24962, 37423, 180166, 13493, 82725, 197459, 62005, 66962, 138039, 224348, 101568, 59153, 8257,
       12246, 48933, 218632, 39672, 254589, 119446, 3379, 87091, 224918, 97774, 114511, 255024, 119597, 159266, 34669,
       76988, 155116, 63025, 80868, 181512, 166097, 6085, 8794, 16657, 66031, 163138, 22962, 69058, 51714, 32896,
       5108, 121581, 189030, 102549, 12368, 74320, 36479, 256128, 152678, 94823, 169365, 38604, 52812, 60572, 74138,
       130501, 86645, 216726, 27814, 40088, 5328, 7633, 14528, 118178, 128438, 45299, 192621, 31960, 225704, 52832,
       83274, 33910, 86706, 49095, 106353, 214631, 83837, 79285, 189657, 78126, 155040, 136580, 92703, 210283, 162258,
       2417, 106837, 258742, 109601, 169982, 64501, 62739, 181444, 78650, 68007, 19508, 244994, 53873, 234314, 208652,
       129680, 89316, 205599, 105063, 147625, 45160, 40814, 249679, 144893, 102638, 188253, 62347, 57277, 161377, 94,
       114034, 101935, 181291, 4043, 29314, 225232, 46583, 220355, 258496, 56337, 67216, 104686, 97550, 73639, 241471,
       23894, 120728, 109816, 37523, 114191, 20245, 94880, 114736, 37585, 10072, 13657, 180669, 26361, 200163, 168862,
       98745, 68697, 69530, 114757, 76371, 194496, 95528, 249108, 165198, 69093, 18168, 223424, 12984, 42695, 80927,
       108426, 34756, 20282, 16258, 10338, 59929, 50473, 788, 16405, 6619, 13123, 120897, 93018, 139994, 89734,
       65994, 24110, 40963, 118961, 251876, 243242, 18185, 67209, 40148, 107369, 188598, 241526, 66934, 98420, 34654,
       47984, 120814, 175950, 84353, 156989, 92414, 103601, 153490, 142333, 57709, 18705, 181849, 30514, 80250, 259358,
       120034, 82681, 3899, 41025, 62998, 147238, 130840, 222081, 189030, 100574, 213146, 49916, 90153, 218862, 138134,
       1625, 67404, 36185, 58789, 235392, 197342, 65858, 151548, 189304, 49332, 106692, 227767, 19657, 71887, 122193,
       48162, 121799, 212569, 9826, 237443, 235369, 38131, 85103, 51024, 10968, 2625, 60862, 98621, 169591, 75369,
       87969, 243461, 65170, 123198, 240152, 225552, 49798, 8009, 141019, 103048, 244309, 107261, 77018, 223157, 32620,
       84686, 17963, 243851, 71756, 221131, 188178, 102126, 20429, 1363, 5503, 236182, 73814, 10549, 195197, 215773,
       12572, 241271, 171471, 37839, 71275, 172496, 77480, 113430, 176995, 84622, 100519, 208023, 93402, 101779, 206555,
       36800, 51716, 9563, 85224, 179507, 233338, 15425, 226159, 183243, 1307, 260838, 192619, 91053, 52477, 134051,
       93796, 189632, 89006, 81545, 128191, 217970, 33930, 157802, 81343, 121565, 38290, 42797, 114776, 144187, 157595,
       67572, 244412, 253469, 129648, 137743, 79920, 39140, 173674, 213659, 64373, 249812, 217200, 121624, 147450, 221264,
       60571, 71346, 83625, 61735, 259634, 131073, 10406, 38546, 51072, 27701, 156047, 128793, 20691, 186359, 61821,
       74090, 138455, 23015, 41745, 85772, 143376, 10096, 140600, 90140, 66843, 26583, 139597, 87715, 165624, 249780,
       96538, 8523, 114316, 109775, 38576, 216682, 63170, 259150, 209000, 51198, 72714, 136519, 89669, 55252, 90960,
       1751, 195261, 38140, 83037, 156429, 169248, 53173, 141861, 62472, 59359, 70655, 230792, 38832, 167846, 155947,
       16682, 67276, 238626, 52615, 139875, 127943, 40396, 182404, 175937, 125844, 166558, 180800, 123671, 157390, 89461,
       84399, 137302, 199239, 118449, 245932, 26024, 98471, 22982, 149002, 45336, 180686, 29867, 79154, 122751, 211218,
       28878, 65913, 47483, 90073, 199194, 199335, 5873, 4735, 109475, 108965, 164019, 182179, 76445, 26091, 175774,
       7659, 165408, 13393, 114263, 125688, 9079, 115042, 20795, 241835, 111780, 72749, 5682, 101489, 80925, 82975,
       88857, 10493, 124499, 52023, 176271, 162723, 17870, 64837, 71721, 37850, 92497, 75694, 45492, 24819, 70627,
       46933, 209382, 102741, 74119, 224089, 156184, 27313, 39696, 72843, 24859, 69077, 100069, 93973, 192746, 24134,
       983, 29398, 107093, 19597, 212713, 189450, 57010, 216467, 112963, 19540, 164822, 249735, 125804, 144369, 168151,
       87831, 226787, 213707, 56723, 253078, 83124, 14713, 139711, 29344, 50487, 36024, 171325, 85275, 173517, 146524,
       126984, 108858, 153494, 61956, 20480, 146170, 90755, 224898, 140062, 25606, 24771, 257168, 81740, 228896, 8215,
       31333, 105864, 103162, 25969, 216656, 128109, 66744, 146134, 154534, 27743, 68889, 174333, 94545, 220633, 15957,
       122858, 152476, 93429, 51590, 56299, 99048, 42265, 173295, 136427, 23053, 153295, 19034, 51170, 10631, 185650,
       73352, 94244, 129788, 48885, 222009, 185732, 81667, 221802, 247589, 86825, 42426, 165015, 12822, 187787, 126532,
       91459, 203120, 53827, 118006, 109946, 65220, 3440, 241597, 215105, 72266, 219400, 208469, 79151, 5745, 82187,
       93036, 240018, 160434, 50563, 123286, 186284, 107309, 261790, 100636, 70765, 81165, 179056, 53600, 36238, 218802,
       94274, 108428, 246584, 121552, 253146, 220878, 106430, 178114, 151973, 121984, 24583, 260578, 34856, 157582, 82400,
       15533, 191920, 231129, 70038, 69268, 135441, 5823, 153261, 39457, 88419, 217629, 226474, 31457, 125739, 85437,
       59552, 150677, 47377, 85925, 210124, 255723, 63320, 70150, 171224, 30941, 33135, 177602, 115391, 242429, 253167,
       100209, 45508, 8104, 78783, 202867, 64944, 91559, 18201, 25781, 54437, 156251, 249230, 49268, 243495, 139923,
       20986, 37867, 188588, 105328, 90031, 137615, 49944, 60635, 15352, 90744, 75493, 196848, 39313, 261275, 95367,
       104331, 237057, 180665, 13794, 121742, 92916, 81921, 225741, 115007, 105853, 14160, 133527, 86540, 83949, 132222,
       91241, 76287, 48683, 68942, 111244, 160249, 73273, 115847, 261547, 8636, 205735, 190962, 32873, 70800, 257617,
       94624, 169001, 20112, 123918, 72517, 105872, 71012, 82227, 172471, 95104, 185362, 121663, 89598, 47395, 246315,
       130991, 79096, 240063, 104202, 215438, 19647, 82266, 259872, 60628, 15094, 42422, 144804, 47534, 218746, 15127,
       32859, 160825, 135220, 111892, 254961, 145231, 58480, 206905, 126628, 70162, 209176, 257682, 126461, 83764, 177689,
       109665, 214761, 118922, 103523, 84187, 156166, 18641, 3812, 248277, 2984, 79338, 142031, 16455, 229139, 220111,
       97030, 109238, 26480, 53833, 158122, 30784, 15396, 255230, 48377, 96864, 200374, 250767, 25504, 135882, 199240,
       77207, 22199, 9578, 97195, 131230, 227786, 79699, 189325, 150469, 130237, 243448, 34254, 56906, 151023, 184435,
       40868, 240240, 23499, 26371, 65864, 194875, 66031, 105858, 84346, 111736, 65727, 1398, 124114, 17766, 168457,
       127409, 46217, 139230, 69648, 215372, 122870, 79332, 179309, 129058, 76223, 152053, 17726, 61075, 244791, 981,
       19954, 98813, 30412, 8579, 209975, 46716, 57231, 593, 189900, 24401, 97558, 82374, 116215, 57024, 140625,
       99837, 140292, 134854, 81055, 210633, 180164, 6214, 100243, 195590, 81558, 249279, 179407, 81404, 205000, 125524,
       57568, 78111, 220687, 86213, 5, 124829, 112448, 150315, 53534, 99350, 223586, 84224, 62053, 253714, 201591,
       34378, 40308, 242569, 62631, 23624, 257655, 123990, 75869, 37159, 107477, 72944, 192429, 3544, 38329, 108345,
       102624, 146600, 128177, 22355, 86695, 81970, 74856, 184718, 46539, 105711, 227203, 84670, 73569, 51425, 217855,
       52934, 218387, 52558, 42109, 50249, 225738, 39990, 25882, 172109, 109763, 78082, 217456, 108141, 18691, 144171,
       107921, 163590, 38405, 37057, 224686, 137574, 104715, 196636, 136227, 4801, 210227, 214099, 27060, 166507, 68136,
       67436, 245316, 243286, 53313, 8657, 19554, 14665, 109471, 158399, 5468, 100693, 85721, 80107, 110929, 92388,
       41088, 162223, 6709, 2092, 35627, 181275, 56478, 57927, 214878, 40208, 151898, 125577, 75577, 20596, 102051,
       121872, 150832, 203462, 40352, 172072, 65967, 130696, 177661, 112664, 11278, 18409, 204130, 11570, 208518, 12128,
       93449, 22211, 257131, 98124, 175276, 142859, 55426, 150291, 60101, 37492, 217732, 152500, 104071, 115247, 21854,
       125336, 39573, 136033, 129748, 110351, 214595, 83159, 43305, 184717, 97008, 83400, 31396, 107773, 132567, 228414,
       104709, 121832, 81242, 130205, 240101, 147323, 106224, 242152, 52274, 86844, 181784, 64356, 49311, 98472, 217341,
       78379, 78771, 123144, 115390, 124228, 172472, 40039, 231422, 49879, 4017, 181321, 45116, 42884, 111763, 44906,
       125859, 71903, 84669, 104080, 6474, 8295, 24528, 209307, 69563, 1572, 260024, 84870, 87702, 214944, 114798,
       75891, 217959, 243012, 10876, 161009, 224722, 126615, 21916, 196961, 80975, 102457, 114353, 85396, 41422, 96753,
       111882, 201895, 237204, 44179, 145948, 9408, 73171, 87879, 53577, 75522, 41000, 126700, 126793, 59666, 158413,
       17234, 52026, 244091, 99472, 66631, 53321, 75386, 57463, 112837, 110805, 136440, 34426, 109045, 151281, 124992,
       1576, 219072, 247174, 33614, 7077, 132888, 23700, 23794, 131544, 60517, 88612, 122285, 118657, 219732, 148010,
       656, 40333, 170855, 63988, 78288, 96245, 115971, 169119, 180716, 121400, 135375, 18484, 86153, 116007, 49076,
       108757, 76849, 89160, 42476, 69821, 153275, 37481, 73305, 44245, 6438, 55151, 167815, 65955, 202954, 174619,
       59746, 213265, 243603, 48747, 185387, 721, 14854, 243019, 190727, 30246, 154338, 45699, 26696, 44647, 170263,
       123727, 216640, 141522, 126675, 233133, 177578, 448, 124935, 197728, 22354, 14278, 112022, 116494, 72626, 173155,
       5025, 81678, 26560, 123660, 20095, 129862, 49815, 218727, 121243, 70606, 162600, 126782, 100115, 95783, 114153,
       31969, 33577, 2816, 13195, 142489, 134629, 106161, 139051, 210580, 129056, 249871, 67255, 86347, 92405, 36623,
       108163, 209930, 7331, 123379, 182953, 250973, 29960, 107247, 163690, 45928, 107273, 186501, 28708, 48631, 59601,
       8098, 32128, 156974, 95980, 223688, 257377, 19091, 166048, 8182, 12151, 158877, 239292, 46875, 240585, 241744,
       7937, 55312, 197301, 23535, 17764, 118439, 9167, 87544, 54901, 114986, 145933, 255418, 102201, 90691, 72279,
       112658, 85164, 15565, 113813, 233497, 186520, 123798, 181129, 101825, 24465, 49078, 163270, 117965, 259009, 235829,
       68817, 235663, 174204, 21788, 61056, 42299, 85953, 138422, 198053, 42860, 160549, 35458, 6090, 222126, 55728,
       10308, 143851, 85669, 55537, 79022, 205726, 108328, 223243, 237222, 40767, 8321, 139581, 100417, 170169, 242869,
       7306, 123915, 18486, 51607, 80323, 32180, 16703, 222536, 23676, 113187, 1942, 190299, 126869, 156407, 100649,
       42679, 26878, 184011, 129612, 54178, 107051, 98606, 119677, 214914, 161, 191277, 128248, 63605, 142133, 87408,
       109327, 62573, 229429, 69976, 29875, 205862, 72084, 120260, 246834, 58680, 231992, 211955, 51778, 140169, 17483,
       3590, 248471, 118199, 81491, 208612, 164619, 100496, 92896, 95399, 103570, 49873, 65696, 81872, 80772, 69557,
       44731, 233744, 173352, 2963, 129621, 163895, 117411, 161695, 42059, 56235, 247971, 59622, 78797, 70361, 95075,
       25500, 223841, 32730, 18606, 110063, 203231, 11379, 97321, 206629, 104695, 197388, 200711, 84732, 235565, 61059,
       81416, 153718, 92989, 120507, 79058, 174213, 20802, 191527, 100166, 22317, 142732, 88010, 24834, 26310, 211655,
       55491, 230152, 242371, 114585, 259850, 164922, 115536, 151165, 155017, 77409, 135214, 198560, 86264, 27763, 90613,
       117671, 132619, 64876, 81817, 164346, 20679, 30120, 79527, 123822, 92394, 130223, 208188, 100911, 32386, 128593,
       83275, 233427, 46401, 35857, 77781, 92377, 52418, 8488, 190634, 61681, 127940, 185916, 19044, 145297, 18024,
       59273, 211395, 44716, 21128, 122859, 49043, 65464, 36437, 205683, 6659, 227474, 40200, 124325, 241097, 156139,
       32288, 239612, 160631, 61212, 130972, 214834, 4292, 234168, 166296, 25260, 103640, 174151, 90865, 1984, 85987,
       14653, 243441, 62127, 82332, 201018, 211178, 271, 45544, 103735, 60949, 184117, 4999, 94547, 250000, 176359,
       121411, 15237, 225836, 64597, 6100, 215198, 110170, 71270, 7363, 105197, 66596, 171655, 38767, 70068, 246335,
       114653, 22427, 78064, 83923, 44755, 191226, 13655, 180930, 54912, 123091, 102885, 19727, 23157, 98006, 213411,
       61651, 39343, 163917, 61127, 116343, 57954, 81951, 3845, 55906, 87157, 55886, 195026, 30527, 182202, 64413,
       46195, 89615, 61020, 18951, 190657, 180416, 16517, 35204, 50905, 108143, 59870, 40152, 98398, 143528, 239314,
       58023, 107468, 105150, 12571, 5675, 237301, 58972, 37420, 69737, 38594, 235062, 10309, 101963, 112213, 85934,
       12666, 186343, 139845, 59161, 204230, 58382, 77514, 74077, 91385, 129200, 257003, 34375, 11745, 30663, 106178,
       14937, 7079, 249220, 129505, 151919, 199514, 53166, 26278, 216251, 97480, 31895, 227184, 102691, 179656, 41333,
       41229, 244025, 196178, 28088, 198370, 185574, 36187, 216471, 135977, 100190, 150734, 138986, 110163, 84568, 238422,
       91685, 133988, 86519, 57832, 152047, 247926, 34414, 188063, 57803, 55738, 63569, 89319, 119868, 218389, 8477,
       113140, 200815, 50940, 42385, 148441, 95735, 42983, 225088, 96086, 102232, 198876, 61205, 55911, 239657, 100038,
       75067, 242209, 68869, 55354, 8091, 14987, 31763, 218573, 258816, 24753, 115655, 181809, 18290, 3211, 42944,
       1497, 54179, 132404, 36780, 251714, 25957, 22466, 227213, 29505, 33810, 20533, 44980, 9935, 205293, 172956,
       44768, 227757, 152705, 68152, 3216, 143882, 123806, 226623, 70366, 45491, 109160, 183085, 4066, 63943, 192803,
       47495, 216125, 75637, 107115, 58144, 258852, 44583, 205134, 178921, 38237, 189387, 100864, 120454, 139234, 20373,
       38958, 114282, 20188, 127174, 36552, 516, 109135, 60757, 12937, 89686, 1410, 65637, 78423, 215301, 43836,
       29462, 115382, 71026, 95734, 205495, 259522, 45500, 23321, 170958, 63654, 23387, 223901, 13640, 131963, 206556,
       38817, 134086, 44892, 69352, 195794, 221058, 61347, 29112, 27428, 45024, 250679, 67323, 61856, 210523, 58517,
       97638, 251199, 81142, 60204, 188835, 31310, 66342, 246693, 189134, 91900, 162308, 36517, 110312, 35515, 83384,
       69057, 23354, 197835, 124279, 71885, 39905, 46327, 16597, 52568, 33102, 232396, 6781, 90844, 177000, 125025,
       23035, 227929, 43352, 117960, 153711, 102497, 50669, 13446, 254957, 91507, 194111, 256770, 74735, 24814, 130788,
       7129, 31105, 10650, 92940, 95506, 193575, 103547, 131071, 74379, 128774, 164219, 243960, 54542, 179698, 112499,
       65920, 64611, 239240, 114670, 160313, 141234, 35284, 60348, 168115, 24791, 79470, 188362, 17420, 213729, 171286,
       128221, 124278, 238477, 35436, 137814, 161273, 99273, 55543, 123091, 58938, 202708, 150969, 31532, 182324, 166047,
       119712, 127869, 38518, 60792, 46365, 2371, 74180, 237339, 152725, 29162, 174554, 123317, 42487, 76526, 143499,
       98000, 236733, 37005, 44963, 147965, 64119, 66316, 261899, 155027, 14988, 210004, 227124, 111419, 238881, 215960,
       96676, 78536, 51573, 99712, 91619, 247918, 23355, 23666, 121201, 64901, 28116, 72465, 3609, 233432, 259819,
       41299, 93219, 199428, 45615, 161120, 133253, 119759, 52016, 35448, 130126, 7083, 139734, 80969, 50019, 41093,
       67733, 239530, 249129, 57683, 88288, 58806, 2398, 32617, 174220, 104872, 229624, 212987, 88057, 146024, 158650,
       85103, 47670, 187713, 106042, 245127, 129458, 121641, 241254, 40334, 51056, 125472, 101, 55889, 125957, 245664,
       127813, 109502, 121914, 87087, 129518, 212868, 111588, 75376, 199616, 29041, 147472, 195090, 41559, 178109, 158501,
       51328, 125917, 254390, 41541, 14930, 224182, 115900, 6456, 219128, 67044, 174166, 75101, 124996, 113640, 138596,
       42116, 98410, 261632, 4881, 190887, 121747, 18095, 258579, 9150, 28451, 224328, 19388, 83882, 28474, 98205,
       23735, 144912, 8337, 50003, 203038, 229841, 104252, 246890, 170580, 16352, 108430, 222623, 10548, 181583, 223143,
       70774, 256363, 102872, 91497, 79298, 112748, 119400, 119615, 73355, 86766, 158984, 192762, 124017, 146241, 206867,
       32050, 135659, 230355, 44803, 51716, 161076, 110009, 261665, 2241, 106306, 117008, 173181, 87148, 133472, 129315,
       66325, 161957, 215864, 2321, 122601, 12610, 36758, 91851, 73681, 20753, 160832, 47373, 6707, 153506, 136059,
       101722, 84137, 247522, 17211, 89111, 44877, 46846, 215661, 90797, 128117, 59727, 178253, 53628, 146216, 57977,
       18547, 137743, 5227, 90408, 140038, 248186, 106160, 178139, 218768, 36588, 220244, 168943, 106083, 66942, 59504,
       35588, 212554, 172456, 90847, 145450, 120350, 16358, 68162, 234064, 56075, 159787, 135381, 68222, 47810, 4364,
       95064, 96744, 84806, 85200, 232815, 60927, 111849, 91090, 175276, 24155, 104557, 379, 86670, 237938, 98603,
       16744, 120956, 49705, 62662, 233681, 257031, 68754, 210927, 183271, 3573, 123582, 151371, 9221, 207843, 115732,
       110005, 9124, 140973, 37589, 242134, 222792, 45369, 245646, 143356, 83939, 85189, 213041, 28929, 133044, 142708,
       25278, 231871, 212620, 55252, 59196, 111, 7732, 213543, 94439, 120189, 32679, 46021, 123221, 249723, 162302,
       58746, 128963, 197388, 27425, 111909, 132411, 61679, 40178, 159727, 13098, 116148, 61211, 52140, 23557, 232049,
       9655, 128659, 155363, 92558, 144464, 8051, 36138, 85574, 83120, 68243, 230630, 250126, 1774, 165078, 745,
       68765, 39426, 116843, 428, 87854, 133137, 121266, 206776, 52468, 65687, 201177, 35861, 13115, 240055, 185222,
       44702, 192134, 125264, 6038, 29180, 13567, 69585, 137932, 27154, 16035, 201847, 207001, 62011, 39061, 96988,
       40043, 138763, 124168, 99822, 68086, 254868, 63210, 43100, 225737, 111173, 89769, 91454, 123384, 108714, 193791,
       127077, 147726, 151299, 34104, 119620, 15292, 100606, 200103, 258255, 57424, 16105, 134302, 55859, 96455, 86522,
       113800, 182676, 135118, 19093, 30011, 135282, 62627, 144882, 236897, 77710, 102759, 88894, 8666, 243750, 98482,
       113313, 160517, 141439, 41201, 14579, 62559, 86090, 174279, 38361, 121645, 79159, 103385, 94339, 181028, 77309,
       116131, 45301, 164190, 9115, 94525, 168458, 64583, 188534, 67072, 74033, 177308, 99222, 90313, 184591, 254118,
       15316, 221528, 45851, 86086, 179441, 149916, 19135, 174771, 75759, 8862, 38238, 40113, 61514, 159178, 179026,
       78692, 102102, 83839, 125582, 103206, 224267, 91570, 60822, 44085, 77514, 201821, 233092, 28123, 118145, 198429,
       19928, 199032, 21003, 79596, 135296, 256626, 29222, 98693, 162187, 92616, 37393, 191271, 15004, 194349, 128385,
       44516, 195728, 248139, 101330, 7407, 163820, 108925, 181439, 28325, 45251, 104509, 24287, 27095, 51036, 157241,
       125593, 45141, 224737, 99755, 197316, 261165, 105782, 229368, 231313, 29196, 132186, 257918, 55632, 5891, 204141,
       8940, 66799, 220701, 14339, 54976, 216637, 28961, 142549, 155990, 39745, 149301, 110696, 130703, 1701, 75565,
       55323, 260155, 150320, 91471, 255490, 255335, 118547, 183592, 54790, 32251, 42220, 62548, 18969, 7223, 31945,
       31884, 88725, 208768, 115660, 203255, 212699, 87252, 209683, 98487, 59157, 104142, 218079, 107516, 26264, 255478,
       31028, 54610, 207186, 31349, 51037, 65317, 74346, 176134, 251339, 103555, 27713, 129452, 34020, 223852, 102377,
       27529, 162743, 138903, 62124, 212806, 89989, 17590, 125076, 146638, 98017, 47547, 81810, 75671, 240818, 215982,
       67179, 210071, 30048, 114329, 81300, 138670, 96018, 90040, 165148, 19565, 23637, 233573, 55106, 220019, 66850,
       42109, 150519, 88792, 105128, 221611, 42486, 94245, 154501, 24222, 61867, 80276, 12554, 107956, 260890, 192353,
       53748, 83863, 143948, 105323, 45014, 37679, 4204, 31622, 11958, 17644, 204077, 74927, 99087, 20338, 194442,
       14993, 59463, 45635, 89621, 243036, 24550, 94840, 69433, 157890, 86795, 70741, 126168, 107247, 84178, 93000,
       67058, 176321, 255007, 117576, 115837, 151522, 74645, 2504, 84009, 66567, 242681, 195215, 66766, 108391, 255064,
       119548, 115450, 229827, 31941, 190526, 249554, 91099, 179700, 94812, 31800, 35805, 77345, 12081, 146482, 256252,
       125009, 30809, 146784, 17003, 95669, 59715, 89940, 189233, 14417, 55647, 199575, 57900, 109720, 144264, 238714,
       101345, 41034, 188682, 18844, 3916, 245513, 61317, 177284, 45853, 3608, 186444, 199608, 56298, 132654, 38063,
       91778, 180421, 256855, 30429, 46996, 244047, 106172, 183152, 9129, 6968, 110126, 104695, 4530, 178840, 41304,
       3598, 68256, 242034, 36703, 178810, 214286, 61224, 129119, 110438, 14083, 77278, 3974, 130645, 46260, 113065,
       131014, 123227, 47156, 68131, 140439, 217882, 74450, 38203, 218934, 121478, 164610, 245448, 100898, 73182, 111387,
       22013, 62417, 166616, 103873, 28067, 180150, 30269, 212687, 182528, 56393, 116167, 233462, 69796, 241372, 59138,
       93978, 139492, 83149, 19680, 131025, 160859, 9983, 192730, 12496, 113524, 135552, 113802, 108369, 90549, 65510,
       68585, 114005, 81563, 86817, 91356, 117901, 94280, 68827, 209506, 62459, 240656, 244442, 33715, 187224, 219435,
       63097, 17195, 233273, 124622, 260642, 200483, 109816, 100458, 55718, 61020, 63392, 44385, 29567, 24919, 260519,
       116603, 142159, 41689, 83655, 140568, 47485, 53050, 19810, 7200, 14635, 46456, 149498, 98535, 42854, 18018,
       41546, 53166, 26630, 79469, 191049, 201452, 74660, 228023, 80456, 91700, 261089, 259245, 70467, 19351, 93720,
       82629, 79459, 131460, 10687, 243246, 361, 87199, 106478, 183625, 25452, 259264, 124528, 51377, 182847, 23311,
       67178, 242470, 147457, 90030, 95756, 163424, 97311, 114480, 204881, 92395, 163771, 127941, 12465, 173729, 42100,
       50712, 72695, 174006, 36787, 87122, 111297, 52221, 237513, 96901, 84786, 252190, 219543, 25286, 132496, 5549,
       65811, 44151, 130662, 115981, 232406, 151796, 95830, 68019, 160019, 95075, 14641, 195228, 111242, 249851, 229224,
       52329, 220114, 189974, 99546, 244826, 205882, 7694, 132563, 121568, 7395, 260852, 254050, 43489, 134627, 239121,
       25801, 32910, 102172, 67965, 233107, 196567, 24012, 186907, 75834, 127870, 109866, 43219, 111556, 13563, 143605,
       128782, 172229, 17375, 105875, 30214, 138881, 124663, 222860, 44815, 48248, 75608, 103808, 65261, 108623, 195904,
       31430, 67726, 128600, 83336, 97617, 251293, 103314, 241728, 104323, 65371, 35056, 21200, 38846, 47370, 53331,
       66541, 159855, 172956, 8243, 210306, 226398, 94518, 149104, 164536, 59193, 7592, 67191, 117733, 93190, 150224,
       121012, 69346, 146696, 16450, 43648, 14242, 130562, 67981, 194159, 127116, 151158, 123049, 82199, 96625, 208189,
       108193, 20271, 208417, 2416, 149889, 32833, 127190, 97899, 226726, 59809, 256631, 219828, 119236, 59651, 141742,
       50479, 22305, 133360, 103307, 227011, 97479, 54780, 261995, 76184, 47540, 178622, 48285, 124095, 209195, 210890,
       91633, 248242, 194468, 110111, 28490, 3298, 71219, 9908, 133991, 120369, 211478, 56790, 96988, 25429, 108060,
       9459, 41502, 145553, 100515, 74657, 49523, 2452, 109668, 132410, 108667, 189203, 3904, 43498, 91014, 196525,
       78418, 99078, 97945, 98222, 90321, 139010, 83488, 71152, 56794, 88128, 238799, 99122, 117003, 126963, 153483,
       49017, 67045, 173171, 71715, 107237, 26786, 22928, 66878, 218280, 61281, 211515, 46981, 19665, 148687, 55657,
       83045, 85117, 208267, 42500, 72945, 60820, 112592, 195557, 183037, 45033, 106724, 171345, 37595, 233811, 127572,
       64391, 221730, 6021, 22980, 179373, 145132, 26713, 72560, 206480, 102648, 136943, 23402, 65172, 85978, 154310,
       27045, 170733, 204533, 4131, 198545, 97979, 61142, 34950, 187250, 97338, 4312, 223711, 46031, 48259, 11494,
       32501, 45286, 106793, 51954, 68616, 213296, 125715, 7259, 222851, 55464, 184021, 188065, 34031, 74293, 195915,
       74611, 198758, 35531, 106265, 210690, 149659, 2927, 36429, 62871, 73151, 132177, 149768, 109617, 36795, 139388,
       28262, 62125, 104104, 120806, 217969, 238315, 75719, 188858, 130235, 67728, 96365, 171376, 126309, 11119, 68251,
       16993, 186021, 68661, 97011, 205241, 15223, 107291, 203480, 211682, 64036, 20928, 94122, 848, 204459, 157463,
       68725, 218767, 193524, 20121, 30286, 229587, 73737, 63810, 219535, 96812, 57559, 228656, 69608, 155831, 167805,
       82680, 126122, 90555, 13624, 91714, 68780, 12719, 256248, 70302, 111534, 132884, 213944, 6465, 200150, 155400,
       37263, 200501, 251588, 122905, 200804, 109921, 60144, 165229, 140807, 88413, 31657, 170792, 29057, 104843, 247874,
       35456, 174127, 167116, 66715, 188679, 179364, 83637, 12983, 159022, 125889, 146817, 68230, 75290, 98140, 161789,
       12578, 225864, 220740, 48092, 222674, 183329, 32003, 139979, 171967, 33344, 229843, 122914, 66242, 37688, 23820,
       41506, 26586, 26670, 37920, 77052, 78180, 126880, 47513, 100424, 76540, 163852, 19867, 34311, 229299, 204455,
       36158, 198537, 198013, 106303, 20150, 74477, 116192, 41776, 49351, 89001, 256411, 22151, 56550, 156810, 8847,
       100214, 64154, 62294, 122864, 136122, 79523, 21784, 63115, 83753, 112945, 126546, 100525, 111256, 230223, 27518,
       48038, 38065, 244760, 38244, 259241, 248014, 74096, 86892, 8570, 35690, 23642, 132642, 19054, 234398, 197322,
       124921, 251215, 239374, 64404, 77814, 156167, 61899, 144024, 182907, 16528, 155031, 140853, 66080, 85026, 236281,
       97364, 159644, 18316, 32511, 242507, 131290, 48350, 255347, 175198, 23450, 205705, 204221, 46540, 126842, 93221,
       112889, 234703, 53653, 31071, 245785, 121271, 3872, 20010, 219202, 70283, 221736, 49662, 75955, 54737, 28663,
       43110, 258590, 69577, 84091, 183032, 180686, 4967, 234488, 27869, 44639, 179197, 237250, 18949, 84986, 209826,
       30121, 37670, 39072, 50139, 143016, 78339, 64672, 81766, 84077, 12215, 220603, 90900, 13280, 28263, 239859,
       88348, 106850, 28596, 52970, 115943, 107869, 23137, 22398, 158324, 30791, 13501, 99115, 94379, 55718, 99297,
       6784, 35752, 97876, 66681, 256345, 98071, 47228, 6720, 164305, 106318, 177890, 175759, 103560, 237830, 77334,
       90335, 9516, 70503, 50434, 98081, 260448, 82737, 104947, 11299, 83866, 66817, 75170, 43542, 26626, 14079,
       115340, 17722, 11122, 129087, 64583, 117017, 41214, 72335, 82604, 105018, 121846, 19580, 65655, 12663, 13337,
       60771, 222025, 243152, 50667, 150225, 39867, 38276, 89698, 199287, 120521, 192548, 75285, 97100, 28619, 108076,
       57763, 213504, 162026, 98509, 20276, 133536, 94188, 78242, 155735, 35040, 120858, 60391, 23086, 3393, 128312,
       109615, 106852, 179808, 106352, 166501, 126661, 130660, 205561, 9846, 2537, 258476, 246336, 70828, 203785, 125169,
       91923, 203320, 174499, 76354, 181149, 211378, 93119, 15030, 166787, 17991, 26721, 113414, 198, 185819, 74018,
       12193, 235249, 135676, 49815, 52381, 52416, 43113, 247439, 254738, 114557, 88512, 54053, 10947, 250568, 53270,
       58026, 99639, 39675, 125543, 184187, 208111, 65916, 157298, 142281, 17353, 247537, 4062, 38176, 254492, 160453,
       82154, 213233, 138527, 1571, 127122, 153145, 126890, 221769, 194393, 74314, 206302, 144684, 92292, 243980, 238228,
       65399, 217681, 170049, 125557, 10688, 170229, 77230, 100051, 233068, 86767, 138026, 230544, 112831, 183793, 24370,
       112925, 250125, 197385, 3692, 124526, 259534, 37132, 213016, 248130, 32285, 107545, 2785, 870, 251625, 251146,
       114921, 168423, 108803, 41568, 48029, 132681, 45475, 206839, 96970, 13057, 185213, 186027, 129724, 196296, 107743,
       108298, 101912, 236181, 74955, 35941, 72896, 101178, 119427, 226369, 101857, 201415, 54078, 86079, 22357, 164426,
       22807, 260602, 253258, 94413, 28604, 30538, 74660, 234376, 115286, 94905, 144980, 177162, 71231, 130980, 95539,
       125349, 2988, 79727, 82185, 125101, 228221, 75193, 116118, 17564, 110465, 245606, 137351, 49707, 77009, 16703,
       41391, 185410, 30962, 65951, 90528, 25951, 76607, 85368, 196078, 28899, 8676, 148493, 89428, 663, 47723,
       105168, 224475, 13567, 75670, 121844, 12841, 68545, 230688, 135837, 38619, 90766, 33886, 119220, 227042, 78066,
       98893, 206815, 65763, 62952, 42034, 40051, 86390, 120955, 60280, 44155, 118585, 29546, 7840, 102117, 153439,
       26729, 52480, 216717, 10418, 175159, 238654, 66607, 158056, 186829, 81535, 32568, 160161, 49865, 224505, 62080,
       69488, 98366, 123419, 11198, 32092, 197295, 100919, 259628, 147414, 4296, 211949, 59603, 83155, 112745, 75179,
       56799, 156739, 8676, 24091, 137535, 1688, 68557, 256661, 240568, 102360, 116986, 72669, 54201, 55033, 101726,
       48196, 93691, 81337, 18672, 148834, 257071, 77932, 69098, 23936, 108529, 108401, 200271, 73576, 41858, 184852,
       21638, 93573, 24745, 86668, 119056, 73277, 3950, 194349, 86340, 109845, 106722, 220208, 120782, 56805, 122488,
       78254, 201011, 186207, 115576, 175181, 124580, 11076, 82644, 113010, 29929, 149300, 70001, 41583, 258529, 128739,
       101340, 132818, 193176, 63470, 74702, 192114, 45658, 156900, 75219, 20718, 134115, 13553, 106252, 156906, 211084,
       2690, 12001, 42679, 44206, 187291, 97547, 31821, 22056, 98996, 16909, 168859, 246412, 22549, 215793, 54050,
       64722, 253687, 190002, 55844, 20154, 127578, 67943, 180401, 163023, 95370, 172272, 62749, 116959, 82762, 148629,
       15527, 15910, 170726, 10836, 197194, 62964, 41989, 137714, 244009, 71604, 205622, 91944, 13092, 113977, 139697,
       93843, 223793, 103538, 72888, 99964, 28499, 98102, 83915, 229491, 46912, 125281, 197694, 52572, 138777, 165405,
       105850, 5309, 128907, 34997, 121500, 30488, 49993, 20858, 173644, 1768, 145398, 212144, 72787, 1144, 112366,
       111603, 16571, 138268, 3655, 201000, 151012, 80450, 168810, 165980, 110814, 165174, 89229, 64740, 167769, 32413,
       41028, 97658, 211685, 130624, 61228, 175941, 8497, 146381, 151939, 27580, 164192, 67850, 116030, 205029, 137977,
       38968, 158892, 186672, 107458, 246829, 55343, 43673, 94372, 90353, 106427, 253701, 249402, 89879, 220366, 180481,
       61410, 45305, 105227, 68543, 128429, 132622, 23286, 50413, 47824, 15189, 36939, 122832, 93971, 32876, 115009,
       111224, 48236, 182696, 94630, 41244, 178138, 119651, 715, 233159, 116664, 93822, 193203, 101998, 147581, 144056,
       117719, 76459, 33555, 21918, 87083, 202569, 95860, 251087, 104847, 98785, 235869, 173841, 20182, 4628, 101732,
       119220, 235568, 189597, 1151, 130624, 191425, 56964, 143149, 145234, 2815, 79166, 2578, 68597, 146686, 245915,
       54022, 34441, 172507, 81665, 255386, 91530, 100459, 95274, 131816, 100738, 181515, 70592, 94663, 7759, 117904,
       13353, 73413, 19048, 54714, 131727, 12621, 106948, 69122, 199361, 85760, 113609, 242470, 89263, 180762, 163553,
       29743, 170096, 193334, 42606, 64511, 226819, 125280, 22815, 18336, 111008, 49104, 169542, 21616, 163020, 156567,
       71394, 2673, 243922, 64291, 201468, 261066, 58151, 100942, 220172, 61684, 68688, 220265, 84264, 178983, 3414,
       126766, 54622, 172261, 114730, 168523, 231203, 114704, 148890, 196399, 92192, 260874, 112087, 2305, 64591, 111727,
       57732, 11265, 53710, 66994, 88577, 161332, 110427, 5329, 261279, 120958, 197823, 249788, 59185, 5822, 131084,
       39381, 221530, 139073, 44217, 198067, 1662, 75846, 109889, 176441, 36041, 32591, 54193, 119372, 90767, 261096,
       54873, 144819, 27013, 129769, 181060, 6836, 14354, 100269, 235090, 24625, 185334, 104396, 67055, 56190, 110643,
       113810, 136808, 57527, 46393, 89659, 136269, 109768, 154459, 45630, 55764, 241543, 99103, 111803, 97521, 181276,
       36363, 129090, 197312, 61851, 208443, 66741, 36533, 228341, 238549, 28209, 203931, 25176, 55200, 107964, 60066,
       43870, 179156, 105409, 103172, 242708, 245974, 97994, 126076, 29414, 46996, 81699, 227057, 130059, 87199, 216095,
       127642, 228084, 40739, 120302, 70670, 105093, 76874, 203334, 44774, 54042, 103167, 240772, 41028, 142593, 106115,
       1970, 74275, 190399, 82812, 45076, 177589, 72504, 9923, 157340, 82558, 136128, 62367, 75491, 147399, 16177,
       18050, 184518, 95213, 91144, 201173, 214012, 47243, 9925, 224676, 67671, 208763, 206540, 47926, 254654, 221251,
       2883, 148632, 259475, 114891, 173661, 217521, 19494, 207062, 42757, 76306, 154057, 193503, 115753, 196140, 108478,
       29010, 17670, 66502, 54003, 155984, 233192, 49510, 22631, 95546, 11694, 80428, 166601, 55511, 67034, 239160,
       62846, 53512, 156403, 3486, 43387, 211404, 63981, 256526, 53009, 12298, 131721, 99387, 116976, 226934, 181981,
       85217, 124871, 188471, 7395, 259760, 145962, 108402, 47832, 13781, 47395, 147595, 92460, 29572, 23506, 142580,
       33281, 252088, 25872, 78344, 44743, 144762, 10689, 80281, 202728, 7699, 220856, 55443, 82249, 102246, 219946,
       128700, 219669, 198025, 63363, 243562, 169307, 54169, 228652, 102367, 124151, 25505, 31744, 31587, 30787, 102247,
       31528, 50933, 74507, 118635, 99397, 111562, 84794, 147737, 31974, 7049, 143841, 115238, 88339, 148586, 23408,
       107483, 45659, 21332, 35907, 159714, 172863, 50186, 140199, 74557, 25909, 227976, 61848, 83013, 252243, 195290,
       87057, 91722, 230294, 8983, 33684, 93029, 88828, 27264, 93591, 86304, 251462, 172152, 4605, 37679, 30492,
       72793, 122321, 107593, 80470, 36272, 16569, 56381, 94974, 74190, 118137, 116612, 11751, 43040, 6142, 147668,
       8805, 53365, 254697, 88061, 30344, 248757, 79327, 112437, 139303, 129637, 229926, 71914, 30318, 10224, 182502,
       51838, 62971, 50126, 60447, 198796, 45949, 112919, 147269, 182717, 54338, 67059, 146570, 101207, 6603, 253615,
       20570, 208942, 8111, 53711, 68172, 98359, 20313, 53505, 20152, 124476, 80788, 260212, 23299, 1414, 198556,
       54928, 183849, 250497, 10782, 20310, 227437, 120767, 152304, 115465, 81765, 45478, 37318, 126151, 17628, 243242,
       5540, 164566, 159321, 22934, 205291, 180570, 49813, 199178, 166308, 81442, 232003, 50473, 43190, 141674, 101370,
       93306, 197027, 226754, 21643, 225435, 178374, 78726, 166463, 833, 52162, 58417, 93797, 66616, 42351, 256223,
       74662, 247616, 41564, 7850, 176375, 17991, 121113, 185591, 41301, 103034, 164893, 4796, 57993, 148148, 132123,
       71757, 241722, 111765, 4264, 132791, 173703, 65266, 249796, 99431, 55878, 21772, 86698, 49084, 139698, 2404,
       106869, 218853, 152051, 23845, 50231, 97888, 23109, 88349, 153438, 68377, 93329, 28070, 90065, 82820, 123094,
       2941, 85218, 198468, 71544, 106099, 125302, 39151, 24169, 227718, 99205, 255414, 203511, 61455, 256531, 215367,
       109323, 239374, 158097, 52032, 114049, 67883, 108408, 73750, 207639, 93914, 4336, 109483, 108561, 92327, 127338,
       106485, 150720, 244848, 63748, 198458, 155039, 48246, 125054, 123401, 100289, 16930, 69370, 47385, 179251, 260712,
       11717, 101521, 120969, 112570, 127303, 172388, 52061, 148714, 205734, 17380, 174334, 205048, 84735, 2305, 1371,
       116624, 94146, 86323, 112848, 123933, 137880, 72672, 118931, 27125, 11543, 172346, 128919, 91305, 41719, 2025,
       79800, 103648, 54156, 27544, 147608, 110589, 118035, 160557, 15794, 11359, 187080, 96051, 48894, 228229, 51457,
       12390, 166812, 146844, 119530, 114359, 208002, 4637, 227690, 152303, 55805, 220417, 257210, 112955, 14685, 59753,
       32949, 48745, 232862, 13764, 44125, 244557, 16646, 186580, 196622, 53075, 171093, 21539, 56175, 21354, 152660,
       94119, 204559, 201970, 31185, 206007, 135163, 91991, 139063, 38588, 130937, 204348, 42717, 113279, 23702, 61516,
       83305, 262139, 207011, 123196, 55400, 261367, 129906, 173395, 197218, 74746, 246281, 70465, 35865, 64969, 148821,
       119928, 179778, 233200, 110650, 78020, 215753, 11090, 43848, 68145, 122732, 132359, 170806, 48001, 43647, 142127,
       42216, 116455, 249261, 44993, 309, 238892, 41945, 115495, 105789, 67636, 118575, 79919, 75992, 26544, 186331,
       55788, 232798, 14062, 54077, 143937, 144591, 96641, 50774, 118114, 396, 216399, 33697, 124110, 79243, 54246,
       93642, 65058, 34966, 92701, 898, 60994, 55307, 152655, 211697, 126587, 159982, 197567, 42, 96107, 258216,
       10024, 149785, 157922, 105390, 82927, 1016, 96823, 496, 9, 35567, 28204, 242888, 77956, 96209, 1223,
       69737, 60636, 172190, 69089, 257883, 8568, 78061, 107816, 218138, 130250, 228812, 105603, 129413, 72455, 64581,
       128670, 257694, 148980, 71917, 42071, 143032, 41693, 53144, 152789, 73414, 194761, 247716, 81617, 6868, 41152,
       40820, 212479, 159286, 82939, 53667, 235323, 81526, 8761, 54211, 118419, 211014, 178833, 31143, 48239, 171216,
       91437, 30169, 54651, 59082, 51037, 239832, 17028, 80560, 51670, 41442, 182283, 142204, 7507, 108910, 24862,
       41855, 155434, 198885, 9045, 198384, 63280, 121299, 244938, 159248, 13336, 12067, 135693, 107130, 148582, 229098,
       118767, 209940, 165538, 61298, 135103, 31201, 7068, 56880, 259411, 78090, 215245, 238419, 30771, 147218, 248984,
       23154, 254354, 177499, 74286, 229787, 183372, 46711, 197461, 154584, 95732, 47402, 9779, 77496, 120146, 236001,
       108703, 109950, 223087, 7652, 197112, 24001, 30791, 81010, 109342, 74316, 123696, 126287, 115399, 128262, 164331,
       106618, 30466, 27979, 89067, 139370, 179548, 75244, 201803, 224180, 82766, 163869, 120841, 27997, 260908, 20159,
       78013, 42329, 150977, 64718, 83631, 203769, 50388, 156316, 14290, 116356, 161044, 122831, 108713, 46628, 161165,
       10057, 234984, 144484, 129201, 138770, 51590, 30144, 128306, 238926, 28224, 252753, 103074, 123707, 231482, 238677,
       58301, 37706, 119174, 105560, 199866, 79049, 37775, 65304, 84767, 114448, 74586, 45023, 109091, 222876, 157993,
       68089, 28428, 131932, 92413, 24843, 88981, 126357, 25983, 166009, 59250, 131046, 93083, 64776, 110449, 225633,
       94739, 87400, 26485, 50649, 184066, 157389, 125990, 79291, 150500, 5299, 261418, 1519, 52871, 143538, 213483,
       93565, 232537, 57043, 56279, 203787, 135544, 33980, 61267, 247092, 54192, 69032, 222152, 115542, 44484, 182110,
       71697, 87714, 183314, 43923, 147638, 8273, 88017, 225596, 103288, 80195, 198135, 27140, 73458, 231994, 23353,
       51269, 200747, 142964, 9463, 115007, 249510, 81360, 135928, 221806, 55022, 144912, 164659, 56198, 253382, 523,
       30681, 102426, 249913, 32691, 256453, 252342, 103214, 33606, 240689, 62831, 79290, 4070, 14325, 234764, 142646,
       6009, 203861, 172078, 29453, 237430, 247429, 63889, 254213, 76760, 80904, 53550, 77903, 18832, 69163, 55658,
       56866, 202619, 62610, 9509, 146722, 24193, 4944, 211706, 40767, 113160, 194275, 14163, 86289, 47929, 112744,
       102379, 137531, 251071, 23839, 9970, 141934, 42225, 223308, 179129, 58168, 160876, 94885, 86249, 230067, 151707,
       70103, 11096, 19234, 72280, 158439, 7585, 20570, 213142, 207952, 62231, 74385, 55672, 107976, 233101, 235833,
       66776, 13852, 179329, 26180, 146378, 92567, 54184, 208786, 120872, 98934, 72717, 183739, 17693, 190425, 181476,
       76082, 130234, 194324, 126525, 191561, 250512, 49846, 244297, 59258, 5720, 38017, 54343, 82982, 54529, 223174,
       6173, 249551, 68915, 25114, 36081, 42898, 6343, 138354, 86558, 22367, 135561, 95151, 112057, 177103, 79927,
       96318, 113223, 17127, 44807, 81021, 231473, 117589, 170012, 108652, 87186, 200115, 180455, 58687, 10954, 254509,
       8956, 138257, 33513, 95777, 29153, 235770, 49220, 251743, 229896, 39692, 105708, 22254, 37784, 136422, 116435,
       1010, 121546, 123291, 97339, 260052, 135868, 19046, 30538, 20864, 68241, 251742, 6658, 2107, 215357, 119463,
       82297, 240730, 197449, 48430, 26511, 222224, 82673, 86493, 50278, 11782, 186252, 20696, 34908, 238514, 92184,
       14458, 34594, 199860, 84681, 206832, 138782, 14228, 84885, 76897, 80884, 215238, 159190, 17654, 39167, 165904,
       123647, 98268, 23528, 54575, 222337, 31039, 16592, 108766, 57256, 5480, 47016, 179552, 43178, 19130, 231903,
       116835, 210083, 38658, 18850, 36937, 166263, 103655, 246613, 164148, 54705, 199310, 245044, 105241, 94175, 200143,
       114595, 30323, 223081, 130785, 247178, 100996, 8938, 204382, 128115, 104372, 209412, 168474, 9134, 68516, 195584,
       41260, 133776, 230565, 84702, 250106, 113673, 58626, 259458, 10353, 74089, 91528, 248153, 126640, 192328, 67911,
       107302, 256537, 130381, 47666, 234933, 36339, 78635, 247246, 250191, 6354, 201182, 168511, 59362, 72807, 129386,
       79743, 196788, 29526, 93679, 105795, 65320, 118163, 176704, 187312, 37101, 2302, 237414, 118249, 74201, 119660,
       86706, 145473, 154815, 10177, 47214, 249094, 49850, 259984, 165651, 62468, 72195, 84088, 46201, 55285, 150482,
       15196, 116507, 221641, 72297, 76497, 55917, 17269, 48633, 219712, 119934, 116916, 74095, 113410, 117751, 123922,
       62287, 122373, 10650, 8879, 249178, 200383, 72378, 174969, 254728, 77625, 170440, 113409, 116447, 92583, 146844,
       8849, 171964, 109662, 90715, 145957, 8761, 73767, 252376, 68146, 22908, 12498, 128403, 15955, 221892, 220618,
       90957, 137169, 103593, 44541, 566, 178331, 131064, 25123, 238114, 117178, 205029, 35588, 74149, 188916, 260739,
       84113, 11116, 160487, 20825, 151922, 113233, 117178, 257981, 180913, 60153, 96382, 188681, 68334, 238928, 70830,
       114442, 203312, 174219, 819, 63749, 209378, 64794, 261526, 118189, 82151, 146468, 102605, 20881, 21211, 193422,
       8952, 70907, 161054, 70114, 232565, 47573, 71765, 191005, 153595, 43286, 155797, 66181, 115635, 214418, 239317,
       39463, 198946, 36322, 67695, 261541, 160995, 24473, 29776, 239098, 1462, 210648, 116897, 55840, 84630, 132904,
       69068, 46446, 219005, 100228, 30966, 159747, 58821, 117117, 197499, 36533, 258019, 38628, 79198, 133443, 173904,
       49961, 102769, 24762, 30595, 116757, 124617, 119321, 34412, 59236, 70345, 35556, 259565, 26276, 250836, 89738,
       87937, 180985, 204670, 105260, 259263, 244285, 99422, 140613, 131332, 78582, 148777, 45304, 68107, 221997, 250668,
       101885, 96937, 82304, 92814, 260449, 224201, 74904, 170089, 260439, 86208, 196572, 80465, 22102, 33210, 6887,
       2612, 191029, 150495, 122045, 228395, 210220, 122589, 166610, 108728, 103280, 237556, 32459, 48798, 172079, 103930,
       19759, 51187, 170635, 46836, 61806, 3337, 95188, 228839, 222487, 43935, 86464, 57522, 104321, 236263, 185686,
       88213, 52389, 41354, 82572, 180264, 50989, 121928, 1039, 118942, 117101, 225440, 141755, 93279, 109070, 246172,
       26115, 202556, 108150, 123066, 177204, 208402, 29769, 103277, 88750, 48835, 57496, 243626, 108367, 226025, 67662,
       27349, 27375, 174365, 83703, 1019, 127842, 60009, 138947, 141242, 81793, 77035, 223356, 125573, 165322, 104901,
       105953, 241897, 29858, 38774, 16922, 175336, 7507, 13814, 42777, 126752, 113980, 12622, 76699, 188817, 138493,
       22689, 62084, 80698, 82196, 101776, 131674, 5533, 103603, 188629, 24578, 231562, 35906, 82920, 35248, 83750,
       52753, 132744, 210623, 42610, 110851, 21769, 85916, 260768, 158814, 113561, 63374, 34479, 88944, 76693, 255882,
       60744, 17152, 104720, 86358, 157303, 261928, 91180, 138207, 260614, 101587, 114005, 35176, 40245, 116849, 233256,
       14999, 14111, 90627, 89375, 100467, 68151, 15870, 215909, 83694, 60557, 47330, 15307, 30238, 137481, 19073,
       43525, 56563, 134045, 61685, 185747, 146594, 117463, 173959, 153721, 89184, 129762, 227475, 22496, 200496, 235514,
       115270, 244789, 133022, 65607, 45279, 223616, 26771, 256493, 245820, 69132, 98518, 125748, 25025, 2570, 147805,
       48146, 9382, 243719, 105581, 163187, 128759, 86326, 14798, 210537, 62644, 211496, 126425, 29679, 224747, 158639,
       36984, 133461, 226123, 128219, 105554, 195741, 44949, 106797, 177577, 80757, 18433, 204284, 65502, 260688, 16320,
       3028, 78373, 254533, 123820, 108732, 252639, 11525, 16833, 183308, 86338, 37075, 249224, 106302, 149761, 103039,
       98138, 40281, 256839, 106070, 15105, 127606, 96956, 152705, 255601, 58402, 9192, 185068, 117476, 131944, 110075,
       119595, 125407, 172445, 57272, 144114, 152088, 63540, 158780, 234308, 63654, 168962, 157205, 36556, 91837, 86431,
       15064, 255124, 59411, 34338, 47192, 228099, 110638, 98142, 27937, 71179, 122132, 191411, 111437, 45022, 260372,
       97669, 226877, 253893, 45693, 157720, 225113, 24289, 73415, 146992, 74346, 166524, 46944, 122664, 159939, 79061,
       110023, 217574, 230677, 100117, 116833, 216139, 100161, 216333, 247629, 69173, 178240, 217395, 22220, 41997, 19376,
       37426, 235046, 48134, 75745, 149465, 86624, 41465, 19953, 936, 102441, 135853, 75954, 48918, 70075, 90827,
       14928, 167611, 68244, 102569, 171295, 151799, 91505, 83724, 15940, 33181, 203186, 207154, 128596, 192777, 151697,
       52846, 224719, 212135, 89189, 89495, 86849, 119334, 78109, 15373, 20446, 205736, 204211, 115215, 37787, 56256,
       92263, 69984, 87881, 21962, 206545, 88171, 87098, 246605, 256830, 114632, 98400, 195266, 104728, 143538, 87945,
       99694, 72640, 136312, 21146, 170822, 8295, 24985, 126724, 77926, 71790, 76333, 35065, 76040, 235587, 99174,
       123682, 181735, 178744, 61430, 262116, 200356, 39649, 162985, 36333, 25004, 258741, 153576, 7100, 77471, 10679,
       8998, 147143, 123569, 75257, 54361, 237834, 23103, 1931, 250806, 111623, 40875, 180538, 78180, 197751, 240603,
       113362, 107717, 210563, 56028, 72686, 194618, 78089, 178857, 244552, 68868, 246035, 30333, 129325, 182172, 57814,
       104440, 203698, 67305, 78040, 73288, 134310, 79506, 115026, 97663, 32610, 245912, 109650, 96305, 140981, 5515,
       128821, 227807, 22568, 16964, 214979, 53904, 83527, 26146, 77727, 67879, 194137, 29204, 111465, 25126, 22017,
       6, 37569, 203676, 17902, 119108, 55278, 4859, 53535, 161984, 21355, 259352, 166429, 92790, 163613, 81507,
       18307, 3391, 68777, 81570, 46024, 74148, 113797, 121916, 225005, 4538, 46920, 7689, 3510, 248801, 119954,
       129741, 103025, 60986, 88247, 116354, 68139, 18441, 53504, 182691, 40198, 192021, 5122, 129106, 156093, 155370,
       29781, 191573, 96090, 98674, 126758, 73872, 31612, 56941, 203000, 52227, 248843, 142870, 115435, 175029, 157371,
       3727, 143892, 138738, 40269, 242958, 12560, 63857, 84587, 116247, 81984, 221846, 76296, 3701, 180931, 146224,
       53827, 121874, 43531, 45126, 107349, 187133, 3521, 120388, 197356, 46578, 198334, 105420, 122118, 64862, 150222,
       35996, 26016, 191519, 76754, 163197, 73621, 39072, 145, 218247, 13980, 246877, 157453, 37974, 166717, 65656,
       61703, 89615, 76927, 38824, 164396, 106987, 81811, 31788, 48684, 124398, 250863, 83721, 9079, 147439, 254140,
       93979, 51265, 127173, 164, 178203, 11613, 133, 233288, 31420, 17422, 1483, 233447, 62905, 118238, 240158,
       6291, 258176, 73933, 94653, 229770, 70903, 3837, 259701, 112229, 64937, 61230, 209249, 88617, 157452, 194533,
       31136, 61087, 20347, 75929, 200652, 124479, 34312, 55999, 218341, 28062, 40934, 124685, 107267, 245712, 77037,
       43635, 161865, 162394, 106689, 243741, 237058, 28430, 196718, 70218, 46644, 3161, 43732, 13455, 182458, 135574,
       65077, 78353, 105176, 50016, 85745, 107634, 780, 195573, 9188, 60929, 128790, 161548, 9753, 177007, 24823,
       109701, 131814, 47536, 64709, 92207, 247467, 90446, 85169, 54200, 107627, 245686, 18566, 6707, 259643, 209939,
       44197, 48129, 151672, 3292, 63914, 27275, 6504, 171934, 4633, 4958, 203174, 85333, 62640, 43560, 12988,
       59071, 71578, 145744, 8026, 237962, 175294, 34389, 41843, 223906, 32045, 249030, 233891, 38877, 246115, 105989,
       83986, 2394, 114398, 91366, 394, 130397, 44442, 201969, 186966, 103314, 253272, 34049, 54769, 201586, 1175,
       68472, 95812, 46836, 19077, 125101, 257107, 30526, 18781, 53951, 95362, 31409, 86603, 128062, 230693, 79118,
       92360, 91971, 137278, 7103, 233524, 213527, 18729, 14535, 3953, 58429, 22294, 243622, 96019, 207168, 130591,
       21749, 25985, 233809, 98411, 164630, 126667, 72854, 131074, 217615, 101520, 242096, 244438, 73090, 177565, 19988,
       78973, 240642, 40426, 32603, 203276, 111441, 94396, 185912, 41659, 110626, 170727, 257372, 114201, 217255, 25716,
       3860, 123342, 20988, 81867, 74178, 111779, 129700, 201467, 171550, 76928, 54771, 62973, 22448, 149777, 60397,
       115029, 222213, 211868, 34643, 44671, 65423, 5900, 1093, 147246, 56428, 223105, 44307, 13142, 247063, 55670,
       15105, 9704, 175324, 60724, 61638, 44446, 80305, 167821, 89608, 118671, 143735, 15249, 92438, 239223, 244969,
       110441, 178333, 213851, 53973, 106635, 159202, 41758, 118139, 118730, 77704, 199085, 233238, 91160, 136131, 218921,
       74481, 189348, 156279, 34671, 87140, 51159, 48460, 117866, 17547, 58760, 50969, 58755, 1854, 240746, 32407,
       115322, 60105, 42684, 67031, 145169, 4312, 98438, 261420, 244569, 22532, 198615, 186082, 72960, 105361, 103430,
       121389, 226731, 216775, 28085, 180050, 83653, 45332, 16765, 34758, 50898, 77250, 252586, 50240, 97248, 70020,
       78724, 210937, 104036, 51612, 66521, 226109, 88349, 175889, 72271, 63512, 76375, 235758, 20660, 90559, 187626,
       124330, 192874, 261102, 31393, 232303, 186371, 73724, 15307, 90255, 7955, 75733, 93121, 120405, 152266, 157425,
       121634, 79450, 205494, 47781, 131386, 97382, 15857, 29275, 219710, 100923, 93875, 145276, 34373, 257629, 96189,
       91831, 24334, 46628, 119950, 79820, 260512, 77363, 186896, 62223, 112884, 32255, 2674, 29445, 31964, 147113,
       119331, 256756, 215577, 29706, 197845, 82209, 29596, 18969, 229052, 115326, 45675, 52774, 72732, 81128, 113067,
       104784, 107799, 69500, 105183, 211022, 37461, 84798, 134775, 151325, 24782, 71027, 46687, 90714, 39153, 167443,
       8340, 189541, 39415, 26301, 252221, 45633, 84267, 193905, 236778, 118988, 116837, 98146, 101147, 83871, 148241,
       43575, 236798, 131511, 107964, 62861, 42680, 126693, 220278, 86522, 43509, 103576, 6852, 24487, 152826, 217206,
       25888, 161183, 248716, 52471, 57119, 123537, 6858, 35049, 169899, 63931, 86679, 65634, 95983, 218664, 124513,
       69528, 102971, 1554, 127146, 111646, 224672, 60516, 12277, 250249, 1737, 226322, 36064, 61620, 36547, 181787,
       121881, 134742, 115494, 12564, 193812, 200497, 29224, 207215, 17011, 93789, 205568, 18103, 38548, 95697, 58142,
       100301, 172426, 191408, 54961, 174707, 169637, 104342, 28884, 73987, 72290, 137604, 247987, 10809, 86168, 103901,
       50611, 170704, 155520, 43679, 137656, 122183, 106178, 252328, 187182, 81904, 12980, 68184, 101895, 125507, 83947,
       48778, 108318, 4049, 90668, 45215, 105591, 8550, 105273, 91287, 4813, 109324, 50012, 37678, 259393, 27904,
       101410, 78264, 101977, 70003, 239541, 93302, 53585, 23527, 61464, 117523, 181932, 224984, 65190, 47216, 149434,
       80398, 37186, 180311, 129214, 138434, 39448, 68470, 251753, 121780, 102695, 66768, 200560, 54240, 247258, 4213,
       4763, 55642, 340, 109375, 242008, 4992, 123784, 261865, 233343, 56935, 84069, 183098, 66012, 160692, 246980,
       55592, 158048, 189048, 130666, 115131, 54516, 118405, 89132, 115743, 5387, 65237, 258653, 102107, 140283, 180574,
       78752, 229060, 9902, 3295, 97883, 245341, 58289, 85902, 34653, 19622, 261291, 109487, 114432, 30257, 98395,
       1664, 118344, 110874, 114439, 189901, 66405, 123317, 175345, 260308, 9566, 57669, 184680, 94350, 142885, 204811,
       71944, 104187, 77379, 125078, 251217, 239064, 104615, 19655, 75916, 91018, 62305, 7041, 121308, 107506, 252705,
       21017, 94361, 126169, 49277, 216938, 70577, 110486, 19757, 171252, 13315, 2369, 112391, 122610, 250331, 100705,
       97669, 4366, 151590, 57584, 64552, 39790, 44396, 232497, 82063, 19347, 17426, 24642, 12277, 255919, 137314,
       55521, 101883, 53896, 110506, 158755, 166498, 69710, 187084, 138083, 59132, 255021, 48596, 41817, 141817, 75453,
       20571, 193665, 211051, 129774, 77272, 252738, 3372, 215595, 173623, 40870, 87522, 164024, 100844, 26900, 235833,
       68230, 156933, 225550, 41137, 154549, 129469, 130120, 85531, 70622, 81155, 210653, 169161, 38686, 172703, 12109,
       111142, 239700, 191706, 19682, 82758, 257516, 60761, 152340, 255217, 110046, 152751, 209592, 128930, 7402, 198984,
       50208, 32705, 192314, 18102, 81054, 148105, 74308, 153630, 102054, 123731, 14547, 228879, 87243, 16119, 36249,
       78926, 66883, 73723, 40539, 135787, 160695, 79474, 45315, 156520, 115956, 134868, 253651, 49220, 247045, 81494,
       31726, 119676, 143164, 63040, 18579, 151043, 49307, 179982, 57339, 61594, 36652, 254537, 12547, 124618, 118881,
       44067, 187968, 170032, 108337, 71865, 138641, 52470, 232895, 207600, 126863, 248168, 71697, 92909, 185360, 83959,
       47977, 38658, 200933, 32986, 16510, 21886, 89832, 144914, 76626, 39642, 69817, 256103, 121489, 182369, 128694,
       15248, 98734, 241749, 3767, 13928, 128292, 28970, 110496, 223876, 79510, 205269, 66210, 109440, 36578, 110090,
       22299, 6916, 84412, 76640, 208293, 65395, 18894, 114064, 109697, 73816, 249507, 21438, 2383, 49166, 228669,
       73112, 233489, 234209, 68390, 53119, 59482, 5616, 43278, 162900, 90363, 65734, 199533, 75006, 143813, 197670,
       81670, 159006, 9163, 69438, 139124, 129714, 94633, 38808, 82607, 68813, 80348, 4746, 120883, 194813, 9979,
       123667, 171780, 107129, 95246, 212345, 247151, 119506, 122829, 168009, 120999, 196299, 194371, 34340, 173706, 185978,
       130276, 91950, 172477, 35053, 125839, 33727, 2429, 254564, 62360, 126120, 196712, 192371, 29323, 44884, 36468,
       76561, 233252, 259170, 127227, 109244, 259311, 6481, 147381, 97766, 35299, 67210, 252977, 79799, 203354, 216973,
       99950, 2514, 159213, 105823, 35368, 244979, 115847, 99951, 65520, 22077, 64679, 78377, 48501, 139730, 79568,
       93618, 192166, 78705, 93757, 30750, 34677, 40377, 89881, 244045, 39875, 32012, 238729, 42027, 49807, 92810,
       116926, 192574, 50460, 119211, 103464, 220136, 1943, 122389, 197396, 42600, 143780, 78002, 51384, 230848, 229108,
       128763, 60379, 154111, 123753, 252824, 111590, 82355, 217434, 179420, 6003, 207736, 111678, 25063, 52898, 224013,
       56912, 74166, 138579, 125702, 188069, 20801, 12413, 24566, 64871, 103724, 35520, 14015, 25059, 234176, 41680,
       66565, 15825, 228122, 100528, 104565, 224622, 90766, 196675, 149503, 101678, 214480, 250917, 106639, 57974, 217602,
       40074, 71067, 114569, 47714, 57197, 255695, 106921, 6245, 102486, 5065, 7851, 220904, 67430, 158890, 85985,
       120639, 71759, 28884, 115999, 63792, 99650, 105421, 190241, 162276, 2824, 117789, 33378, 116350, 241361, 86808,
       119493, 162377, 66664, 86988, 147373, 185265, 39179, 63561, 152218, 64215, 199338, 180791, 99958, 13819, 246432,
       106565, 77328, 231984, 45002, 205223, 94773, 42738, 70984, 89432, 96492, 195093, 57854, 89962, 10004, 57109,
       67265, 205663, 38274, 55084, 99466, 103934, 86135, 63397, 185406, 4251, 26257, 75254, 9920, 205541, 229782,
       75115, 164391, 79882, 27561, 171732, 59160, 101552, 127879, 59292, 101235, 76252, 79771, 93056, 39277, 59195,
       118437, 2939, 89352, 18459, 135532, 29686, 33979, 39192, 182259, 33069, 97061, 31851, 102549, 65156, 127818,
       68333, 180104, 131464, 33118, 189047, 198267, 17881, 204035, 75583, 117049, 114561, 112149, 90718, 193570, 61217,
       69274, 216976, 259941, 126546, 51785, 209191, 111357, 153341, 215890, 23346, 190043, 253656, 66601, 181714, 33179,
       63711, 78910, 228647, 110662, 81200, 133201, 19541, 71224, 156892, 59216, 137813, 72865, 83432, 168665, 81247,
       123896, 108227, 150419, 117868, 118895, 123085, 69972, 133168, 39541, 79524, 28172, 122946, 111725, 248734, 90881,
       97568, 120244, 243419, 115256, 72603, 44966, 117431, 109440, 84170, 109128, 187385, 13851, 1229, 57862, 82280,
       40754, 189949, 8522, 52889, 204102, 193076, 88855, 187234, 22298, 40220, 231360, 170050, 42409, 107834, 37070,
       52455, 108213, 189137, 125217, 127317, 34875, 57299, 40176, 205230, 18438, 49707, 250890, 833, 17902, 140689,
       31013, 77258, 134947, 123051, 215339, 152174, 125172, 204899, 61156, 69337, 69658, 183466, 84720, 35737, 138533,
       104322, 148213, 234650, 7325, 79380, 74216, 49061, 54082, 20197, 84180, 167361, 97343, 117735, 228981, 86191,
       95267, 1110, 202545, 45883, 67225, 237184, 119273, 53067, 67263, 87113, 84, 49144, 108820, 157134, 95565,
       50529, 64100, 64349, 282, 252595, 89831, 21780, 13094, 156044, 121526, 261734, 25742, 4341, 166029, 76465,
       78124, 15172, 112216, 53625, 42091, 243787, 56305, 193218, 134973, 52536, 16425, 90494, 8837, 167296, 50412,
       16034, 26947, 4237, 8249, 153705, 5503, 7065, 212576, 26011, 11221, 40103, 201101, 91307, 2244, 103543,
       14969, 27263, 244540, 34274, 109866, 169311, 86107, 168670, 96449, 14714, 231983, 175037, 119309, 28052, 21850,
       62584, 211334, 259347, 126229, 228425, 100954, 25232, 201203, 250179, 4013, 262061, 59276, 77369, 95608, 82617,
       43088, 104305, 139594, 75024, 97815, 175231, 62082, 72135, 223951, 59920, 97813, 108198, 111565, 145459, 100799,
       25144, 17450, 29019, 65488, 38673, 117411, 54526, 133844, 97960, 88312, 80104, 2999, 6570, 259232, 34733,
       69392, 51424, 184893, 62723, 73644, 213957, 127609, 41391, 94751, 99067, 20195, 184716, 20313, 93719, 139914,
       66743, 197902, 2959, 102725, 253197, 188597, 68756, 93290, 257856, 46753, 126706, 72578, 49368, 255198, 184210,
       48103, 246728, 47882, 2615, 124007, 105459, 95760, 182994, 259708, 80069, 198199, 244704, 35216, 26261, 222838,
       82578, 111038, 250673, 40465, 203799, 174303, 31900, 125919, 204142, 97144, 102586, 50766, 106051, 161160, 136151,
       82012, 230927, 255992, 102779, 174769, 208877, 47933, 11890, 130065, 9411, 122300, 154498, 79283, 148489, 81479,
       33551, 83603, 36288, 101905, 202610, 114605, 46937, 228974, 8578, 87906, 119684, 130666, 72465, 70175, 172811,
       107149, 95983, 124682, 109091, 245428, 105838, 8951, 241429, 189115, 38681, 104724, 89564, 114147, 228149, 243646,
       52951, 191037, 96720, 67484, 250237, 259647, 24031, 62089, 87185, 72441, 182053, 85667, 34683, 159481, 58767,
       108689, 79571, 36922, 26246, 124578, 45314, 47166, 246855, 37698, 12461, 140777, 12328, 77067, 258896, 184136,
       123466, 42577, 189982, 22695, 233818, 91504, 2586, 259596, 71141, 55373, 23055, 218792, 98096, 71289, 211191,
       127808, 102625, 191069, 6721, 65521, 64995, 103017, 156358, 153053, 48322, 222311, 139455, 20149, 234575, 127359,
       25205, 215351, 57768, 121095, 76681, 221042, 106084, 29051, 133665, 40858, 249975, 137773, 123232, 162128, 249843,
       13795, 199572, 255140, 42275, 130203, 165292, 85579, 179168, 13058, 130995, 224706, 240970, 61032, 154964, 118391,
       106262, 5729, 42321, 120044, 98109, 81782, 1262, 4395, 193506, 37872, 10267, 229701, 13154, 92680, 192632,
       101719, 201578, 242880, 74324, 113653, 140297, 12525, 61065, 191623, 55145, 48573, 260089, 67366, 260453, 214147,
       91455, 177506, 106894, 102168, 146208, 13586, 11517, 153420, 199739, 63916, 179181, 193992, 21118, 202109, 128867,
       98730, 186676, 81717, 86201, 254121, 241423, 94765, 47463, 208317, 9829, 169683, 209059, 66889, 70167, 200238,
       110176, 153989, 152759, 93499, 21965, 28915, 112951, 8154, 149019, 27014, 139877, 121773, 37604, 168893, 185205,
       57839, 87287, 58121, 68584, 94367, 55976, 33051, 128719, 201075, 49969, 142226, 230656, 90052, 16074, 77182,
       84591, 110832, 214649, 14479, 243382, 35193, 129198, 4391, 139915, 73760, 37140, 254684, 63381, 128207, 234397,
       126779, 5954, 37169, 18393, 68320, 17792, 71260, 92722, 56593, 105523, 33769, 59757, 52285, 27342, 35430,
       96508, 243425, 158152, 117855, 22331, 150233, 34295, 103136, 237139, 31648, 170646, 108871, 47275, 203029, 132673,
       54845, 253166, 90801, 14554, 211761, 217132, 30315, 134454, 171884, 114455, 194996, 60797, 74264, 59285, 69324,
       35103, 194279, 43465, 123678, 222798, 152115, 101490, 132362, 178438, 47504, 123390, 188700, 100328, 33360, 16365,
       78125, 200745, 118818, 89629, 115708, 410, 42133, 1168, 26420, 27458, 258598, 28226, 33237, 84693, 254359,
       10975, 63730, 7145, 61739, 220897, 159301, 53245, 212018, 221918, 332, 230669, 127957, 112245, 181343, 13819,
       89373, 252250, 220286, 58555, 67175, 239937, 126749, 106444, 141307, 123278, 175618, 123081, 12464, 142764, 197196,
       80627, 139004, 52279, 107088, 202086, 48029, 22669, 38012, 45797, 16772, 64160, 199657, 34049, 155465, 28701,
       36657, 14775, 246512, 126482, 121395, 253552, 102298, 189968, 153814, 7829, 253389, 36747, 103085, 181549, 49482,
       22234, 259771, 68773, 46824, 109535, 14357, 41749, 523, 188301, 35701, 156596, 239633, 40469, 139685, 114375,
       98854, 184223, 186946, 34937, 197195, 160356, 104952, 133387, 178567, 11929, 204057, 55689, 78010, 28997, 227055,
       113115, 65639, 258013, 10393, 167403, 8585, 83216, 1199, 32326, 67058, 165382, 179902, 43508, 49387, 117130,
       13195, 160696, 107373, 88668, 73598, 25901, 40550, 206710, 139440, 44422, 208622, 234589, 94056, 82572, 210262,
       123909, 100224, 186316, 43730, 138182, 79657, 97875, 209047, 219578, 125384, 172607, 185692, 12822, 98047, 186920,
       69363, 146247, 230575, 1463, 86958, 230786, 108157, 192637, 97621, 37603, 88607, 49670, 43616, 131317, 130703,
       90084, 19285, 248219, 103439, 98728, 51472, 52427, 136892, 223611, 87231, 12133, 12386, 125351, 74818, 196301,
       116248, 15119, 20750, 91920, 5619, 157415, 123609, 70805, 3347, 114810, 249527, 105217, 95552, 177528, 6852,
       120225, 130619, 183836, 107137, 766, 216439, 65831, 117751, 171277, 65835, 24540, 41532, 1152, 59370, 138689,
       3964, 234131, 55164, 97809, 142430, 40314, 72714, 175447, 222043, 99740, 79343, 8792, 124474, 53749, 123100,
       59314, 25712, 200318, 11592, 194459, 108804, 82124, 104654, 39069, 13072, 81331, 220742, 81435, 111582, 167169,
       69171, 205979, 212309, 93351, 188821, 30221, 46000, 254560, 52410, 18856, 66578, 199015, 30960, 152590, 57353,
       89605, 84262, 222359, 62674, 31246, 207070, 70886, 7560, 261325, 42336, 12903, 82769, 109668, 59398, 190454,
       131000, 151045, 158522, 40921, 125573, 233830, 94195, 27276, 150204, 22426, 118281, 142905, 97312, 10155, 135491,
       56472, 144416, 58255, 79338, 164478, 156351, 31137, 143400, 172001, 111628, 92169, 262084, 22719, 106294, 95811,
       121714, 45174, 215303, 8027, 247998, 115546, 37746, 83267, 257636, 73786, 102831, 98703, 112521, 50908, 222708,
       75631, 210245, 16546, 28326, 118917, 180843, 112595, 58728, 213751, 78140, 41991, 8232, 30454, 47716, 83771,
       73641, 251488, 147664, 88512, 216223, 53889, 89198, 24797, 211399, 94896, 191915, 261713, 117406, 46170, 256410,
       108111, 19826, 238775, 79652, 16099, 29533, 4215, 257955, 153238, 98241, 103779, 209549, 127789, 231065, 168327,
       40051, 59812, 248795, 79547, 108923, 121241, 100750, 175581, 140898, 83766, 175824, 14946, 120920, 86150, 65319,
       62041, 161269, 88756, 69710, 57844, 6073, 5012, 167159, 81834, 117993, 211768, 117894, 34377, 244506, 121582,
       128243, 159134, 128064, 26490, 127162, 67502, 33220, 247118, 154995, 63520, 223113, 169264, 86573, 17317, 223529,
       57758, 207478, 162819, 46113, 77706, 152931, 70790, 73491, 65466, 125606, 20222, 128396, 126084, 254816, 246680,
       42997, 127540, 141431, 89149, 197498, 231711, 94622, 128081, 70931, 85644, 180836, 60320, 14812, 125840, 24658,
       70710, 40007, 73163, 100040, 239786, 162279, 26320, 133742, 137303, 45640, 112149, 141891, 26712, 139235, 13491,
       116251, 130938, 55297, 112529, 119532, 70944, 22177, 207457, 116495, 99686, 220298, 240443, 47707, 18655, 165628,
       89937, 210550, 85773, 64666, 196514, 21209, 61863, 58431, 64744, 115511, 199996, 251604, 83488, 47242, 240655,
       30902, 150940, 255882, 14517, 104359, 230358, 122343, 131524, 202271, 20104, 158188, 47257, 96216, 228413, 124994,
       64991, 258974, 152766, 18358, 170353, 115493, 101797, 210710, 220826, 118552, 156532, 29079, 15926, 29898, 109325,
       8793, 122388, 66867, 111391, 139675, 50289, 65660, 254056, 256451, 88412, 179623, 115562, 57865, 186322, 70947,
       54057, 208778, 173357, 39276, 241741, 212939, 73784, 31255, 20597, 20946, 89673, 237872, 94008, 228445, 92019,
       72014, 224420, 43554, 111086, 66147, 109600, 120719, 42343, 24037, 118041, 185674, 95896, 78804, 141148, 235415,
       41777, 37444, 27021, 46814, 246203, 245631, 85529, 54267, 167288, 93318, 249532, 18205, 21140, 4626, 222561,
       130803, 56481, 255169, 14090, 169395, 246645, 79572, 208071, 60456, 69602, 88515, 64931, 77462, 642, 38644,
       69961, 164675, 47235, 7590, 103710, 228425, 130537, 245506, 37587, 128617, 247552, 101825, 68727, 225007, 175356,
       27308, 185243, 166784, 23978, 153490, 260627, 7477, 121952, 111231, 80197, 151244, 110826, 62683, 110392, 95949,
       54566, 214460, 248690, 68840, 200028, 229640, 114406, 151733, 48764, 9269, 61620, 219473, 71314, 227664, 188288,
       91883, 179951, 44502, 127230, 32641, 252040, 96952, 243777, 256970, 71842, 123052, 128729, 100501, 238528, 58017,
       130686, 109043, 98352, 116488, 49682, 198731, 11678, 7306, 59058, 75343, 222589, 140517, 103084, 194127, 110950,
       88064, 16580, 146831, 54652, 212785, 191967, 42263, 112467, 237473, 82182, 207300, 35365, 54049, 260474, 47474,
       51379, 236066, 220300, 109673, 111332, 244198, 41373, 154043, 22752, 84531, 123280, 16248, 114482, 175003, 258827,
       81496, 232864, 66192, 64590, 164223, 214777, 4627, 51390, 171365, 89335, 20407, 32278, 130747, 191744, 187240,
       105962, 159772, 78907, 83160, 197126, 125733, 61491, 185643, 62845, 29402, 162834, 132138, 90716, 35889, 160169,
       23239, 83081, 225195, 116267, 56235, 115967, 46397, 260075, 41276, 52402, 30141, 68040, 28317, 1544, 16609,
       63132, 117367, 259427, 89188, 139180, 252431, 39685, 228432, 176419, 91991, 67422, 114660, 81340, 249549, 135600,
       48809, 177164, 10731, 40999, 229002, 40519, 112896, 42189, 249083, 1564, 90572, 36157, 93835, 50718, 227396,
       54690, 78296, 74822, 94069, 77587, 205137, 66520, 195820, 146956, 10991, 204855, 97664, 128719, 148253, 131269,
       11278, 42258, 244417, 20766, 97623, 239155, 55094, 48729, 61552, 123813, 177286, 182008, 38413, 147899, 166290,
       74535, 179330, 130129, 68345, 188410, 160033, 43273, 25141, 220848, 91269, 179509, 236605, 65727, 175796, 121511,
       75797, 48464, 112559, 27545, 128811, 243854, 121444, 167370, 227038, 14492, 201529, 239220, 90474, 253887, 189446,
       116116, 45876, 239292, 11012, 197872, 128570, 3768, 153419, 143108, 43667, 33471, 243654, 103540, 14551, 107080,
       94026, 174111, 103603, 107761, 202769, 109086, 52100, 243609, 46608, 130253, 257438, 195087, 47986, 67999, 111481,
       105563, 49012, 204476, 45980, 235759, 74800, 28631, 225969, 46664, 44127, 232978, 262004, 25254, 173000, 252178,
       16922, 205894, 137884, 47705, 125113, 25301, 19240, 159247, 41334, 65841, 62404, 71607, 4641, 144522, 248561,
       56534, 260024, 134319, 125567, 183422, 138704, 47034, 136397, 22339, 18040, 242418, 115035, 40002, 195518, 20045,
       103714, 99262, 132845, 41111, 242487, 124400, 50265, 151898, 194969, 103387, 216608, 2824, 34152, 48520, 79132,
       62690, 135282, 83578, 8279, 159051, 116233, 22815, 204305, 186823, 27452, 177646, 114483, 60762, 148634, 258318,
       107607, 141651, 52099, 46466, 93273, 4399, 49871, 76389, 59206, 39453, 94927, 203818, 42007, 105781, 228660,
       52888, 33755, 67129, 117886, 153935, 187520, 3195, 7390, 259899, 81865, 169957, 90977, 116350, 97970, 90756,
       54651, 207845, 13321, 85316, 143807, 67745, 76770, 204837, 572, 44385, 28148, 204115, 18011, 165680, 174933,
       28785, 175230, 163822, 7529, 117602, 44165, 100234, 93529, 32850, 69836, 25800, 158917, 102974, 147786, 127235,
       38036, 172169, 169190, 105469, 258646, 45517, 40528, 9700, 191320, 15903, 126759, 186199, 69967, 167724, 242779,
       123901, 204316, 124135, 54315, 119745, 261214, 67553, 5673, 89677, 59151, 106376, 124479, 59956, 234436, 77552,
       28095, 256285, 150441, 55375, 159726, 52684, 65129, 210760, 186724, 97630, 23498, 217638, 18328, 9931, 39692,
       74922, 151897, 46148, 86794, 256140, 248668, 50173, 104609, 129589, 71980, 19050, 100015, 93158, 100187, 161961,
       60961, 195546, 38196, 43692, 254771, 181940, 108095, 131275, 131913, 129606, 54068, 40291, 28394, 224179, 60398,
       116574, 196169, 166160, 71490, 118509, 107144, 58710, 51866, 256163, 117068, 178056, 152151, 119319, 245323, 149406,
       35737, 174722, 57186, 46972, 149520, 225931, 111663, 108580, 182669, 64333, 92491, 138633, 37752, 130291, 2730,
       126114, 84599, 203457, 28447, 161382, 133058, 79998, 31173, 203061, 56087, 225713, 153255, 59152, 261289, 254817,
       13892, 21403, 15218, 33703, 165665, 71083, 21888, 168547, 258866, 98254, 217830, 183774, 91454, 197621, 177077,
       104084, 207726, 200767, 91653, 205568, 70806, 16870, 86655, 216811, 128266, 2106, 41220, 24709, 71984, 38217,
       45934, 36424, 170613, 92651, 214047, 102963, 18408, 241675, 194267, 22348, 154481, 221089, 114894, 119875, 55860,
       43517, 226369, 153538, 87239, 120120, 188280, 112557, 231295, 36741, 127559, 95931, 185056, 27562, 148392, 44075,
       16112, 113657, 220103, 97089, 228841, 258099, 24667, 259434, 219881, 76046, 180944, 32213, 69814, 227375, 58887,
       73390, 69942, 91991, 85169, 169651, 114399, 111528, 33079, 125147, 35627, 193907, 132373, 72776, 224082, 116309,
       44129, 256827, 145590, 41777, 28455, 141305, 2676, 113052, 166036, 78564, 229902, 100760, 127468, 65203, 223709,
       99779, 102117, 13184, 31823, 117079, 243474, 93863, 239209, 205495, 38968, 110487, 49588, 98782, 85930, 146062,
       112057, 182155, 123594, 43821, 60336, 191219, 286, 164558, 259816, 39979, 65533, 118355, 26982, 1892, 141879,
       81083, 13205, 177829, 38020, 113504, 79628, 4724, 173116, 238489, 69643, 22527, 99659, 114646, 209923, 145255,
       59157, 237840, 147585, 49322, 16277, 67960, 23398, 127925, 188882, 50774, 253626, 152614, 43374, 55220, 12633,
       130406, 142537, 231143, 3993, 183230, 165633, 31306, 87691, 201889, 8995, 88952, 91521, 112383, 139704, 102104,
       54697, 151483, 124826, 104368, 175445, 34810, 90722, 5632, 198297, 121638, 250448, 121318, 3114, 216712, 234089,
       27177, 26758, 179363, 92016, 220769, 64449, 76706, 118510, 177495, 91050, 133241, 248196, 75429, 72995, 156420,
       76155, 160561, 144236, 122234, 89880, 56055, 120755, 161348, 178107, 4980, 78670, 2624, 54220, 94805, 143089,
       66921, 134358, 15871, 46911, 67011, 252329, 6495, 189055, 1126, 61905, 22897, 197432, 127886, 124768, 207832,
       9464, 229891, 123884, 107043, 176875, 117991, 25644, 150346, 163201, 75601, 174807, 137796, 50728, 232893, 171329,
       45745, 55069, 75785, 114086, 223312, 49077, 127595, 74108, 18709, 50681, 60995, 29621, 83944, 50790, 246445,
       72930, 68936, 79180, 10082, 70306, 195061, 5395, 10588, 86292, 101371, 191576, 170908, 51712, 103237, 136950,
       40314, 93901, 49959, 129182, 79781, 94170, 11171, 69816, 148633, 35266, 148580, 217501, 112302, 185814, 237261,
       54394, 188010, 155154, 76578, 114221, 48043, 6341, 143746, 191279, 120624, 131185, 235093, 17946, 55319, 127235,
       27966, 84137, 168914, 20551, 155599, 228305, 65208, 102747, 46280, 107066, 175810, 94008, 34986, 28309, 256439,
       18654, 58949, 232688, 53729, 65112, 15222, 128667, 129778, 54553, 1449, 106039, 63484, 66060, 5158, 233631,
       87735, 109843, 97480, 105738, 131808, 39309, 97804, 189868, 16487, 9755, 99613, 227088, 60538, 74180, 2135,
       10321, 226721, 34012, 81245, 177404, 123439, 10096, 178050, 241893, 6345, 216452, 53316, 40111, 188991, 212989,
       123054, 148272, 229768, 93060, 174523, 205649, 527, 181855, 105209, 37319, 227769, 115473, 2293, 126918, 67371,
       38575, 242151, 63545, 89848, 217709, 111200, 99585, 186136, 140340, 105396, 4869, 147010, 119274, 58186, 189151,
       47945, 65774, 187199, 113062, 106943, 114478, 95376, 261007, 37256, 70484, 192573, 89576, 125125, 95158, 127271,
       124222, 78525, 172219, 117650, 206650, 260616, 26506, 89013, 73417, 27248, 34590, 204396, 118096, 67866, 8019,
       52155, 71438, 36597, 104522, 160975, 107697, 90038, 178501, 72483, 99923, 165018, 175395, 3443, 200228, 258905,
       56355, 88945, 68411, 112340, 251655, 23982, 64215, 139996, 38702, 90457, 61066, 46033, 99084, 33507, 254447,
       15828, 11127, 197279, 20413, 231504, 256854, 94968, 181350, 158711, 7152, 175934, 111558, 44812, 236770, 184530,
       120335, 13899, 177688, 75281, 254026, 211049, 119338, 64161, 182027, 40555, 218399, 109736, 83443, 235064, 28828,
       37583, 248686, 14374, 14564, 250670, 196086, 129852, 109121, 229422, 23099, 26291, 47591, 24704, 205895, 167593,
       110351, 242339, 32035, 105150, 211326, 148958, 128166, 30404, 134182, 9403, 165568, 48492, 12337, 60210, 149980,
       58813, 220401, 123064, 77561, 136141, 95683, 4984, 147080, 91643, 20760, 122511, 78132, 92187, 153556, 47755,
       87626, 221563, 247206, 11755, 91770, 129160, 122115, 91809, 85790, 33392, 105238, 159084, 116291, 24981, 7307,
       120977, 237369, 84003, 64234, 109341, 229716, 53997, 71888, 195575, 36455, 256865, 195322, 105825, 45440, 188866,
       25767, 67659, 32764, 81543, 29191, 239060, 74335, 103281, 66140, 32623, 42944, 17505, 128849, 251330, 34791,
       110929, 106220, 11460, 2690, 184023, 37563, 55345, 123131, 125131, 47051, 44178, 88316, 115711, 150797, 10406,
       34667, 250077, 7677, 130868, 242163, 188978, 26224, 218230, 217130, 31966, 115485, 43966, 87304, 170502, 79612,
       21110, 12189, 15362, 116497, 21674, 238985, 14408, 166404, 39612, 128885, 99827, 2831, 114641, 58762, 213035,
       110055, 119964, 194540, 53374, 207248, 110770, 67324, 10321, 35523, 59815, 194278, 143894, 129424, 5888, 255671,
       4564, 185023, 73799, 50031, 94044, 97707, 126928, 155696, 182791, 48416, 187247, 168607, 52216, 235826, 182698,
       82745, 223198, 110275, 118917, 140747, 176986, 38603, 159707, 102547, 124204, 140245, 257674, 37035, 242643, 39927,
       106875, 100500, 221368, 36154, 172006, 236823, 9566, 29711, 37305, 106470, 31305, 48215, 58992, 108086, 109171,
       51216, 64286, 261249, 56345, 162817, 164045, 80160, 138087, 20180, 34431, 198329, 90239, 31100, 12453, 23818,
       63365, 90534, 175078, 4670, 140771, 94114, 84259, 145653, 21588, 107851, 214702, 60662, 95343, 255253, 194127,
       61512, 108973, 61874, 74106, 220046, 5870, 3431, 148752, 127490, 119584, 8769, 215442, 73146, 98364, 223146,
       41472, 98245, 219762, 38480, 110936, 97776, 86462, 184704, 44588, 76589, 41673, 38199, 24620, 236527, 195984,
       53728, 240777, 205206, 88628, 116366, 40893, 39014, 52760, 142019, 66751, 235646, 142971, 33407, 140463, 192800,
       9395, 114992, 104148, 50888, 39196, 126606, 95954, 218077, 3691, 28029, 210717, 107059, 98894, 71145, 195958,
       87751, 183366, 14681, 66502, 12884, 123390, 127330, 167302, 143754, 115790, 238896, 40514, 73816, 166064, 70695,
       73109, 84870, 30521, 36408, 10482, 53714, 120612, 64745, 71192, 117431, 38341, 12208, 97262, 231983, 81808,
       16761, 198710, 191546, 92228, 74052, 191173, 33176, 39893, 141808, 24747, 177573, 229129, 99511, 103468, 248652,
       125794, 30325, 82327, 14274, 128761, 150596, 21492, 175547, 119590, 28735, 131823, 46438, 126210, 178383, 16373,
       91278, 83129, 161278, 88904, 146644, 120447, 66194, 228785, 78091, 70463, 197777, 64456, 38033, 154300, 101411,
       20256, 241210, 194759, 102272, 68477, 138770, 61694, 168179, 145730, 33555, 149711, 1253, 82939, 231149, 34834,
       27454, 62967, 174797, 64064, 233366, 82407, 24932, 138546, 57935, 99571, 169917, 185818, 42048, 38401, 229854,
       57894, 96022, 215016, 98943, 207945, 64301, 86454, 161027, 232775, 52389, 235950, 246001, 9309, 205009, 11954,
       120796, 228544, 252906, 1038, 201508, 258747, 96284, 189645, 209664, 123915, 260052, 24498, 40195, 259096, 186442,
       9888, 99710, 13391, 32708, 95664, 41953, 41080, 94824, 29209, 59155, 118499, 170945, 68844, 36231, 120649,
       95070, 127519, 68849, 118084, 198279, 207395, 60921, 111251, 216131, 97822, 199412, 33885, 16672, 57196, 7602,
       43094, 71140, 161574, 15476, 230737, 239173, 90667, 236147, 207027, 118966, 234156, 227879, 116530, 164578, 180726,
       42788, 62406, 45605, 30699, 160039, 209188, 35920, 83761, 153767, 37661, 137233, 121511, 10780, 30367, 25847,
       17477, 179056, 190064, 28112, 209888, 56121, 1070, 190717, 75659, 6190, 138976, 238734, 91560, 100107, 245243,
       81176, 753, 198139, 123918, 100890, 95726, 52659, 28786, 127001, 58239, 115788, 30542, 8878, 46632, 13085,
       19955, 208683, 219357, 90650, 95320, 139852, 30807, 33542, 131303, 101355, 2576, 144715, 92494, 235702, 224304,
       97945, 46752, 82723, 90516, 12057, 114186, 92754, 202350, 178303, 71670, 28059, 150362, 88897, 232472, 261287,
       68967, 99320, 217886, 27012, 115673, 56824, 28522, 67898, 45910, 53123, 218756, 217321, 1824, 48257, 253540,
       116561, 240213, 146269, 35162, 49346, 122367, 6755, 51624, 136631, 55630, 82141, 62819, 106902, 12801, 80131,
       52081, 214682, 163763, 34430, 103422, 38241, 71421, 116682, 9529, 75285, 51800, 37978, 99508, 133927, 252119,
       104825, 78189, 167658, 92564, 16236, 160687, 594, 232341, 217588, 272, 111376, 239302, 128116, 85091, 31727,
       34629, 233690, 216874, 37008, 60580, 201149, 95976, 80239, 74056, 76229, 157775, 111139, 60760, 83271, 163507,
       15261, 257983, 156026, 10680, 196973, 194465, 92225, 78143, 8893, 16332, 41680, 14870, 57122, 136771, 260971,
       96485, 135440, 130157, 121005, 139404, 81726, 114502, 176199, 114665, 113250, 162561, 65584, 46989, 6784, 104617,
       121526, 34533, 859, 89608, 258980, 235486, 116193, 187140, 169740, 11655, 136544, 252765, 5184, 253503, 63573,
       56314, 160171, 166011, 108529, 156276, 253994, 53547, 53036, 57624, 115952, 122996, 212257, 30772, 57582, 114535,
       5156, 239721, 43095, 99783, 82910, 210968, 82073, 37497, 186819, 57683, 144065, 251199, 110789, 161481, 46510,
       108026, 93890, 196810, 42537, 91555, 119430, 109834, 239859, 219414, 45240, 158189, 187676, 81514, 12109, 134384,
       25231, 11953, 218434, 34628, 51882, 48826, 58704, 73523, 69947, 41234, 192067, 224770, 16926, 251215, 144971,
       63219, 5460, 232287, 67024, 167386, 187918, 20801, 236993, 231320, 22847, 155598, 204475, 3846, 152041, 192510,
       3978, 30595, 176047, 47006, 133589, 228221, 19222, 4018, 1762, 120467, 47222, 258764, 26137, 161073, 164265,
       8645, 188014, 39190, 52975, 92980, 231765, 25226, 234825, 134875, 8096, 60488, 151969, 98661, 129730, 216145,
       73020, 3713, 260562, 7472, 136139, 11680, 61344, 47072, 161551, 5089, 237724, 153995, 46440, 175976, 64088,
       47616, 188123, 87472, 107870, 7313, 75763, 96375, 72155, 98514, 117564, 55363, 248537, 18417, 239504, 218690,
       69961, 147254, 54409, 2646, 106162, 204324, 108202, 214934, 63988, 48048, 107918, 88064, 9084, 42147, 160338,
       42553, 124000, 27039, 37606, 48177, 38269, 100401, 81102, 115776, 16595, 55650, 104506, 72846, 152829, 43948,
       104060, 150907, 35797, 96932, 193405, 116289, 122670, 250541, 136713, 82, 142250, 179494, 46373, 124462, 55784,
       48442, 14405, 186498, 4365, 209723, 70306, 107120, 201485, 176084, 90294, 72965, 193265, 69216, 213669, 30885,
       53086, 168319, 167617, 117363, 242661, 4320, 34663, 258380, 261470, 43849, 5833, 158194, 124863, 81178, 106806,
       8470, 139217, 2376, 102316, 108779, 214514, 94117, 137888, 156852, 118212, 83900, 106375, 11870, 82940, 229497,
       127198, 8288, 213879, 3779, 221703, 135389, 44263, 122030, 195659, 11118, 99843, 108113, 6707, 200849, 127843,
       126447, 241304, 250177, 94328, 93589, 165722, 66281, 204330, 124581, 14180, 146451, 164908, 68946, 246760, 100239,
       41949, 231818, 170378, 35597, 127826, 185997, 81016, 17861, 148581, 103668, 39403, 247331, 58098, 214887, 125663,
       64657, 164633, 43551, 85384, 18865, 81228, 16336, 146152, 85740, 108607, 36090, 258004, 109699, 58576, 69920,
       70916, 16196, 173925, 24583, 229467, 184649, 65636, 21795, 1406, 13885, 176566, 121337, 100045, 230955, 86278,
       40783, 147566, 152913, 40775, 209288, 33929, 123869, 114785, 243368, 55293, 223270, 84458, 103491, 55882, 50864,
       83514, 49057, 258958, 41441, 204986, 17526, 16225, 131741, 90923, 104561, 178167, 60951, 99942, 231325, 23421,
       22172, 179257, 180072, 32652, 30589, 186003, 100432, 67030, 19587, 128926, 123219, 106224, 110577, 196796, 178225,
       89673, 29385, 2394, 119986, 185839, 24929, 37386, 107366, 183736, 1265, 34882, 108162, 42069, 243074, 9110,
       127393, 98302, 100381, 115601, 161254, 247797, 6600, 77384, 181533, 65792, 182322, 94169, 10355, 257146, 26538,
       103419, 242730, 114891, 48839, 122818, 14683, 119530, 122377, 97734, 7137, 51513, 138881, 96206, 101124, 174201,
       52345, 175674, 11794, 35156, 254989, 102743, 67823, 24492, 112563, 63633, 186769, 259548, 45719, 89654, 199741,
       85046, 242228, 131008, 86680, 11338, 143009, 10110, 171980, 89786, 78042, 64038, 138631, 93157, 124447, 40739,
       9946, 223362, 15960, 86393, 149725, 111996, 105378, 237113, 97626, 109044, 147483, 52851, 5458, 210813, 228660,
       91411, 236731, 113154, 104461, 82078, 76157, 52012, 93803, 13214, 71151, 58890, 89627, 34749, 59980, 249530,
       40663, 245739, 86078, 65748, 72761, 13838, 19810, 669, 45190, 48564, 99560, 80043, 39509, 202364, 250616,
       31227, 223346, 64851, 63424, 68388, 29457, 109927, 26363, 9589, 31753, 203821, 59616, 86472, 39035, 66371,
       33317, 140331, 225530, 18623, 42585, 48803, 123643, 23266, 80283, 82999, 124324, 180906, 13709, 166914, 136348,
       82921, 239607, 128763, 23114, 40904, 178341, 116365, 68351, 96786, 32436, 129731, 77037, 105748, 160451, 210380,
       26108, 240563, 10740, 73176, 60268, 92012, 119580, 195152, 164097, 38797, 171910, 117413, 10668, 238893, 164840,
       72429, 87736, 247037, 22587, 186879, 82233, 95465, 156313, 219999, 77440, 28891, 66355, 45400, 20524, 30451,
       92491, 99027, 57156, 31264, 88808, 79416, 120197, 213974, 196633, 45467, 80800, 151634, 100003, 198381, 40185,
       33884, 169718, 35534, 93693, 154064, 192176, 4132, 163468, 16081, 38734, 30933, 219300, 12175, 82015, 56838,
       59142, 98648, 190684, 57030, 124505, 16857, 47055, 240946, 262109, 128603, 162975, 124226, 31993, 114345, 88711,
       103684, 171228, 17758, 58647, 207537, 208339, 43884, 73159, 174039, 26668, 206512, 89396, 83021, 135090, 116300,
       43735, 225367, 47290, 106550, 232695, 69861, 126938, 163747, 139057, 29770, 154262, 80465, 16865, 22232, 232647,
       41355, 143979, 200474, 61225, 71704, 167939, 39448, 84541, 122226, 127201, 6606, 228451, 102131, 135611, 90303,
       126633, 261662, 86, 48921, 80657, 217867, 39934, 90015, 54522, 53393, 215280, 77057, 68528, 214572, 204392,
       97197, 32396, 144093, 115487, 205775, 226404, 60709, 239239, 90523, 37903, 61529, 232878, 41791, 224970, 101375,
       91350, 105413, 113729, 74390, 253396, 158403, 63765, 198897, 248009, 26578, 1062, 147210, 114747, 190807, 62885,
       102369, 239100, 108200, 18433, 205208, 52764, 48154, 89003, 145034, 71058, 88546, 86084, 59551, 18864, 237840,
       52139, 234926, 237977, 94218, 192538, 197333, 7143, 231553, 196942, 61788, 182444, 88478, 34364, 177870, 174767,
       11091, 26473, 206819, 60933, 180767, 163833, 22461, 167005, 170750, 33845, 255086, 3211, 66454, 169920, 67709,
       127625, 257797, 16753, 89686, 176226, 200341, 36650, 154226, 172544, 50122, 190348, 217472, 53232, 179448, 83852,
       20137, 154813, 155747, 21057, 69688, 246911 >>

\* The state np.random.seed(42) leaves (line 59).
SeededState == 0

\* A call that does not seed: the generator is used in the state it is in.
SeedSkipped(state) == state

\* np.random.seed(42) on a generator in any state (line 59).
Seed(state) == SeededState

\* The k-th double (k = 0, 1, ...) drawn from a generator in this state: its
\* 53 bits as <<high, middle, low>>.
Double(state, k) ==
    << Stream[3 * (state + k) + 1], Stream[3 * (state + k) + 2], Stream[3 * (state + k) + 3] >>

\* u >= 1/2 for a double u.  No double of the table is 1/2.
HalfOrMore(u) == 2 * u[1] >= HighBase

\* The generator after n doubles were drawn.
Advance(state, n) == state + n

\* Line 58: n_samples = 10000.
n_samples == 10000

\* An assignment to a local variable: Op applied to the value, which is
\* computed once, before Op is.
With(value, Op(_)) == CHOOSE r \in { Op(v) : v \in {value} } : TRUE

\* Lines 46-47: the objective triples, in the front's order.
ObjectivesOf(pareto_front) ==
    [k \in DOMAIN pareto_front |->
        << pareto_front[k].cost, pareto_front[k].disruption, pareto_front[k].balance >>]

Dims == 1..3

RECURSIVE MinFrom(_, _, _, _)
MinFrom(objectives, j, k, best) ==
    IF k > Len(objectives) THEN best
    ELSE MinFrom(objectives, j, k + 1,
                 IF objectives[k][j] < best THEN objectives[k][j] ELSE best)

RECURSIVE MaxFrom(_, _, _, _)
MaxFrom(objectives, j, k, best) ==
    IF k > Len(objectives) THEN best
    ELSE MaxFrom(objectives, j, k + 1,
                 IF objectives[k][j] > best THEN objectives[k][j] ELSE best)

\* np.min(objectives, axis=0) and np.max(objectives, axis=0), non-empty input.
MinPoint(objectives) == [j \in Dims |-> MinFrom(objectives, j, 2, objectives[1][j])]
MaxPoint(objectives) == [j \in Dims |-> MaxFrom(objectives, j, 2, objectives[1][j])]

\* The margin 0.1 of lines 51 and 147, in grid steps.
Margin == 1

\* Lines 49-51: the reference point the estimate uses.
EffectiveReference(objectives, ref) ==
    IF ref = NoReference THEN OnGrid([j \in Dims |-> MaxPoint(objectives)[j] + Margin] \o <<>>)
    ELSE ref

\* reference_point[j] - min_point[j] of lines 63 and 78: in grid steps where
\* the two differ on the grid (one ulp of the reference is below the
\* resolution of the difference there), in ulps of the minimum where the
\* reference is the minimum or one of its neighbours (the difference of two
\* neighbouring doubles is exact).
Width(l, h) == IF h[1] # l THEN h[1] - l ELSE h[2]

\* Line 63, one element of the array: l + (h - l) * u.  In a dimension as wide
\* as the grid the value is held exactly, <<whole, f1, f2, f3, 0>> for
\* whole + (f1 * 2^36 + f2 * 2^18 + f3) / 2^53 grid steps; the double the code
\* holds is the nearest one.  Where h is l or a neighbour of l the sum is
\* rounded to l (u < 1/2) or to h: <<l, 0, 0, 0, ulps>>.
Uniform(l, h, u) ==
    IF h[1] = l THEN << l, 0, 0, 0, IF HalfOrMore(u) THEN h[2] ELSE 0 >>
    ELSE LET w == h[1] - l
             t3 == w * u[3]
             t2 == w * u[2] + (t3 \div LowBase)
             t1 == w * u[1] + (t2 \div LowBase)
         IN  << l + (t1 \div HighBase), t1 % HighBase, t2 % LowBase, t3 % LowBase, 0 >>

\* Line 63, row i of the array: column j is filled from the next double of
\* the generator, rows first.
RandomPoint(state, low, high, i) ==
    << Uniform(low[1], high[1], Double(state, 3 * (i - 1))),
       Uniform(low[2], high[2], Double(state, 3 * (i - 1) + 1)),
       Uniform(low[3], high[3], Double(state, 3 * (i - 1) + 2)) >>

\* Samples drawn from the box between the origin and high, whatever low is.
RandomPointsFromOrigin(state, low, high) ==
    [i \in 1..n_samples |-> RandomPoint(state, <<0, 0, 0>>, high, i)] \o <<>>

\* Line 63: np.random.uniform(min_point, reference_point, (n_samples, 3)) on a
\* generator in this state: the array random_points as the sequence of its
\* n_samples rows.
RandomPoints(state, low, high) ==
    [i \in 1..n_samples |-> RandomPoint(state, low, high, i)] \o <<>>

\* o <= x and o < x for an objective o, in grid steps, and an element x of
\* random_points.
LessOrEqual(o, x) == o < x[1] \/ (o = x[1] /\ x[5] >= 0)
Less(o, x) == o < x[1] \/ (o = x[1] /\ (x[5] > 0 \/ (x[5] = 0 /\ x[2] + x[3] + x[4] > 0)))

\* np.all(obj < point): a sample on the boundary is not dominated.
DominatesStrictly(obj, point) == \A j \in Dims : Less(obj[j], point[j])

\* Line 71: np.all(obj <= point).
Dominates(obj, point) == \A j \in Dims : LessOrEqual(obj[j], point[j])

\* Lines 69-73: the inner loop over the front for one sample.
RECURSIVE DominatedFrom(_, _, _)
DominatedFrom(objectives, point, k) ==
    IF k > Len(objectives) THEN FALSE
    ELSE IF Dominates(objectives[k], point) THEN TRUE
    ELSE DominatedFrom(objectives, point, k + 1)

\* Lines 66-75: dominated_count after the loop over the samples: one for every
\* sample the inner loop finds dominated.
DominatedCount(objectives, points) ==
    Cardinality({ i \in DOMAIN points : DominatedFrom(objectives, points[i], 1) })

\* Line 78: np.prod(reference_point - min_point), the product of the three
\* widths, each in its unit.
TotalVolume(low, high) ==
    Width(low[1], high[1]) * Width(low[2], high[2]) * Width(low[3], high[3])

\* Lines 66-81: the returned estimate (dominated_count / n_samples) *
\* total_volume, held as its numerator over n_samples: the value times
\* n_samples, in the unit of total_volume.
Estimate(objectives, low, high, points) ==
    DominatedCount(objectives, points) * TotalVolume(low, high)

\* Lines 46-81, the call on a non-empty front: objectives, reference_point,
\* min_point and random_points are assigned in this order, the generator
\* seeded before the draw.
SampledEstimate(pareto_front, ref, state) ==
    With(ObjectivesOf(pareto_front), LAMBDA objectives :
    With(EffectiveReference(objectives, ref), LAMBDA high :
    With(MinPoint(objectives), LAMBDA low :
    With(RandomPoints(Seed(state), low, high), LAMBDA points :
        Estimate(objectives, low, high, points)))))

\* The generator after a call on this front: untouched by the early return
\* of line 43, else seeded (line 59) and advanced by the draw of line 63.
StateAfterCall(pareto_front, state) ==
    IF pareto_front = <<>> THEN state ELSE Advance(Seed(state), 3 * n_samples)

\* A call that returns the whole box for an empty front.
CalculateHypervolumeEmptyIsBox(pareto_front, ref, state) ==
    [value |-> IF pareto_front = <<>> THEN n_samples
               ELSE SampledEstimate(pareto_front, ref, state),
     state |-> StateAfterCall(pareto_front, state)]

\* calculate_hypervolume(pareto_front, reference_point) called with the
\* global generator in this state: the value returned (0.0 for an empty
\* front, lines 42-43) and the state the generator is left in.
CalculateHypervolume(pareto_front, ref, state) ==
    [value |-> IF pareto_front = <<>> THEN 0
               ELSE SampledEstimate(pareto_front, ref, state),
     state |-> StateAfterCall(pareto_front, state)]
----------------------------------------------------------------------------
(* calculate_sparsity (visualize_pareto_front.py, lines 83-128).  A         *)
(* crowding distance is float('inf') or an exact fraction num/den in lowest *)
(* terms.                                                                  *)

RECURSIVE GCD(_, _)
GCD(a, b) == IF b = 0 THEN a ELSE GCD(b, a % b)

\* The fraction n/d (n >= 0, d > 0) in lowest terms.
Frac(n, d) == [inf |-> FALSE, num |-> n \div GCD(n, d), den |-> d \div GCD(n, d)]

\* float('inf').
Infinite == [inf |-> TRUE, num |-> 0, den |-> 1]

\* x + y on floats of which y is finite: inf + y is inf.
Plus(x, y) ==
    IF x.inf THEN Infinite
    ELSE Frac(x.num * y.den + y.num * x.den, x.den * y.den)

\* Line 109: np.argsort(objectives[:, m]).  The default sort kind is not
\* stable, so among equal values every order is a possible result.
ArgSorts(objectives, m) ==
    LET n == Len(objectives)
    IN  { p \in [1..n -> 1..n] :
            /\ \A a, b \in 1..n : a # b => p[a] # p[b]
            /\ \A a \in 1..n - 1 : objectives[p[a]][m] <= objectives[p[a + 1]][m] }

\* A pass that adds the raw difference of the neighbours, not divided by the
\* range of the objective.
CrowdingPassUnnormalised(distances, objectives, m, sorted_indices) ==
    LET n == Len(objectives)
        obj_range == objectives[sorted_indices[n]][m] - objectives[sorted_indices[1]][m]
        bounded == [k \in 1..n |->
                      IF k = sorted_indices[1] \/ k = sorted_indices[n]
                      THEN Infinite ELSE distances[k]]
        position(k) == CHOOSE i \in 1..n : sorted_indices[i] = k
    IN  IF obj_range > 0
        THEN [k \in 1..n |->
                IF position(k) \in 2..n - 1
                THEN Plus(bounded[k],
                          Frac(objectives[sorted_indices[position(k) + 1]][m]
                                 - objectives[sorted_indices[position(k) - 1]][m],
                               1))
                ELSE bounded[k]]
        ELSE bounded

\* Lines 112-121: one pass of the loop over the objectives, for objective m
\* and its sorted_indices.
CrowdingPass(distances, objectives, m, sorted_indices) ==
    LET n == Len(objectives)
        obj_range == objectives[sorted_indices[n]][m] - objectives[sorted_indices[1]][m]
        bounded == [k \in 1..n |->
                      IF k = sorted_indices[1] \/ k = sorted_indices[n]
                      THEN Infinite ELSE distances[k]]
        position(k) == CHOOSE i \in 1..n : sorted_indices[i] = k
    IN  IF obj_range > 0
        THEN [k \in 1..n |->
                IF position(k) \in 2..n - 1
                THEN Plus(bounded[k],
                          Frac(objectives[sorted_indices[position(k) + 1]][m]
                                 - objectives[sorted_indices[position(k) - 1]][m],
                               obj_range))
                ELSE bounded[k]]
        ELSE bounded

\* Lines 105-121: the crowding distances after the three passes.
CrowdingDistances(objectives, sorts) ==
    LET zero == [k \in 1..Len(objectives) |-> Frac(0, 1)]
        d1 == CrowdingPass(zero, objectives, 1, sorts[1])
        d2 == CrowdingPass(d1, objectives, 2, sorts[2])
    IN  CrowdingPass(d2, objectives, 3, sorts[3])

RECURSIVE SumFinite(_, _)
SumFinite(distances, k) ==
    IF k > Len(distances) THEN Frac(0, 1)
    ELSE IF distances[k].inf THEN SumFinite(distances, k + 1)
    ELSE Plus(distances[k], SumFinite(distances, k + 1))

\* The mean taken over all the solutions, the infinite ones counted in the
\* divisor.
MeanOverAll(distances) ==
    LET count == Cardinality({ k \in DOMAIN distances : ~distances[k].inf })
        total == SumFinite(distances, 1)
    IN  IF count > 0 THEN Frac(total.num, total.den * Len(distances)) ELSE Infinite

\* Lines 124-128: the mean of the finite distances, or float('inf').
MeanFinite(distances) ==
    LET count == Cardinality({ k \in DOMAIN distances : ~distances[k].inf })
        total == SumFinite(distances, 1)
    IN  IF count > 0 THEN Frac(total.num, total.den * count) ELSE Infinite

\* A call whose early return covers fronts of fewer than two solutions and
\* that scores a pair as 0.
CalculateSparsityPairIsZero(pareto_front) ==
    IF Len(pareto_front) < 2 THEN { Infinite }
    ELSE IF Len(pareto_front) = 2 THEN { Frac(0, 1) }
    ELSE LET objectives == ObjectivesOf(pareto_front)
         IN  { MeanFinite(CrowdingDistances(objectives, <<s1, s2, s3>>)) :
                 s1 \in ArgSorts(objectives, 1),
                 s2 \in ArgSorts(objectives, 2),
                 s3 \in ArgSorts(objectives, 3) }

\* calculate_sparsity(pareto_front): the values the call can return.
CalculateSparsity(pareto_front) ==
    IF Len(pareto_front) <= 2 THEN { Infinite }
    ELSE LET objectives == ObjectivesOf(pareto_front)
         IN  { MeanFinite(CrowdingDistances(objectives, <<s1, s2, s3>>)) :
                 s1 \in ArgSorts(objectives, 1),
                 s2 \in ArgSorts(objectives, 2),
                 s3 \in ArgSorts(objectives, 3) }

----------------------------------------------------------------------------
(* calculate_metrics_over_time (visualize_pareto_front.py, lines 130-163). *)

\* Lines 140-143: the objective triples of every round's front, in order.
RECURSIVE AllObjectives(_, _)
AllObjectives(rounds, i) ==
    IF i > Len(rounds) THEN <<>>
    ELSE ObjectivesOf(rounds[i].paretoFront) \o AllObjectives(rounds, i + 1)

\* The default reference point (1.1, 1.1, 1.1) of line 149, in grid steps.
DefaultReference == <<11, 11, 11>>

\* The maximum without the margin of line 147.
GlobalReferenceNoMargin(rounds) ==
    LET all_objectives == AllObjectives(rounds, 1)
    IN  IF all_objectives # <<>>
        THEN [j \in Dims |-> MaxPoint(all_objectives)[j]]
        ELSE DefaultReference

\* Lines 145-149: the reference point shared by all rounds.
GlobalReference(rounds) ==
    LET all_objectives == AllObjectives(rounds, 1)
    IN  IF all_objectives # <<>>
        THEN [j \in Dims |-> MaxPoint(all_objectives)[j] + Margin]
        ELSE DefaultReference

\* The ceiling 100 that replaces an infinite sparsity (line 160).
SparsityCap == 100

\* No cap: the value is appended as calculate_sparsity returned it.
Uncapped(sparsity) == sparsity

\* Line 160: sparsity if sparsity != float('inf') else 100.
CappedSparsity(sparsity) == IF ~sparsity.inf THEN sparsity ELSE Frac(SparsityCap, 1)

\* The global generator when the loop of line 152 reaches round i (after the
\* calls of calculate_hypervolume for the rounds before it), having been in
\* this state at entry.
RECURSIVE StateBeforeRound(_, _, _)
StateBeforeRound(rounds, i, state) ==
    IF i <= 1 THEN state
    ELSE StateAfterCall(rounds[i - 1].paretoFront, StateBeforeRound(rounds, i - 1, state))

\* The values calculate_sparsity can return for each round, as the set of the
\* possible sequences.
RECURSIVE SparsityChoices(_, _)
SparsityChoices(rounds, i) ==
    IF i > Len(rounds) THEN { <<>> }
    ELSE { <<s>> \o rest : s \in CalculateSparsity(rounds[i].paretoFront),
                           rest \in SparsityChoices(rounds, i + 1) }

\* Lines 152-156: what calculate_hypervolume returns for the rounds from round
\* i on, in order, the global generator being in this state when the loop
\* reaches round i.
RECURSIVE HypervolumesFrom(_, _, _, _)
HypervolumesFrom(rounds, reference, i, state) ==
    IF i > Len(rounds) THEN <<>>
    ELSE With(CalculateHypervolume(rounds[i].paretoFront, OnGrid(reference), state), LAMBDA r :
            << r.value >> \o HypervolumesFrom(rounds, reference, i + 1, r.state))

\* A timeline that leaves out the rounds whose front is empty.
BuildMetricsSkippingEmpty(rounds, sparsities, hypervolumes) ==
    LET kept == SelectSeq([i \in DOMAIN rounds |-> i],
                          LAMBDA i : rounds[i].paretoFront # <<>>)
    IN  [rounds |-> [n \in DOMAIN kept |-> n],
         hypervolume |-> [n \in DOMAIN kept |-> hypervolumes[kept[n]]],
         sparsity |-> [n \in DOMAIN kept |-> CappedSparsity(sparsities[kept[n]])],
         pareto_size |-> [n \in DOMAIN kept |-> Len(rounds[kept[n]].paretoFront)]]

\* A timeline whose pareto_size counts the different solutions of a front.
BuildMetricsDistinctSize(rounds, sparsities, hypervolumes) ==
    [rounds |-> [i \in DOMAIN rounds |-> i],
     hypervolume |-> [i \in DOMAIN rounds |-> hypervolumes[i]],
     sparsity |-> [i \in DOMAIN rounds |-> CappedSparsity(sparsities[i])],
     pareto_size |->
        [i \in DOMAIN rounds |->
            Cardinality({ rounds[i].paretoFront[k] : k \in DOMAIN rounds[i].paretoFront })]]

\* Lines 152-163: the metrics dict, given what calculate_sparsity and
\* calculate_hypervolume returned for each round.
BuildMetrics(rounds, sparsities, hypervolumes) ==
    [rounds |-> [i \in DOMAIN rounds |-> i],   \* i + 1 for the 0-based i
     hypervolume |-> [i \in DOMAIN rounds |-> hypervolumes[i]],
     sparsity |-> [i \in DOMAIN rounds |-> CappedSparsity(sparsities[i])],
     pareto_size |-> [i \in DOMAIN rounds |-> Len(rounds[i].paretoFront)]]
----------------------------------------------------------------------------
(* The analyzer as a state machine. *)

\* The parts of the state an analysis of one kind leaves alone.
HvIdle ==
    /\ rng = SeededState
    /\ front = <<>>
    /\ reference_point = NoReference
    /\ returned = <<>>
    /\ perturbed = FALSE
    /\ grown = FALSE

ConcIdle ==
    /\ cpc = [t \in Threads |-> "done"]
    /\ cfront = [t \in Threads |-> <<>>]
    /\ cref = [t \in Threads |-> NoReference]
    /\ cpoints = [t \in Threads |-> <<>>]
    /\ cvalue = [t \in Threads |-> 0]

MetIdle ==
    /\ data = [rounds |-> <<>>]
    /\ metrics = <<>>
    /\ global_reference = NoReference
    /\ raw_sparsity = <<>>
    /\ mpc = "start"

ViewIdle ==
    /\ style_data = <<>>
    /\ styled = "none"
    /\ convergence_data = <<>>
    /\ markers = <<>>
    /\ converged = "none"

AggIdle ==
    /\ results = <<>>
    /\ phase = "loading"
    /\ scenario_data = <<>>
    /\ report = <<>>
    /\ algorithm_data = <<>>
    /\ outcome = "none"
    /\ comparison_records = <<>>
    /\ compared = "none"
    /\ improvement_data = <<>>
    /\ performance_data = <<>>
    /\ performed = FALSE
    /\ ViewIdle

AggInit == AggIdle /\ HvIdle /\ ConcIdle /\ MetIdle

\* load_results: one iteration, a document read and appended (lines 63-69).
LoadResult ==
    /\ phase = "loading"
    /\ Len(results) < MaxRuns
    /\ \E loaded \in Runs : results' = Append(results, loaded)
    /\ UNCHANGED <<phase, scenario_data, report, algorithm_data, outcome, cmpVars,
                 hvVars, concVars, metVars>>

\* __init__ returns: the analyzer is constructed (lines 53-57).
FinishLoading ==
    /\ phase = "loading"
    /\ phase' = "loaded"
    /\ UNCHANGED <<results, scenario_data, report, algorithm_data, outcome, cmpVars,
                 hvVars, concVars, metVars>>

\* plot_academic_bar_comparison, the whole call (lines 106-281).
PlotAcademicBarComparison ==
    /\ phase = "loaded"
    /\ phase' = "plotted"
    /\ scenario_data' = Aggregate(results)
    /\ report' = ReportFrom(results, 1)
    /\ outcome' = PlotOutcome(Aggregate(results))
    /\ algorithm_data' = IF InsufficientScenarios(Aggregate(results)) THEN <<>>
                         ELSE AlgorithmData(Aggregate(results))
    /\ UNCHANGED <<results, cmpVars, hvVars, concVars, metVars>>

AggNext == LoadResult \/ FinishLoading \/ PlotAcademicBarComparison

SpecAgg == AggInit /\ [][AggNext]_vars

----------------------------------------------------------------------------
(* Sequential calls of calculate_hypervolume on one front and reference    *)
(* point, with other users of the global generator in between.             *)

\* The doubles other code has drawn since the generator was seeded or was
\* left by a call of calculate_hypervolume.
OtherDraws(state) == state % (3 * n_samples)

\* The furthest state of the generator from which a call can draw its
\* samples inside the table: the one a call and MaxDraws other draws leave.
LastState == 3 * n_samples + MaxDraws

HvInit ==
    /\ rng \in 0..MaxDraws
    /\ \E c \in HvCases :
          /\ front = c.front
          /\ reference_point = c.ref
    /\ returned = <<>>
    /\ perturbed = FALSE
    /\ grown = FALSE
    /\ AggIdle /\ ConcIdle /\ MetIdle

\* calculate_hypervolume(front, reference_point), the whole call.
CallHypervolume ==
    /\ Len(returned) < MaxCalls
    /\ rng <= LastState
    /\ LET r == CalculateHypervolume(front, reference_point, rng)
       IN  /\ returned' = Append(returned, [value |-> r.value, perturbed |-> perturbed])
           /\ rng' = r.state
    /\ UNCHANGED <<front, reference_point, perturbed, grown, aggVars, concVars, metVars>>

\* Some other code draws a double from np.random.
GlobalDraw ==
    /\ OtherDraws(rng) < MaxDraws
    /\ rng' = Advance(rng, 1)
    /\ perturbed' = TRUE
    /\ UNCHANGED <<front, reference_point, returned, grown, aggVars, concVars, metVars>>

\* calculate_hypervolume is called on some front by other code.
CallOther ==
    /\ rng <= LastState
    /\ \E f \in { g \in Fronts : Len(g) = 1 } : rng' = StateAfterCall(f, rng)
    /\ perturbed' = TRUE
    /\ UNCHANGED <<front, reference_point, returned, grown, aggVars, concVars, metVars>>

HvNext == CallHypervolume \/ GlobalDraw \/ CallOther

SpecHV == HvInit /\ [][HvNext]_vars

----------------------------------------------------------------------------
(* Two calls of calculate_hypervolume on independent runs, their steps     *)
(* interleaved.  np.random.seed and np.random.uniform each run under the   *)
(* generator's lock, so each is one step.                                  *)

ConcInit ==
    /\ rng \in 0..MaxDraws
    /\ \E a \in [Threads -> ConcurrentCalls] :
          /\ cfront = [t \in Threads |-> a[t].front]
          /\ cref = [t \in Threads |-> a[t].ref]
    /\ cpc = [t \in Threads |-> "start"]
    /\ cpoints = [t \in Threads |-> <<>>]
    /\ cvalue = [t \in Threads |-> 0]
    /\ front = <<>>
    /\ reference_point = NoReference
    /\ returned = <<>>
    /\ perturbed = FALSE
    /\ grown = FALSE
    /\ AggIdle /\ MetIdle

\* Lines 42-58: the empty front returns at once; otherwise the objectives and
\* the reference point are set up.
Enter(t) ==
    /\ cpc[t] = "start"
    /\ cpc' = [cpc EXCEPT ![t] = IF cfront[t] = <<>> THEN "done" ELSE "ready"]
    /\ UNCHANGED <<rng, cfront, cref, cpoints, cvalue,
                   front, reference_point, returned, perturbed, grown, aggVars, metVars>>

\* Line 59: np.random.seed(42).
SeedStep(t) ==
    /\ cpc[t] = "ready"
    /\ rng' = Seed(rng)
    /\ cpc' = [cpc EXCEPT ![t] = "seeded"]
    /\ UNCHANGED <<cfront, cref, cpoints, cvalue,
                   front, reference_point, returned, perturbed, grown, aggVars, metVars>>

\* Lines 62-63: min_point and the draw of the samples.
DrawStep(t) ==
    /\ cpc[t] = "seeded"
    /\ LET objectives == ObjectivesOf(cfront[t])
           high == EffectiveReference(objectives, cref[t])
       IN  cpoints' = [cpoints EXCEPT
                          ![t] = RandomPoints(rng, MinPoint(objectives), high)]
    /\ rng' = Advance(rng, 3 * n_samples)
    /\ cpc' = [cpc EXCEPT ![t] = "drawn"]
    /\ UNCHANGED <<cfront, cref, cvalue,
                   front, reference_point, returned, perturbed, grown, aggVars, metVars>>

\* Lines 66-81: the count and the returned estimate.
ReturnStep(t) ==
    /\ cpc[t] = "drawn"
    /\ LET objectives == ObjectivesOf(cfront[t])
           high == EffectiveReference(objectives, cref[t])
       IN  cvalue' = [cvalue EXCEPT
                         ![t] = Estimate(objectives, MinPoint(objectives), high, cpoints[t])]
    /\ cpc' = [cpc EXCEPT ![t] = "done"]
    /\ UNCHANGED <<rng, cfront, cref, cpoints,
                   front, reference_point, returned, perturbed, grown, aggVars, metVars>>

ConcNext == \E t \in Threads : Enter(t) \/ SeedStep(t) \/ DrawStep(t) \/ ReturnStep(t)

SpecConc == ConcInit /\ [][ConcNext]_vars

----------------------------------------------------------------------------
(* calculate_metrics_over_time on one run document. *)

MetInit ==
    /\ data \in RunDocuments \cup ReorderedDocuments
    /\ metrics = <<>>
    /\ global_reference = NoReference
    /\ raw_sparsity = <<>>
    /\ mpc = "start"
    /\ rng = SeededState
    /\ front = <<>>
    /\ reference_point = NoReference
    /\ returned = <<>>
    /\ perturbed = FALSE
    /\ grown = FALSE
    /\ AggIdle /\ ConcIdle

\* A call that consumes its input: the rounds are popped off the document's
\* list as they are processed.
CalculateMetricsConsumingRounds ==
    /\ mpc = "start"
    /\ global_reference' = GlobalReference(data.rounds)
    /\ \E hypervolumes \in { HypervolumesFrom(data.rounds, GlobalReference(data.rounds), 1, rng) } :
       \E returns \in SparsityChoices(data.rounds, 1) :
          /\ raw_sparsity' = returns
          /\ metrics' = BuildMetrics(data.rounds, returns, hypervolumes)
    /\ rng' = StateBeforeRound(data.rounds, Len(data.rounds) + 1, rng)
    /\ mpc' = "done"
    /\ data' = [data EXCEPT !.rounds = <<>>]
    /\ UNCHANGED <<front, reference_point, returned, perturbed, grown, aggVars, concVars>>

\* calculate_metrics_over_time(data), the whole call.
CalculateMetricsOverTime ==
    /\ mpc = "start"
    /\ global_reference' = GlobalReference(data.rounds)
    /\ \E hypervolumes \in { HypervolumesFrom(data.rounds, GlobalReference(data.rounds), 1, rng) } :
       \E returns \in SparsityChoices(data.rounds, 1) :
          /\ raw_sparsity' = returns
          /\ metrics' = BuildMetrics(data.rounds, returns, hypervolumes)
    /\ rng' = StateBeforeRound(data.rounds, Len(data.rounds) + 1, rng)
    /\ mpc' = "done"
    /\ UNCHANGED <<data, front, reference_point, returned, perturbed, grown, aggVars, concVars>>

\* Some other code draws MaxDraws doubles from np.random before the call.
DrawBeforeMetrics ==
    /\ mpc = "start"
    /\ rng = SeededState
    /\ rng' = Advance(rng, MaxDraws)
    /\ UNCHANGED <<data, metrics, global_reference, raw_sparsity, mpc, front, reference_point, returned, perturbed, grown,
                   aggVars, concVars>>

MetNext == CalculateMetricsOverTime \/ DrawBeforeMetrics

SpecMetrics == MetInit /\ [][MetNext]_vars

----------------------------------------------------------------------------
(* calculate_hypervolume called on a front, and again on the front with    *)
(* one more solution, with the same reference point.                       *)

GrowInit ==
    /\ rng \in 0..MaxDraws
    /\ front \in BaseFronts
    /\ reference_point \in GrowReferences
    /\ returned = <<>>
    /\ perturbed = FALSE
    /\ grown = FALSE
    /\ AggIdle /\ ConcIdle /\ MetIdle

\* The caller appends to the front, after its first call, a solution that
\* no solution of the front dominates.
AddSolution ==
    /\ ~grown
    /\ Len(returned) = 1
    /\ \E extra \in ExtraSolutions :
          /\ \A k \in DOMAIN front :
                ~(/\ front[k].cost <= extra.cost
                  /\ front[k].disruption <= extra.disruption
                  /\ front[k].balance <= extra.balance)
          /\ front' = Append(front, extra)
    /\ grown' = TRUE
    /\ UNCHANGED <<rng, reference_point, returned, perturbed, aggVars, concVars, metVars>>

GrowNext == CallHypervolume \/ GlobalDraw \/ AddSolution

SpecGrow == GrowInit /\ [][GrowNext]_vars
----------------------------------------------------------------------------
(* The comparisons on a constructed analyzer. *)

CompareInit ==
    /\ results \in SeqsUpTo(ComparisonRuns, MaxRuns)
    /\ phase = "loaded"
    /\ scenario_data = <<>>
    /\ report = <<>>
    /\ algorithm_data = <<>>
    /\ outcome = "none"
    /\ comparison_records = <<>>
    /\ compared = "none"
    /\ improvement_data = <<>>
    /\ performance_data = <<>>
    /\ performed = FALSE
    /\ ViewIdle
    /\ HvIdle /\ ConcIdle /\ MetIdle

\* plot_algorithm_comparison, the whole call: the call of
\* plot_academic_bar_comparison of line 446, then the record list.
PlotAlgorithmComparison ==
    /\ phase = "loaded"
    /\ compared = "none"
    /\ phase' = "plotted"
    /\ scenario_data' = Aggregate(results)
    /\ report' = ReportFrom(results, 1)
    /\ outcome' = PlotOutcome(Aggregate(results))
    /\ algorithm_data' = IF InsufficientScenarios(Aggregate(results)) THEN <<>>
                         ELSE AlgorithmData(Aggregate(results))
    /\ compared' = ComparisonOutcome(results)
    /\ comparison_records' =
          IF ComparisonOutcome(results) = "ValueError" THEN <<>>
          ELSE CollectComparison(results, 1, <<>>).records
    /\ UNCHANGED <<results, improvement_data, performance_data, performed, viewVars,
                   hvVars, concVars, metVars>>

\* plot_performance_comparison, the whole call.
PlotPerformanceComparison ==
    /\ phase \in {"loaded", "plotted"}
    /\ ~performed
    /\ improvement_data' = ImprovementData(results)
    /\ performance_data' = PerformanceData(results)
    /\ performed' = TRUE
    /\ UNCHANGED <<results, phase, scenario_data, report, algorithm_data, outcome,
                   comparison_records, compared, viewVars, hvVars, concVars, metVars>>

CompareNext == PlotAlgorithmComparison \/ PlotPerformanceComparison

SpecCompare == CompareInit /\ [][CompareNext]_vars
----------------------------------------------------------------------------
(* The three read-only operations applied to loaded documents: the
   timeline builder on one run document, and the two analyzer methods on
   the analyzer's list. *)

\* The documents handed to the timeline builder here: no round or one round.
FrameDocuments ==
    { [rounds |-> <<>>],
      [rounds |-> << [paretoFront |->
                        << Sol(0, 6, 6), Sol(2, 4, 3), Sol(4, 2, 4), Sol(6, 0, 0) >>] >>] }

\* The run documents of the analyzer's list here.
FrameRuns == { r \in ComparisonRuns : r.name \in {"small", "unfinished", "zero"} }

FrameInit ==
    /\ results \in SeqsUpTo(FrameRuns, MaxRuns)
    /\ phase = "loaded"
    /\ scenario_data = <<>>
    /\ report = <<>>
    /\ algorithm_data = <<>>
    /\ outcome = "none"
    /\ comparison_records = <<>>
    /\ compared = "none"
    /\ improvement_data = <<>>
    /\ performance_data = <<>>
    /\ performed = FALSE
    /\ ViewIdle
    /\ data \in FrameDocuments
    /\ metrics = <<>>
    /\ global_reference = NoReference
    /\ raw_sparsity = <<>>
    /\ mpc = "start"
    /\ HvIdle /\ ConcIdle

FrameNext ==
    \/ CalculateMetricsOverTime
    \/ PlotAcademicBarComparison
    \/ PlotAlgorithmComparison

SpecFrame == FrameInit /\ [][FrameNext]_vars
----------------------------------------------------------------------------
(* The two academic comparisons on the same constructed analyzer. *)

StyleInit ==
    /\ results \in SeqsUpTo(ScenarioRuns \cup BaselineRuns, MaxRuns)
    /\ phase = "loaded"
    /\ scenario_data = <<>>
    /\ report = <<>>
    /\ algorithm_data = <<>>
    /\ outcome = "none"
    /\ comparison_records = <<>>
    /\ compared = "none"
    /\ improvement_data = <<>>
    /\ performance_data = <<>>
    /\ performed = FALSE
    /\ ViewIdle
    /\ HvIdle /\ ConcIdle /\ MetIdle

\* plot_academic_style_comparison, the whole call (lines 659-809): when the
\* plot is made, the call of plot_convergence_behavior of line 791 is part
\* of it.
PlotAcademicStyleComparison ==
    /\ phase \in {"loaded", "plotted"}
    /\ styled = "none"
    /\ styled' = StyleOutcome(results)
    /\ style_data' = StyleFrom(results, 1, <<>>).sd
    /\ IF StyleOutcome(results) = "plotted"
       THEN /\ convergence_data' = ConvergenceFrom(results, 1, <<>>)
            /\ converged' = IF ConvergenceFrom(results, 1, <<>>) = <<>> THEN "no data"
                            ELSE "plotted"
            /\ markers' = [nc \in DOMAIN ConvergenceFrom(results, 1, <<>>) |->
                              MarkersOf(ConvergenceFrom(results, 1, <<>>)[nc])]
       ELSE UNCHANGED <<convergence_data, markers, converged>>
    /\ UNCHANGED <<results, phase, scenario_data, report, algorithm_data, outcome,
                   comparison_records, compared, improvement_data, performance_data,
                   performed, hvVars, concVars, metVars>>

StyleNext == PlotAcademicBarComparison \/ PlotAcademicStyleComparison

SpecStyle == StyleInit /\ [][StyleNext]_vars
----------------------------------------------------------------------------
(* plot_convergence_behavior on a constructed analyzer. *)

ConvInit ==
    /\ results \in { <<d>> : d \in ConvergenceRuns } \cup SeqsUpTo(ScenarioRuns, MaxRuns)
    /\ phase = "loaded"
    /\ scenario_data = <<>>
    /\ report = <<>>
    /\ algorithm_data = <<>>
    /\ outcome = "none"
    /\ comparison_records = <<>>
    /\ compared = "none"
    /\ improvement_data = <<>>
    /\ performance_data = <<>>
    /\ performed = FALSE
    /\ ViewIdle
    /\ HvIdle /\ ConcIdle /\ MetIdle

\* plot_convergence_behavior, the whole call (lines 811-932).
PlotConvergenceBehavior ==
    /\ phase = "loaded"
    /\ converged = "none"
    /\ convergence_data' = ConvergenceFrom(results, 1, <<>>)
    /\ converged' = IF ConvergenceFrom(results, 1, <<>>) = <<>> THEN "no data"
                    ELSE "plotted"
    /\ markers' = [nc \in DOMAIN ConvergenceFrom(results, 1, <<>>) |->
                      MarkersOf(ConvergenceFrom(results, 1, <<>>)[nc])]
    /\ UNCHANGED <<results, phase, scenario_data, report, algorithm_data, outcome,
                   comparison_records, compared, improvement_data, performance_data,
                   performed, style_data, styled, hvVars, concVars, metVars>>

ConvNext == PlotConvergenceBehavior

SpecConv == ConvInit /\ [][ConvNext]_vars
----------------------------------------------------------------------------
(* Properties of the cross-run aggregator. *)

MinOf(S) == CHOOSE x \in S : \A y \in S : x <= y

\* The positions in results of the runs of group nc.
GroupRuns(nc) == { k \in DOMAIN results : results[k].nodes = nc }

RoundsOf(k) == IF Has(results[k], "rounds") THEN results[k].rounds ELSE <<>>

\* The bestSolution of every round of every run of group nc.
AllGroupSolutions(nc) ==
    UNION { { RoundsOf(k)[i].bestSolution : i \in DOMAIN RoundsOf(k) } :
            k \in GroupRuns(nc) }

DistinctKeys == { results[k].nodes : k \in DOMAIN results }

\* C1: when several runs share a node count, the group's best cost, balance
\* and disruption are each the minimum over every round of every run of the
\* group.
C1_GroupBestOverAllRuns ==
    phase = "plotted" =>
        \A nc \in DOMAIN scenario_data :
            LET sols == AllGroupSolutions(nc)
                nsga == scenario_data[nc].nsga_ii
            IN  sols # {} =>
                    /\ nsga.cost = MinOf({ x.rawCost : x \in sols })
                    /\ nsga.balance = MinOf({ x.rawBalance : x \in sols })
                    /\ nsga.disruption = MinOf({ x.disruption : x \in sols })

\* The report line printed for the only run of a single-run group.
LineOf(nc) == CHOOSE l \in { report[j] : j \in DOMAIN report } : l.node_count = nc

\* C2: for a group made of a single run with at least one round, the best
\* value of each objective is the minimum over the run's rounds and the
\* reported round is the 1-based position of a round holding that minimum.
C2_SingleRunBestIsMinimum ==
    phase = "plotted" =>
        \A nc \in DOMAIN scenario_data :
            \A k \in GroupRuns(nc) :
                (GroupRuns(nc) = {k} /\ RoundsOf(k) # <<>>) =>
                    LET rounds == RoundsOf(k)
                        sols == { rounds[i].bestSolution : i \in DOMAIN rounds }
                        nsga == scenario_data[nc].nsga_ii
                        line == LineOf(nc)
                    IN  /\ nsga.cost = MinOf({ x.rawCost : x \in sols })
                        /\ nsga.balance = MinOf({ x.rawBalance : x \in sols })
                        /\ nsga.disruption = MinOf({ x.disruption : x \in sols })
                        /\ line.best_cost = nsga.cost
                        /\ line.best_balance = nsga.balance
                        /\ line.best_disruption = nsga.disruption
                        /\ line.best_cost_round \in DOMAIN rounds
                        /\ line.best_balance_round \in DOMAIN rounds
                        /\ line.best_disruption_round \in DOMAIN rounds
                        /\ rounds[line.best_cost_round].bestSolution.rawCost = nsga.cost
                        /\ rounds[line.best_balance_round].bestSolution.rawBalance
                               = nsga.balance
                        /\ rounds[line.best_disruption_round].bestSolution.disruption
                               = nsga.disruption

\* A single-run group of three rounds whose best cost is that of round 2, the
\* last round being worse.
C2_Witness ==
    /\ phase = "plotted"
    /\ \E nc \in DOMAIN scenario_data : \E k \in GroupRuns(nc) :
          /\ GroupRuns(nc) = {k}
          /\ Len(RoundsOf(k)) = 3
          /\ RoundsOf(k)[3].bestSolution.rawCost > scenario_data[nc].nsga_ii.cost
          /\ LineOf(nc).best_cost_round = 2

\* C3: fewer than 2 distinct node counts end in the insufficient-data outcome
\* with no comparison data, whatever the number of runs; 2 or more proceed to
\* the comparison.
C3_InsufficientBelowTwoKeys ==
    phase = "plotted" =>
        IF Cardinality(DistinctKeys) < 2
        THEN outcome = "insufficient" /\ DOMAIN algorithm_data = {}
        ELSE /\ outcome \in {"saved", "ValueError"}
             /\ "cost" \in DOMAIN algorithm_data
             /\ outcome = "saved" => DOMAIN algorithm_data = Objectives

\* Two runs of the same node count: still insufficient.
C3_Witness ==
    /\ phase = "plotted"
    /\ Len(results) >= 2
    /\ Cardinality(DistinctKeys) = 1
    /\ outcome = "insufficient"

\* The baseline records of group nc that name algorithm alg.
SourceBaselines(nc, alg) ==
    UNION { { results[k].baselineResults[j] :
                j \in { j \in DOMAIN results[k].baselineResults :
                          results[k].baselineResults[j].algorithm = alg } } :
            k \in { k \in GroupRuns(nc) : Has(results[k], "baselineResults") } }

\* C4: in the group summaries a baseline's disruption or execution time is 0
\* only when a source record holds the value 0; an absent value is not 0.
C4_ZeroOnlyFromSource ==
    phase = "plotted" =>
        \A nc \in DOMAIN scenario_data :
            \A alg \in DOMAIN scenario_data[nc].baselines :
                LET e == scenario_data[nc].baselines[alg]
                    src == SourceBaselines(nc, alg)
                IN  /\ e.disruption = 0 =>
                          \E b \in src : Has(b, "disruption") /\ b.disruption = 0
                    /\ e.execution_time.num = 0 =>
                          \E b \in src : Has(b, "executionTimeMs")
                                         /\ b.executionTimeMs = 0

----------------------------------------------------------------------------
(* Properties of calculate_hypervolume. *)

\* C5: two sequential calls with the same front and the same reference point
\* return the same value, whatever was drawn from the global generator, and
\* whatever other calls were made, before or between them.
C5_RepeatedCallsAgree ==
    \A a, b \in DOMAIN returned : returned[a].value = returned[b].value

\* Other code used the generator between the first call and the second, which
\* returns a non-zero estimate.
C5_Witness ==
    /\ Len(returned) >= 2
    /\ ~returned[1].perturbed
    /\ returned[2].perturbed
    /\ returned[2].value # 0

\* C6: when two calls run concurrently with their steps interleaved in any
\* order, each returns the value it returns when executed alone.
C6_InterleavedCallsAsAlone ==
    \A t \in Threads :
        cpc[t] = "done" =>
            cvalue[t] = CalculateHypervolume(cfront[t], cref[t], rng).value

\* C7: a call leaves the state of the process-global generator unchanged,
\* for every front.
C7_GlobalGeneratorUnchanged == [][CallHypervolume => rng' = rng]_vars

\* The objectives, box and samples of the call under test.
TheObjectives == ObjectivesOf(front)
TheLow == MinPoint(TheObjectives)
TheHigh == EffectiveReference(TheObjectives, reference_point)
TheSamples == RandomPoints(SeededState, TheLow, TheHigh)

\* A coordinate of the reference point against a value of the grid.
Above(h, l) == h[1] > l \/ (h[1] = l /\ h[2] > 0)
AtOrBelow(h, l) == ~Above(h, l)

\* C9: for a non-empty front and a caller-supplied reference point that is
\* less than or equal to the front's minimum in some dimension, the call
\* returns 0 (never a negative or a positive value).
C9_DegenerateBoxIsZero ==
    (/\ front # <<>>
     /\ reference_point # NoReference
     /\ \E j \in Dims : AtOrBelow(reference_point[j], TheLow[j]))
    => \A a \in DOMAIN returned : returned[a].value = 0

\* The samples that some solution of the front is <= in all three objectives.
DominatedSamples ==
    With(TheObjectives, LAMBDA objectives :
    With(TheSamples, LAMBDA points :
        { i \in DOMAIN points :
            \E k \in DOMAIN objectives :
                \A j \in Dims : LessOrEqual(objectives[k][j], points[i][j]) }))

\* The samples that are equal to a solution of the front.
TiedSamples ==
    With(TheObjectives, LAMBDA objectives :
    With(TheSamples, LAMBDA points :
        { i \in DOMAIN points :
            \E k \in DOMAIN objectives :
                \A j \in Dims : points[i][j] = <<objectives[k][j], 0, 0, 0, 0>> }))

\* C10: for a non-empty front the call returns dominatedCount / sampleCount
\* times the product over the dimensions of (reference - minimum of the
\* front), a sample counting as dominated exactly when some solution is <= it
\* in all three objectives (a tie counts).  Values are held times n_samples.
C10_EstimateFormula ==
    (front # <<>> /\ returned # <<>>) =>
        With(Cardinality(DominatedSamples), LAMBDA dominatedCount :
            \A a \in DOMAIN returned :
                returned[a].value =
                    dominatedCount
                      * Width(TheLow[1], TheHigh[1]) * Width(TheLow[2], TheHigh[2])
                      * Width(TheLow[3], TheHigh[3]))

\* A call returned a positive value on a box of whose samples some are equal
\* to a solution of the front, and are counted.
C10_Witness ==
    /\ front # <<>>
    /\ returned # <<>>
    /\ returned[1].value > 0
    /\ With(TiedSamples, LAMBDA tied :
          tied # {} /\ tied \subseteq DominatedSamples)

\* C8: the call returns 0 for an empty front with any reference point, the
\* omitted one included, and so every round with an empty front has
\* hypervolume 0 in the metrics timeline.
C8_EmptyFrontIsZero ==
    /\ \A ref \in ReferencePoints : CalculateHypervolume(<<>>, ref, rng).value = 0
    /\ mpc = "done" =>
          \A i \in DOMAIN data.rounds :
              data.rounds[i].paretoFront = <<>> => metrics.hypervolume[i] = 0

\* A timeline with an empty round beside a round of positive hypervolume.
C8_Witness ==
    /\ mpc = "done"
    /\ \E i, k \in DOMAIN data.rounds :
          /\ data.rounds[i].paretoFront = <<>>
          /\ metrics.hypervolume[i] = 0
          /\ metrics.hypervolume[k] > 0

----------------------------------------------------------------------------
(* Properties of calculate_hypervolume on a growing front. *)

\* C11: for a front A and the front B that is A plus one solution that no
\* solution of A dominates, with the same reference point (every call seeds
\* the generator alike), the call on B returns at least what the call on A
\* returned.
C11_SupersetNotSmaller ==
    grown => \A k \in 2..Len(returned) : returned[k].value >= returned[1].value
----------------------------------------------------------------------------
(* Properties of calculate_sparsity, on the values it returned to          *)
(* calculate_metrics_over_time.                                            *)

\* The front of round i of the run document, and its objective triples.
FrontOf(i) == data.rounds[i].paretoFront
TriplesOf(i) == ObjectivesOf(FrontOf(i))

\* C12: for every front of 0, 1 or 2 solutions, whatever their values, the
\* call returns the unbounded-diversity sentinel, infinity, which is neither 0
\* nor any other number.
C12_SmallFrontIsSentinel ==
    mpc = "done" =>
        \A i \in DOMAIN data.rounds :
            Len(FrontOf(i)) <= 2 => raw_sparsity[i] = Infinite /\ raw_sparsity[i].inf

\* The call returned the sentinel for a front of two different solutions.
C12_Witness ==
    /\ mpc = "done"
    /\ \E i \in DOMAIN data.rounds :
          /\ Len(FrontOf(i)) = 2
          /\ FrontOf(i)[1] # FrontOf(i)[2]
          /\ raw_sparsity[i] = Infinite

\* The orders that sort the triples by dimension m.
SortOrders(triples, m) ==
    { p \in [DOMAIN triples -> DOMAIN triples] :
        /\ \A k \in DOMAIN triples : \E a \in DOMAIN triples : p[a] = k
        /\ \A a, b \in DOMAIN triples : a < b => triples[p[a]][m] <= triples[p[b]][m] }

\* Where solution k stands in a sort order.
PositionIn(p, k) == CHOOSE a \in DOMAIN p : p[a] = k

\* max - min of dimension m across the front.
RangeOf(triples, m) ==
    LET values == { triples[k][m] : k \in DOMAIN triples }
    IN  (CHOOSE hi \in values : \A v \in values : v <= hi)
          - (CHOOSE lo \in values : \A v \in values : lo <= v)

\* Solution k is the first or the last of the sort order of one of these
\* dimensions.
OnBoundary(triples, orders, dims, k) ==
    \E m \in dims : PositionIn(orders[m], k) \in {1, Len(triples)}

\* (next - prev) / range for solution k in dimension m, 0 where the range is 0.
Contribution(triples, orders, m, k) ==
    LET a == PositionIn(orders[m], k)
    IN  IF RangeOf(triples, m) = 0 THEN Frac(0, 1)
        ELSE Frac(triples[orders[m][a + 1]][m] - triples[orders[m][a - 1]][m],
                  RangeOf(triples, m))

\* The crowding distance of a solution that is on no boundary.
DistanceOf(triples, orders, k) ==
    Plus(Plus(Contribution(triples, orders, 1, k), Contribution(triples, orders, 2, k)),
         Contribution(triples, orders, 3, k))

RECURSIVE SumOver(_, _, _)
SumOver(triples, orders, ks) ==
    IF ks = {} THEN Frac(0, 1)
    ELSE LET k == CHOOSE x \in ks : TRUE
         IN  Plus(DistanceOf(triples, orders, k), SumOver(triples, orders, ks \ {k}))

\* The mean of the distances of the solutions that are on no boundary of
\* these dimensions, the sentinel if there is none.
MeanInterior(triples, orders, dims) ==
    LET interior == { k \in DOMAIN triples : ~OnBoundary(triples, orders, dims, k) }
        total == SumOver(triples, orders, interior)
    IN  IF interior = {} THEN Infinite
        ELSE Frac(total.num, total.den * Cardinality(interior))

\* The values the definition allows, one for each choice of the sort orders:
\* boundaries are taken in these dimensions only.
Expected(triples, dims) ==
    { MeanInterior(triples, <<p1, p2, p3>>, dims) :
        p1 \in SortOrders(triples, 1),
        p2 \in SortOrders(triples, 2),
        p3 \in SortOrders(triples, 3) }

\* C13: on a front of 3 or more solutions, a dimension in which all the
\* solutions share one value contributes exactly 0 to the distance of every
\* solution, its boundary solutions included: the value returned is the one
\* obtained when that dimension makes no solution's distance infinite.
C13_ZeroRangeContributesNothing ==
    mpc = "done" =>
        \A i \in DOMAIN data.rounds :
            Len(FrontOf(i)) >= 3 =>
                raw_sparsity[i] \in
                    Expected(TriplesOf(i), { m \in Dims : RangeOf(TriplesOf(i), m) > 0 })

\* C14: on a front of 3 or more solutions the call returns the arithmetic
\* mean of the distances of the solutions whose distance is finite, a
\* distance being the sum over the three dimensions of (next - prev) / range
\* in that dimension's sort order, and infinite for the first and the last of
\* some dimension's sort order; it returns the sentinel exactly when no
\* solution's distance is finite.
C14_MeanOfFiniteDistances ==
    mpc = "done" =>
        \A i \in DOMAIN data.rounds :
            Len(FrontOf(i)) >= 3 => raw_sparsity[i] \in Expected(TriplesOf(i), Dims)

\* A front of four solutions of which two have a finite distance returned
\* their mean, 23/12, beside a front of three that returned the sentinel.
C14_Witness ==
    /\ mpc = "done"
    /\ \E i, k \in DOMAIN data.rounds :
          /\ Len(FrontOf(i)) = 4
          /\ raw_sparsity[i] = Frac(23, 12)
          /\ Len(FrontOf(k)) = 3
          /\ raw_sparsity[k] = Infinite
----------------------------------------------------------------------------
(* Properties of calculate_metrics_over_time. *)

\* The objective triples of all the rounds' fronts.
AllTriples == UNION { { TriplesOf(i)[k] : k \in DOMAIN TriplesOf(i) } : i \in DOMAIN data.rounds }

\* The largest value of dimension j over all the rounds.
LargestOf(j) == CHOOSE hi \in { t[j] : t \in AllTriples } : \A t \in AllTriples : t[j] <= hi

\* C15: every round's hypervolume is computed with one reference point: the
\* componentwise maximum over the triples of all the rounds' fronts plus 0.1
\* (one grid step) in each dimension, or (1.1, 1.1, 1.1) when no round has a
\* solution; it does not depend on the round.
C15_OneReferenceForAllRounds ==
    mpc = "done" =>
        /\ global_reference =
              IF AllTriples = {} THEN <<11, 11, 11>>
              ELSE << LargestOf(1) + 1, LargestOf(2) + 1, LargestOf(3) + 1 >>
        /\ \A i \in DOMAIN data.rounds :
              metrics.hypervolume[i]
                 = CalculateHypervolume(FrontOf(i), OnGrid(global_reference), SeededState).value

\* Two rounds of different maxima: the first round's hypervolume differs from
\* the one its own maximum plus the margin would give.
C15_Witness ==
    /\ mpc = "done"
    /\ Len(data.rounds) >= 2
    /\ FrontOf(1) # <<>>
    /\ FrontOf(2) # <<>>
    /\ OnGrid(global_reference) # EffectiveReference(TriplesOf(1), NoReference)
    /\ metrics.hypervolume[1]
          # CalculateHypervolume(FrontOf(1), NoReference, SeededState).value

\* C16: each of the four sequences of the timeline has exactly one entry per
\* input round, in input order, none dropped or reordered, and the round
\* numbers are 1, 2, ..., n.
C16_OneEntryPerRoundInOrder ==
    mpc = "done" =>
        LET n == Len(data.rounds)
        IN  /\ DOMAIN metrics.rounds = 1..n
            /\ DOMAIN metrics.hypervolume = 1..n
            /\ DOMAIN metrics.sparsity = 1..n
            /\ DOMAIN metrics.pareto_size = 1..n
            /\ \A i \in 1..n :
                  /\ metrics.rounds[i] = i
                  /\ metrics.pareto_size[i] = Len(FrontOf(i))
                  /\ metrics.hypervolume[i]
                        = CalculateHypervolume(FrontOf(i), OnGrid(global_reference), SeededState).value
                  /\ \E s \in CalculateSparsity(FrontOf(i)) :
                        metrics.sparsity[i] = IF s.inf THEN Frac(100, 1) ELSE s

\* A timeline of two rounds, an empty front first and then a front of four
\* solutions: the entries differ in every sequence.
C16_Witness ==
    /\ mpc = "done"
    /\ Len(data.rounds) = 2
    /\ FrontOf(1) = <<>>
    /\ Len(FrontOf(2)) = 4
    /\ metrics.rounds = <<1, 2>>
    /\ metrics.pareto_size = <<0, 4>>
    /\ metrics.hypervolume[1] # metrics.hypervolume[2]
    /\ metrics.sparsity[1] # metrics.sparsity[2]

\* C17: every sparsity of the timeline is a finite number: 100 exactly where
\* calculate_sparsity returned the sentinel, and the returned value, unchanged,
\* where it did not.
C17_SparsityCapped ==
    mpc = "done" =>
        \A i \in DOMAIN data.rounds :
            /\ ~metrics.sparsity[i].inf
            /\ raw_sparsity[i].inf => metrics.sparsity[i] = Frac(100, 1)
            /\ ~raw_sparsity[i].inf => metrics.sparsity[i] = raw_sparsity[i]

\* A timeline with a capped round beside a round whose sparsity is 23/12.
C17_Witness ==
    /\ mpc = "done"
    /\ \E i, k \in DOMAIN data.rounds :
          /\ raw_sparsity[i] = Infinite
          /\ metrics.sparsity[i] = Frac(100, 1)
          /\ raw_sparsity[k] = Frac(23, 12)
          /\ metrics.sparsity[k] = Frac(23, 12)

\* C18: for every round the pareto size is the number of solutions of the
\* round's front as given, 0 for an empty front: dominated and duplicate
\* solutions are counted, and the metrics are those of the front as given.
C18_ParetoSizeIsLength ==
    mpc = "done" =>
        \A i \in DOMAIN data.rounds :
            /\ metrics.pareto_size[i] = Len(FrontOf(i))
            /\ FrontOf(i) = <<>> => metrics.pareto_size[i] = 0
            /\ raw_sparsity[i] \in CalculateSparsity(FrontOf(i))

\* A front of three solutions, one of them twice and dominated, is counted as
\* 3, beside an empty front counted as 0.
C18_Witness ==
    /\ mpc = "done"
    /\ \E i, k \in DOMAIN data.rounds :
          /\ FrontOf(i) = << Sol(3, 3, 3), Sol(0, 3, 3), Sol(3, 3, 3) >>
          /\ metrics.pareto_size[i] = 3
          /\ FrontOf(k) = <<>>
          /\ metrics.pareto_size[k] = 0
----------------------------------------------------------------------------
(* Properties of the algorithm comparison. *)

\* The baselines of document k, in their source order.
BaselinesOf(k) ==
    IF Has(results[k], "baselineResults") THEN results[k].baselineResults ELSE <<>>

\* Where the records of document k start in the list when every document
\* before it holds 1 + len(baselineResults) records.
RECURSIVE StartOf(_)
StartOf(k) == IF k = 1 THEN 1 ELSE StartOf(k - 1) + 1 + Len(BaselinesOf(k - 1))

\* C19: for every run the record list holds exactly 1 + len(baselineResults)
\* records: the record of NSGA-II first, then one record per baseline in the
\* baselines' source order.
C19_OnePlusBaselinesPerRun ==
    compared \in {"plotted", "no data"} =>
        /\ Len(comparison_records) = StartOf(Len(results) + 1) - 1
        /\ \A k \in DOMAIN results :
              /\ comparison_records[StartOf(k)].algorithm = "NSGA-II"
              /\ comparison_records[StartOf(k)].test_case = results[k].name
              /\ \A j \in DOMAIN BaselinesOf(k) :
                    /\ comparison_records[StartOf(k) + j].algorithm
                          = BaselinesOf(k)[j].algorithm
                    /\ comparison_records[StartOf(k) + j].test_case = results[k].name

\* The documents that have an entry in the lists of
\* plot_performance_comparison, by position in results.
EntryRuns == SelectSeq([k \in DOMAIN results |-> k],
                       LAMBDA k : Has(results[k], "comparisonMetrics")
                                    /\ results[k].comparisonMetrics # <<>>)

\* The proposed algorithm's weighted score, or its execution time, is 0 in
\* document k.
ZeroWeightedScore(k) ==
    LET cm == results[k].comparisonMetrics
    IN  Has(cm, "nsgaiiBest") /\ Has(cm.nsgaiiBest, "weightedScore")
          /\ cm.nsgaiiBest.weightedScore = 0

ZeroExecutionTime(k) ==
    LET cm == results[k].comparisonMetrics
    IN  Has(cm, "performanceComparison")
          /\ Has(cm.performanceComparison, "nsgaiiExecutionTime")
          /\ cm.performanceComparison.nsgaiiExecutionTime = 0

\* C20: when the denominator of the improvement ratio (the weighted score of
\* the proposed algorithm) or of the speedup ratio (its execution time) is 0,
\* the run's entry carries an undefined-ratio signal in place of the ratio,
\* which is no number.
C20_UndefinedRatioSignalled ==
    performed =>
        \A n \in DOMAIN EntryRuns :
            /\ ZeroWeightedScore(EntryRuns[n]) => improvement_data[n].improvement_ratio \notin Int
            /\ ZeroExecutionTime(EntryRuns[n]) => performance_data[n].speedup_ratio \notin Int

\* The fields of the proposed algorithm that a record of NSGA-II is built from
\* are all present in document k.
ProposedFieldsPresent(k) ==
    /\ Has(results[k], "comparisonMetrics")
    /\ Has(results[k].comparisonMetrics, "nsgaiiBest")
    /\ { "rawCost", "rawBalance", "disruption", "weightedScore", "movements" }
          \subseteq DOMAIN results[k].comparisonMetrics.nsgaiiBest
    /\ Has(results[k].comparisonMetrics, "performanceComparison")
    /\ Has(results[k].comparisonMetrics.performanceComparison, "nsgaiiExecutionTime")

\* C21: a required field that is absent from the input makes the operation
\* that reads it fail: when plot_algorithm_comparison has built its records
\* without failing, every document that got a record of the proposed
\* algorithm holds all the fields of that record, and every baseline holds
\* all of its fields; no record carries a substituted default.
C21_AbsentFieldFails ==
    compared = "plotted" =>
        \A k \in DOMAIN results :
            /\ HasFinalResults(results[k]) => ProposedFieldsPresent(k)
            /\ \A j \in DOMAIN BaselinesOf(k) :
                  BaselineKeys \subseteq DOMAIN BaselinesOf(k)[j]
----------------------------------------------------------------------------
(* Further properties of the cross-run aggregator. *)

\* The runs of group nc, in their order in results.
OwnRuns(nc) == SelectSeq(results, LAMBDA r : r.nodes = nc)

\* The report lines of group nc, in order.
OwnLines(nc) == SelectSeq(report, LAMBDA l : l.node_count = nc)

\* C22: the summary of a group depends only on the runs of that group: its
\* best values, its best rounds and its baseline entries are those the
\* aggregator builds from the group's runs alone, whatever the runs of other
\* groups and wherever they stand in the list.
C22_GroupDependsOnOwnRuns ==
    phase = "plotted" =>
        \A nc \in DOMAIN scenario_data :
            /\ scenario_data[nc] = Aggregate(OwnRuns(nc))[nc]
            /\ OwnLines(nc) = ReportFrom(OwnRuns(nc), 1)

\* Two runs of different groups, the first with a baseline that the second
\* group's summary does not hold.
C22_Witness ==
    /\ phase = "plotted"
    /\ Len(results) = 2
    /\ results[1].nodes # results[2].nodes
    /\ Has(results[1], "baselineResults")
    /\ results[1].baselineResults # <<>>
    /\ results[1].baselineResults[1].algorithm
          \notin DOMAIN scenario_data[results[2].nodes].baselines
    /\ Len(OwnLines(results[2].nodes)) = 1

\* The positions in results of the runs that have rounds, in order: the runs
\* the report has a line for.
ReportedRuns == SelectSeq([k \in DOMAIN results |-> k], LAMBDA k : RoundsOf(k) # <<>>)

\* The earliest round of run k whose value of this field is the run's minimum.
EarliestBest(k, field) ==
    LET rounds == RoundsOf(k)
        least == MinOf({ rounds[i].bestSolution[field] : i \in DOMAIN rounds })
    IN  MinOf({ i \in DOMAIN rounds : rounds[i].bestSolution[field] = least })

\* C27: when several rounds of a run tie for the minimum of an objective, the
\* recorded round is the earliest of them, as the 1-based position in the
\* run's round list, between 1 and the number of rounds.
C27_EarliestRoundOnTie ==
    phase = "plotted" =>
        /\ Len(report) = Len(ReportedRuns)
        /\ \A n \in DOMAIN report :
              LET k == ReportedRuns[n]
              IN  /\ report[n].best_cost_round = EarliestBest(k, "rawCost")
                  /\ report[n].best_balance_round = EarliestBest(k, "rawBalance")
                  /\ report[n].best_disruption_round = EarliestBest(k, "disruption")
                  /\ report[n].best_cost_round \in 1..Len(RoundsOf(k))
                  /\ report[n].best_balance_round \in 1..Len(RoundsOf(k))
                  /\ report[n].best_disruption_round \in 1..Len(RoundsOf(k))

\* A run of two rounds with the same bestSolution: round 1 is recorded for
\* every objective.
C27_Witness ==
    /\ phase = "plotted"
    /\ \E n \in DOMAIN report :
          /\ Len(RoundsOf(ReportedRuns[n])) = 2
          /\ RoundsOf(ReportedRuns[n])[1] = RoundsOf(ReportedRuns[n])[2]
          /\ report[n].best_cost_round = 1
          /\ report[n].best_balance_round = 1
          /\ report[n].best_disruption_round = 1
----------------------------------------------------------------------------
(* The operations leave their inputs alone. *)

\* C23: calculate_metrics_over_time, the aggregation of
\* plot_academic_bar_comparison and the record building of
\* plot_algorithm_comparison leave the run documents unchanged: the analyzer's
\* list and the document given to the timeline builder have, after each call,
\* the value of every field they had before it.
C23_InputsUnchanged ==
    [][ (CalculateMetricsOverTime \/ PlotAcademicBarComparison \/ PlotAlgorithmComparison)
            => (results' = results /\ data' = data) ]_vars

\* The timeline builder and plot_algorithm_comparison have both run on
\* non-empty inputs and produced results.
C23_Witness ==
    /\ mpc = "done"
    /\ data.rounds # <<>>
    /\ metrics.rounds # <<>>
    /\ compared = "plotted"
    /\ scenario_data # <<>>
    /\ Len(results) = MaxRuns
----------------------------------------------------------------------------
(* The two academic comparisons against each other. *)

\* C24: plot_academic_style_comparison reports for each group the NSGA-II
\* cost, balance and disruption that plot_academic_bar_comparison reports on
\* the same runs, the minimum over all the rounds of the run.
C24_StyleReportsRunMinimum ==
    (phase = "plotted" /\ styled \in {"no plot", "plotted"}) =>
        \A nc \in DOMAIN style_data :
            style_data[nc].nsga_ii # <<>> =>
                /\ style_data[nc].nsga_ii.cost = scenario_data[nc].nsga_ii.cost
                /\ style_data[nc].nsga_ii.balance = scenario_data[nc].nsga_ii.balance
                /\ style_data[nc].nsga_ii.disruption = scenario_data[nc].nsga_ii.disruption
----------------------------------------------------------------------------
(* The convergence marker. *)

\* The rounds i..e of the sequence are all zero.
AllZero(feasible_movements, i, e) ==
    \A x \in i..e : feasible_movements[x] = 0

\* The 1-based number of the first round of the run of zeros that ends at
\* round e.
FirstZeroBefore(feasible_movements, e) ==
    MinOf({ i \in 1..e : AllZero(feasible_movements, i, e) })

\* The sequence ends with three or more zero rounds.
EndsInZeroStreak(feasible_movements) ==
    /\ Len(feasible_movements) >= 3
    /\ AllZero(feasible_movements, Len(feasible_movements) - 2, Len(feasible_movements))

\* C25: for a run whose convergence reason contains 'PDB-blocked' and whose
\* feasible-movements sequence ends with three or more zero rounds, that final
\* streak is recorded and the convergence marker is drawn for it.
C25_TrailingStreakMarked ==
    converged = "plotted" =>
        \A nc \in DOMAIN convergence_data :
            (/\ convergence_data[nc].convergence_reason \in PdbBlockedReasons
             /\ EndsInZeroStreak(convergence_data[nc].feasible_movements))
            => /\ markers[nc] # <<>>
               /\ markers[nc][1] >=
                     FirstZeroBefore(convergence_data[nc].feasible_movements,
                                     Len(convergence_data[nc].feasible_movements))

\* C26: when a streak of three or more zero rounds is recorded, the x position
\* of the convergence marker is the 1-based round number of the first zero
\* round of the last recorded streak.
C26_MarkerAtFirstZeroRound ==
    converged = "plotted" =>
        \A nc \in DOMAIN convergence_data :
            markers[nc] # <<>> =>
                LET fm == convergence_data[nc].feasible_movements
                    streaks == ZeroStreaks(fm)
                    last_zero == streaks[Len(streaks)][2]
                IN  markers[nc][1] = FirstZeroBefore(fm, last_zero)
----------------------------------------------------------------------------
(* Ranges of the two metrics. *)

\* The float x lies between 0 and bound.
Within(x, bound) == ~x.inf /\ 0 <= x.num /\ x.num <= bound * x.den

\* C28: calculate_sparsity returns the sentinel or a value between 0 and 3
\* (one unit at most per dimension for a solution interior in all three), so
\* every sparsity of the timeline is exactly 100 or between 0 and 3.
C28_SparsityRange ==
    mpc = "done" =>
        \A i \in DOMAIN data.rounds :
            /\ raw_sparsity[i] = Infinite \/ Within(raw_sparsity[i], 3)
            /\ metrics.sparsity[i] = Frac(SparsityCap, 1) \/ Within(metrics.sparsity[i], 3)

\* A timeline with a round whose sparsity is the upper end 3, and a round of
\* four solutions whose sparsity lies strictly inside the range.
C28_Witness ==
    /\ mpc = "done"
    /\ \E i, k \in DOMAIN data.rounds :
          /\ Len(FrontOf(i)) = 3
          /\ raw_sparsity[i] = Frac(3, 1)
          /\ metrics.sparsity[i] = Frac(3, 1)
          /\ Len(FrontOf(k)) = 4
          /\ Within(raw_sparsity[k], 3)
          /\ raw_sparsity[k].num > raw_sparsity[k].den

\* C29: for a front of one solution and a reference point strictly greater
\* than it in all three dimensions every sample is counted and the call
\* returns the full box volume, the product of (reference - solution) over
\* the dimensions; for any front whose box is non-degenerate the value lies
\* between 0 and the box volume.  Values are held times n_samples.
C29_SingleSolutionFullBox ==
    \A a \in DOMAIN returned :
        /\ (front # <<>> /\ \A j \in Dims : Above(TheHigh[j], TheLow[j]))
           => /\ 0 <= returned[a].value
              /\ returned[a].value <= n_samples * TotalVolume(TheLow, TheHigh)
        /\ (Len(front) = 1 /\ \A j \in Dims : Above(TheHigh[j], TheObjectives[1][j]))
           => returned[a].value =
                 n_samples * Width(TheObjectives[1][1], TheHigh[1])
                          * Width(TheObjectives[1][2], TheHigh[2])
                          * Width(TheObjectives[1][3], TheHigh[3])

\* Calls returned on one solution with a caller-supplied reference point
\* strictly greater than it, after other code had used the generator.
C29_Witness ==
    /\ Len(front) = 1
    /\ reference_point # NoReference
    /\ \A j \in Dims : Above(reference_point[j], TheObjectives[1][j])
    /\ Len(returned) = MaxCalls
    /\ returned[MaxCalls].perturbed
    /\ returned[MaxCalls].value = n_samples * TotalVolume(TheObjectives[1], reference_point)
    /\ returned[MaxCalls].value > 0

\* The two fronts hold the same solutions the same number of times.
SameSolutions(f, g) ==
    /\ Len(f) = Len(g)
    /\ \A s \in { f[k] : k \in DOMAIN f } \cup { g[k] : k \in DOMAIN g } :
          Cardinality({ k \in DOMAIN f : f[k] = s })
            = Cardinality({ k \in DOMAIN g : g[k] = s })

\* C30: calculate_sparsity returns the same value for every ordering of a
\* front: two rounds whose fronts are reorderings of each other get the same
\* sparsity, also when several solutions tie for the lowest or highest value
\* of a dimension.
C30_SparsityIgnoresOrder ==
    mpc = "done" =>
        \A i, k \in DOMAIN data.rounds :
            (SameSolutions(FrontOf(i), FrontOf(k)) /\ FrontOf(i) # FrontOf(k))
            => raw_sparsity[i] = raw_sparsity[k]
====
